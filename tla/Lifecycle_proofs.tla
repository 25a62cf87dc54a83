--------------------------- MODULE Lifecycle_proofs ----------------------------
(***************************************************************************)
(* Proofs about Lifecycle and the handlers of BidHandler that it composes: *)
(* for any number of handlers, pooled objects, requests and campaigns, and *)
(* wherever the program is stopped or fails, every client gets the bid of  *)
(* its own request, the stream is told the same, the services outlive the  *)
(* handlers, the cause of a failure is returned and nothing that was       *)
(* observed is lost.                                                       *)
(***************************************************************************)
EXTENDS Lifecycle, TLAPS, FiniteSetTheorems

-----------------------------------------------------------------------------
(***************************************************************************)
(* The inductive invariant of the handlers.                                *)
(***************************************************************************)
Places == {"idle", "read", "stream", "auction", "write", "release", "observe", "reply"}
Counters == Outcomes \cup {"received", "active"}
Bids == {Bid(q, c) : q \in {x \in Requests : Accepted(x)}, c \in Campaigns}
Data == [parser : Requests \cup {None}, version : Versions \cup {None},
         response : Bids \cup {None}]
Answers == [status : {200, 204, 400, 404, 405, 500, TimeoutStatus}, body : Bids \cup {None}]

HandlerTypeOK ==
    /\ pc \in [Handlers -> Places]
    /\ req \in [Handlers -> Requests \cup {None}]
    /\ holds \in [Handlers -> Objects \cup {None}]
    /\ data \in [Objects -> Data]
    /\ ctx \in [Handlers -> Answers]
    /\ DOMAIN streamed = Handlers
    /\ count \in [Counters -> Int]

\* A handler has a request unless it is idle, and an object from the pool from
\* its first step to its deferred Put().
Busy(r) ==
    /\ (holds[r] = None) = (pc[r] \in {"idle", "observe", "reply"})
    /\ (req[r] = None) = (pc[r] = "idle")

\* No two handlers have the same object.
OneHolder == \A r, s \in Handlers : holds[r] = holds[s] /\ holds[r] # None => r = s

\* What the auction reads through its pointers is the handler's own request,
\* and what is written is the bid that was made for it.
IsBidFor(b, q) == Accepted(q) /\ \E c \in Campaigns : b = Bid(q, c)
OwnObject(r) ==
    /\ pc[r] \in {"stream", "auction", "write"} =>
         /\ Accepted(req[r])
         /\ data[holds[r]].parser = req[r]
         /\ data[holds[r]].version = Version(req[r])
    /\ pc[r] = "write" => IsBidFor(data[holds[r]].response, req[r])

\* What the stream gets of a request that is accepted, and of its bid.
Told(r) == IF "disabled" \notin open /\ Fits(req[r], "request") THEN <<req[r]>> ELSE <<>>
Written(r) ==
    IF "disabled" \notin open /\ ctx[r].body # None /\ Fits(req[r], "bid") THEN <<ctx[r].body>> ELSE <<>>
Taken(r) == req[r].route = "bid" /\ Accepted(req[r])

\* The answer is untouched until the outcome is known, and the stream has then
\* got nothing, or what fits of the request and the bid that are answered.
OwnAnswer(r) ==
    /\ pc[r] \in {"read", "stream", "auction", "write"} => req[r].route = "bid"
    /\ pc[r] \in {"idle", "read", "stream", "auction", "write"} => ctx[r] = EmptyCtx
    /\ pc[r] \in {"idle", "read", "stream"} => streamed[r] = <<>>
    /\ pc[r] \in {"auction", "write"} => streamed[r] = Told(r)
    /\ pc[r] \in {"release", "observe", "reply"} =>
         /\ ctx[r].body # None => IsBidFor(ctx[r].body, req[r])
         /\ streamed[r] = IF Taken(r) THEN Told(r) \o Written(r) ELSE <<>>

HandlerInv ==
    /\ HandlerTypeOK
    /\ OneHolder
    /\ \A r \in Handlers : Busy(r) /\ OwnObject(r) /\ OwnAnswer(r)
    /\ CountedOnce

(***************************************************************************)
(* The inductive invariant of the life cycle.                              *)
(***************************************************************************)
AllIdle == \A r \in Handlers : pc[r] = "idle"

Mains == Starting \cup {"wait", "shutdown", "return", "close", "bid", "returned", "panicked"}
LifeTypeOK ==
    /\ main \in Mains
    /\ open \subseteq {"stream", "cache", "repo", "bid", "disabled"}
    /\ server \in {"off", "starting", "serving", "unbound", "broken", "closed"}
    /\ diag \in {"off", "serving", "broken", "closed"}
    /\ stop \in 0 .. 1
    /\ calling \subseteq Servers /\ closing \subseteq Servers \cup {"drain"}
    /\ missed \in BOOLEAN /\ overtaken \in BOOLEAN
    /\ shutErr \in {"nil", "shutdown"}
    /\ buffer \in [Summaries -> 0 .. BufferSize]
    /\ recorded \in [Summaries -> Nat]

\* The services are opened before anything is served, one of the two streams
\* among them, and are all open until shutdown() is over.
NotServing == server = "off" /\ diag = "off" /\ errReturn = "nil" /\ AllIdle
Opened ==
    /\ main \in Starting => NotServing /\ shutErr = "nil"
    /\ main \notin Starting \cup {"returned"} => server # "off" /\ diag # "off"
    /\ main \in Starting \ {"start"} => "bid" \in open
    /\ main \in {"cache", "stream", "serve"} => "repo" \in open
    /\ main \in {"stream", "serve"} => "cache" \in open
    /\ main = "serve" => open \cap {"stream", "disabled"} # {}
    /\ main \in Starting \ {"serve"} => open \cap {"stream", "disabled"} = {}
    /\ ~ ({"stream", "disabled"} \subseteq open)
    /\ main \in {"wait", "shutdown", "return"} =>
         {"bid", "cache"} \subseteq open /\ open \cap {"stream", "disabled"} # {}

\* shutdown() has the listener still to close, or waits for the handlers, or
\* none is left; after it the listener is closed and all is idle.
NoMoreRequests == server \in {"closed", "broken"}
Guarded ==
    /\ main # "shutdown" => closing = {}
    /\ main \in Starting \cup {"wait"} => ~ missed
    /\ main = "shutdown" /\ ~ missed =>
         \/ "server" \in closing
         \/ NoMoreRequests /\ ("drain" \in closing \/ AllIdle)
    /\ main \in {"return", "close", "bid"} /\ ~ missed => NoMoreRequests /\ AllIdle
    /\ main = "returned" /\ server # "off" /\ ~ missed => AllIdle
    /\ main = "panicked" => missed

\* errReturn is the cause of the stop at every moment, but for a callback that
\* comes between the two accesses of App() and finds itself overwritten.
ErrorKept ==
    /\ main = "returned" /\ server = "off" => errReturn = "start"
    /\ main \in Starting => ~ overtaken
    /\ main = "return" => shutErr = "shutdown"
    /\ ListenerFailed /\ ~ overtaken => errReturn = "listener" /\ main # "return"
    /\ overtaken => /\ ListenerFailed
                    /\ errReturn \in {"listener", "shutdown"}
                    /\ shutErr = "shutdown"
                    /\ main \in {"return", "close", "bid", "returned", "panicked"}
    /\ server # "off" /\ ~ ListenerFailed =>
         /\ main \in {"wait", "shutdown", "return"} => errReturn = "nil"
         /\ main \in {"close", "bid", "returned"} => errReturn = shutErr

\* Every bid request is in the summary, in its channel or still being handled,
\* and the channel is empty once the summary is closed.
Observed ==
    /\ main # "panicked" => recorded["bid"] + buffer["bid"] + count.active = count.received
    /\ main \in {"close", "returned"} /\ server # "off" /\ "bid" \notin open => buffer["bid"] = 0
    /\ main = "returned" /\ server # "off" => "bid" \notin open

LifeInv == LifeTypeOK /\ Opened /\ Guarded /\ ErrorKept /\ Observed

Inv == HandlerInv /\ LifeInv

-----------------------------------------------------------------------------
(***************************************************************************)
(* Lemmas.                                                                 *)
(***************************************************************************)
\* What a bid for a request holds.
LEMMA BidFields ==
    ASSUME NEW b, NEW q \in Requests, IsBidFor(b, q)
    PROVE  /\ b # None /\ b \in Bids
           /\ b.id = q.id /\ b.item = Head(q.items) /\ b.version = Version(q)
BY NoneAssumption DEF IsBidFor, Bids, Bid

\* The services that are closed in order.
LEMMA Services ==
    /\ Range(CloseOrder) = {"stream", "cache", "repo", "bid"}
    /\ Summaries = {"bid"}
<1>1. DOMAIN CloseOrder = 1..4
  BY DEF CloseOrder
<1>2. 1..4 = {1, 2, 3, 4}
  OBVIOUS
<1>3. CloseOrder[1] = "stream" /\ CloseOrder[2] = "cache" /\ CloseOrder[3] = "repo" /\ CloseOrder[4] = "bid"
  BY DEF CloseOrder
<1> QED
  BY <1>1, <1>2, <1>3 DEF Range, Summaries

\* How many handlers are in some places, when one of them moves.
LEMMA MoveCount ==
    ASSUME NEW f \in [Handlers -> Places], NEW r \in Handlers, NEW there \in Places,
           NEW S
    PROVE  LET g == [f EXCEPT ![r] = there]
               Size(h) == Cardinality({i \in Handlers : h[i] \in S})
           IN  /\ Size(f) \in Nat /\ Size(g) \in Nat
               /\ Size(g) = Size(f) + (IF there \in S THEN 1 ELSE 0) - (IF f[r] \in S THEN 1 ELSE 0)
<1> DEFINE g == [f EXCEPT ![r] = there]
           F == {i \in Handlers : f[i] \in S}
           G == {i \in Handlers : g[i] \in S}
<1>1. IsFiniteSet(F) /\ IsFiniteSet(G)
  BY HandlerAssumption, FS_Subset
<1>2. Cardinality(F) \in Nat /\ Cardinality(G) \in Nat
  BY <1>1, FS_CardinalityType
<1>3. ASSUME there \in S, f[r] \notin S PROVE Cardinality(G) = Cardinality(F) + 1
  <2>1. G = F \cup {r} /\ r \notin F
    BY <1>3
  <2>2. Cardinality(G) = Cardinality(F) + 1
    BY <1>1, <2>1, FS_AddElement
  <2> QED
    BY <1>2, <1>3, <2>2
<1>4. ASSUME there \notin S, f[r] \in S PROVE Cardinality(G) = Cardinality(F) - 1
  <2>1. F = G \cup {r} /\ r \notin G
    BY <1>4
  <2>2. Cardinality(F) = Cardinality(G) + 1
    BY <1>1, <2>1, FS_AddElement
  <2> QED
    BY <1>2, <1>4, <2>2
<1>5. ASSUME (there \in S) <=> (f[r] \in S) PROVE Cardinality(G) = Cardinality(F)
  <2>1. G = F
    BY <1>5
  <2> QED
    BY <1>2, <1>5, <2>1
<1>6. Cardinality(G) = Cardinality(F) + (IF there \in S THEN 1 ELSE 0) - (IF f[r] \in S THEN 1 ELSE 0)
  <2> HIDE DEF F, G
  <2> QED
    BY <1>2, <1>3, <1>4, <1>5
<1> QED
  BY <1>2, <1>6

\* The two counts of CountedOnce, when a handler moves.
Serving == {i \in Handlers : pc[i] \in {"read", "stream", "auction", "write"}}
Active == {i \in Handlers : pc[i] \notin {"idle", "reply"}}
LEMMA CountMoves ==
    ASSUME HandlerTypeOK, NEW r \in Handlers, NEW there \in Places, Goto(r, there)
    PROVE  LET S == {"read", "stream", "auction", "write"}
               A == S \cup {"release", "observe"}
           IN  /\ Cardinality(Serving) \in Nat /\ Cardinality(Active) \in Nat
               /\ there \in S /\ pc[r] \notin S => Cardinality(Serving') = Cardinality(Serving) + 1
               /\ there \notin S /\ pc[r] \in S => Cardinality(Serving') = Cardinality(Serving) - 1
               /\ (there \in S <=> pc[r] \in S) => Cardinality(Serving') = Cardinality(Serving)
               /\ there \in A /\ pc[r] \notin A => Cardinality(Active') = Cardinality(Active) + 1
               /\ there \notin A /\ pc[r] \in A => Cardinality(Active') = Cardinality(Active) - 1
               /\ (there \in A <=> pc[r] \in A) => Cardinality(Active') = Cardinality(Active)
<1> DEFINE S == {"read", "stream", "auction", "write"}
           A == S \cup {"release", "observe"}
<1>1. pc \in [Handlers -> Places] /\ pc' = [pc EXCEPT ![r] = there]
  BY DEF HandlerTypeOK, Goto
<1>2. \A T : LET Size(h) == Cardinality({i \in Handlers : h[i] \in T})
             IN  /\ Size(pc) \in Nat
                 /\ Size(pc') = Size(pc) + (IF there \in T THEN 1 ELSE 0) - (IF pc[r] \in T THEN 1 ELSE 0)
  BY <1>1, MoveCount
<1>3. Active = {i \in Handlers : pc[i] \in A} /\ Active' = {i \in Handlers : pc'[i] \in A}
  BY <1>1 DEF Active, Places
<1>4. Serving = {i \in Handlers : pc[i] \in S} /\ Serving' = {i \in Handlers : pc'[i] \in S}
  BY DEF Serving
<1> HIDE DEF S, A
<1>5. /\ Cardinality(Active) \in Nat
      /\ Cardinality(Active') = Cardinality(Active) + (IF there \in A THEN 1 ELSE 0) - (IF pc[r] \in A THEN 1 ELSE 0)
  BY <1>2, <1>3
<1>6. /\ Cardinality(Serving) \in Nat
      /\ Cardinality(Serving') = Cardinality(Serving) + (IF there \in S THEN 1 ELSE 0) - (IF pc[r] \in S THEN 1 ELSE 0)
  BY <1>2, <1>4
<1> QED
  BY <1>5, <1>6 DEF S, A

\* A handler that stops serving still counts as active until it has observed the time.
LEMMA ServingEnds ==
    ASSUME HandlerTypeOK, NEW r \in Handlers, pc[r] \in {"read", "stream", "auction", "write"},
           Goto(r, "release")
    PROVE  /\ Cardinality(Serving) \in Nat /\ Cardinality(Active) \in Nat
           /\ Cardinality(Serving') = Cardinality(Serving) - 1
           /\ Cardinality(Active') = Cardinality(Active)
BY CountMoves DEF Places

\* A step of one handler leaves the others as they are.
LEMMA Others ==
    ASSUME HandlerInv, NEW s \in Handlers,
           pc'[s] = pc[s], req'[s] = req[s], holds'[s] = holds[s],
           ctx'[s] = ctx[s], streamed'[s] = streamed[s],
           pc[s] \in {"stream", "auction", "write"} => data'[holds[s]] = data[holds[s]],
           pc[s] # "idle" => (("disabled" \in open') <=> ("disabled" \in open))
    PROVE  Busy(s)' /\ OwnObject(s)' /\ OwnAnswer(s)'
<1>1. Busy(s) /\ OwnObject(s) /\ OwnAnswer(s)
  BY DEF HandlerInv
<1>2. Busy(s)'
  BY <1>1 DEF Busy
<1>3. OwnObject(s)'
  BY <1>1 DEF OwnObject
<1>4. OwnAnswer(s)'
  <2>1. CASE pc[s] = "idle"
    BY <1>1, <2>1 DEF OwnAnswer
  <2>2. CASE pc[s] # "idle"
    <3>1. Told(s)' = Told(s) /\ Written(s)' = Written(s) /\ Taken(s)' = Taken(s)
      BY <2>2 DEF Told, Written, Taken
    <3> QED
      BY <1>1, <2>2, <3>1 DEF OwnAnswer
  <2> QED
    BY <2>1, <2>2
<1> QED
  BY <1>2, <1>3, <1>4

\* What a handler's control says of its variables.
LEMMA OwnType ==
    ASSUME HandlerInv, NEW r \in Handlers
    PROVE  /\ pc[r] \in Places
           /\ pc[r] # "idle" => req[r] \in Requests
           /\ pc[r] \notin {"idle", "observe", "reply"} => holds[r] \in Objects
           /\ req[r] \in Requests \cup {None} /\ holds[r] \in Objects \cup {None}
BY DEF HandlerInv, HandlerTypeOK, Busy

\* The bid counters are whole numbers.
LEMMA CountType ==
    ASSUME HandlerTypeOK
    PROVE  \A c \in {"bad", "nobid", "timeout", "error", "success", "received", "active"} :
               count[c] \in Int
BY DEF HandlerTypeOK, Counters, Outcomes

-----------------------------------------------------------------------------
(***************************************************************************)
(* HandlerInv is kept by every step of a handler: one lemma per action.    *)
(***************************************************************************)
LEMMA AnswerDirectlyKeeps ==
    ASSUME HandlerInv, NEW r \in Handlers, NEW q \in Requests, AnswerDirectly(r, q), open' = open
    PROVE  HandlerInv'
<1> USE DEF AnswerDirectly, Goto
<1>0. HandlerTypeOK /\ Busy(r) /\ OwnAnswer(r)
  BY DEF HandlerInv
<1>1. HandlerTypeOK'
  <2>1. ctx' \in [Handlers -> Answers]
    BY <1>0 DEF HandlerTypeOK, Answers
  <2> QED
    BY <1>0, <2>1 DEF HandlerTypeOK, Places
<1>2. OneHolder'
  BY DEF HandlerInv, OneHolder
<1>3. Busy(r)' /\ OwnObject(r)' /\ OwnAnswer(r)'
  <2>1. ctx'[r].body = None /\ pc'[r] = "reply" /\ req'[r] = q /\ ~ Taken(r)'
    BY <1>0 DEF HandlerTypeOK, OwnAnswer, EmptyCtx, Taken
  <2>2. streamed'[r] = <<>>
    BY <1>0 DEF OwnAnswer
  <2> QED
    BY <1>0, <2>1, <2>2, NoneAssumption DEF Busy, OwnObject, OwnAnswer
<1>4. \A s \in Handlers \ {r} : Busy(s)' /\ OwnObject(s)' /\ OwnAnswer(s)'
  <2> SUFFICES ASSUME NEW s \in Handlers \ {r} PROVE Busy(s)' /\ OwnObject(s)' /\ OwnAnswer(s)'
    OBVIOUS
  <2> QED
    BY <1>0, Others DEF HandlerTypeOK
<1>5. CountedOnce'
  <2>1. CountedOnce
    BY DEF HandlerInv
  <2> QED
    BY <1>0, <2>1, CountMoves DEF CountedOnce, Serving, Active, Places
<1> QED
  BY <1>1, <1>2, <1>3, <1>4, <1>5 DEF HandlerInv

LEMMA ReceiveKeeps ==
    ASSUME HandlerInv, NEW r \in Handlers, NEW q \in Requests, Receive(r, q), open' = open
    PROVE  HandlerInv'
<1>0. HandlerTypeOK /\ OneHolder /\ Busy(r) /\ OwnAnswer(r)
  BY DEF HandlerInv
<1>p. PICK p \in Objects \ {holds[i] : i \in Handlers} :
         /\ holds' = [holds EXCEPT ![r] = p]
         /\ \E contents \in {data[p], Fresh} : data' = [data EXCEPT ![p] = contents]
  BY DEF Receive
<1> USE DEF Goto
<1>1. HandlerTypeOK'
  <2>1. Fresh \in Data /\ data[p] \in Data
    BY <1>0 DEF Fresh, Data, HandlerTypeOK
  <2>2. data' \in [Objects -> Data]
    BY <1>0, <1>p, <2>1 DEF HandlerTypeOK
  <2>3. count' \in [Counters -> Int]
    <3>1. count \in [Counters -> Int] /\ count.received + 1 \in Int /\ count.active + 1 \in Int
      BY <1>0, CountType DEF HandlerTypeOK
    <3>2. count' = [[count EXCEPT !["received"] = count.received + 1] EXCEPT !["active"] = count.active + 1]
      BY <3>1 DEF Receive, Counters
    <3> QED
      BY <3>1, <3>2
  <2> QED
    BY <1>0, <1>p, <2>2, <2>3 DEF Receive, HandlerTypeOK, Places
<1>2. OneHolder'
  BY <1>0, <1>p DEF OneHolder, HandlerTypeOK
<1>3. Busy(r)' /\ OwnObject(r)' /\ OwnAnswer(r)'
  <2>1. p # None /\ q # None
    BY NoneAssumption
  <2>2. holds'[r] = p /\ pc'[r] = "read" /\ req'[r] = q
    BY <1>0, <1>p DEF Receive, HandlerTypeOK
  <2> QED
    BY <1>0, <2>1, <2>2 DEF Receive, Busy, OwnObject, OwnAnswer
<1>4. \A s \in Handlers \ {r} : Busy(s)' /\ OwnObject(s)' /\ OwnAnswer(s)'
  <2> SUFFICES ASSUME NEW s \in Handlers \ {r} PROVE Busy(s)' /\ OwnObject(s)' /\ OwnAnswer(s)'
    OBVIOUS
  <2>1. pc[s] \in {"stream", "auction", "write"} => data'[holds[s]] = data[holds[s]]
    BY <1>0, <1>p, OwnType DEF HandlerTypeOK
  <2> QED
    BY <1>0, <1>p, <2>1, Others DEF Receive, HandlerTypeOK
<1>5. CountedOnce'
  <2>1. CountedOnce
    BY DEF HandlerInv
  <2>2. \A c \in Counters : count'[c] = IF c \in {"received", "active"} THEN count[c] + 1 ELSE count[c]
    BY <1>0 DEF Receive, HandlerTypeOK
  <2>3. /\ Cardinality(Serving) \in Nat /\ Cardinality(Active) \in Nat
        /\ Cardinality(Serving') = Cardinality(Serving) + 1
        /\ Cardinality(Active') = Cardinality(Active) + 1
    BY <1>0, CountMoves DEF Receive, Places
  <2> QED
    BY <1>0, <2>1, <2>2, <2>3, CountType DEF CountedOnce, Serving, Active, Counters, Outcomes
<1> QED
  BY <1>1, <1>2, <1>3, <1>4, <1>5 DEF HandlerInv

LEMMA ReadRequestKeeps ==
    ASSUME HandlerInv, NEW r \in Handlers, ReadRequest(r), open' = open
    PROVE  HandlerInv'
<1>0. HandlerTypeOK /\ OneHolder /\ Busy(r) /\ OwnAnswer(r) /\ holds[r] \in Objects /\ req[r] \in Requests
  BY OwnType DEF HandlerInv, ReadRequest
<1> USE DEF ReadRequest, Goto
<1>d. /\ data' = [data EXCEPT ![holds[r]] = [data[holds[r]] EXCEPT !.parser = req[r],
                                                                     !.version = Version(req[r])]]
      /\ data'[holds[r]].parser = req[r] /\ data'[holds[r]].version = Version(req[r])
  BY <1>0 DEF HandlerTypeOK, Data
<1>1. HandlerTypeOK'
  <2>1. Version(req[r]) \in Versions
    BY DEF Accepted
  <2>2. data' \in [Objects -> Data]
    BY <1>0, <1>d, <2>1 DEF HandlerTypeOK, Data
  <2> QED
    BY <1>0, <2>2 DEF HandlerTypeOK, Places
<1>2. OneHolder'
  BY <1>0 DEF OneHolder
<1>3. Busy(r)' /\ OwnObject(r)' /\ OwnAnswer(r)'
  <2>1. pc'[r] = "stream"
    BY <1>0 DEF HandlerTypeOK
  <2> QED
    BY <1>0, <1>d, <2>1 DEF Busy, OwnObject, OwnAnswer
<1>4. \A s \in Handlers \ {r} : Busy(s)' /\ OwnObject(s)' /\ OwnAnswer(s)'
  <2> SUFFICES ASSUME NEW s \in Handlers \ {r} PROVE Busy(s)' /\ OwnObject(s)' /\ OwnAnswer(s)'
    OBVIOUS
  <2>1. pc[s] \in {"stream", "auction", "write"} => data'[holds[s]] = data[holds[s]]
    BY <1>0, <1>d, OwnType, NoneAssumption DEF HandlerTypeOK, OneHolder
  <2> QED
    BY <1>0, <2>1, Others DEF HandlerTypeOK
<1>5. CountedOnce'
  <2>1. CountedOnce
    BY DEF HandlerInv
  <2> QED
    BY <1>0, <2>1, CountMoves DEF CountedOnce, Serving, Active, Places
<1> QED
  BY <1>1, <1>2, <1>3, <1>4, <1>5 DEF HandlerInv

LEMMA RefuseRequestKeeps ==
    ASSUME HandlerInv, NEW r \in Handlers, RefuseRequest(r), open' = open
    PROVE  HandlerInv'
<1>0. HandlerTypeOK /\ OneHolder /\ Busy(r) /\ OwnAnswer(r) /\ holds[r] \in Objects /\ req[r] \in Requests
  BY OwnType DEF HandlerInv, RefuseRequest
<1> USE DEF RefuseRequest, Goto
<1>d. \/ data' = data
      \/ data' = [data EXCEPT ![holds[r]] = [data[holds[r]] EXCEPT !.parser = req[r]]]
  BY <1>0 DEF HandlerTypeOK, Data
<1>1. HandlerTypeOK'
  <2>2. data' \in [Objects -> Data]
    BY <1>0, <1>d DEF HandlerTypeOK, Data
  <2>3. ctx' \in [Handlers -> Answers]
    BY <1>0 DEF HandlerTypeOK, Answers
  <2>4. count' \in [Counters -> Int]
    BY <1>0, CountType DEF HandlerTypeOK
  <2> QED
    BY <1>0, <2>2, <2>3, <2>4 DEF HandlerTypeOK, Places
<1>2. OneHolder'
  BY <1>0 DEF OneHolder
<1>3. Busy(r)' /\ OwnObject(r)' /\ OwnAnswer(r)'
  <2>1. pc'[r] = "release" /\ ctx'[r].body = None /\ ~ Taken(r)'
    BY <1>0 DEF HandlerTypeOK, OwnAnswer, EmptyCtx, Taken
  <2> QED
    BY <1>0, <2>1 DEF Busy, OwnObject, OwnAnswer
<1>4. \A s \in Handlers \ {r} : Busy(s)' /\ OwnObject(s)' /\ OwnAnswer(s)'
  <2> SUFFICES ASSUME NEW s \in Handlers \ {r} PROVE Busy(s)' /\ OwnObject(s)' /\ OwnAnswer(s)'
    OBVIOUS
  <2>1. pc[s] \in {"stream", "auction", "write"} => data'[holds[s]] = data[holds[s]]
    BY <1>0, <1>d, OwnType, NoneAssumption DEF HandlerTypeOK, OneHolder
  <2> QED
    BY <1>0, <2>1, Others DEF HandlerTypeOK
<1>5. CountedOnce'
  <2>1. CountedOnce
    BY DEF HandlerInv
  <2>2. \A c \in Counters : count'[c] = IF c = "bad" THEN count[c] + 1 ELSE count[c]
    BY <1>0 DEF HandlerTypeOK
  <2>3. /\ Cardinality(Serving) \in Nat /\ Cardinality(Active) \in Nat
        /\ Cardinality(Serving') = Cardinality(Serving) - 1
        /\ Cardinality(Active') = Cardinality(Active)
    BY <1>0, ServingEnds
  <2> QED
    BY <1>0, <2>1, <2>2, <2>3, CountType DEF CountedOnce, Serving, Active, Counters, Outcomes
<1> QED
  BY <1>1, <1>2, <1>3, <1>4, <1>5 DEF HandlerInv

LEMMA PutRequestKeeps ==
    ASSUME HandlerInv, NEW r \in Handlers, PutRequest(r, "stream" \in open), open' = open,
           ~ ({"stream", "disabled"} \subseteq open),
           open \cap {"stream", "disabled"} # {} \/ ~ Fits(req[r], "request")
    PROVE  HandlerInv'
<1>0. HandlerTypeOK /\ OneHolder /\ Busy(r) /\ OwnObject(r) /\ OwnAnswer(r)
  BY DEF HandlerInv
<1> USE DEF PutRequest, Goto
<1>1. HandlerTypeOK'
  <2>1. DOMAIN streamed' = Handlers
    BY <1>0 DEF HandlerTypeOK
  <2> QED
    BY <1>0, <2>1 DEF HandlerTypeOK, Places
<1>2. OneHolder'
  BY <1>0 DEF OneHolder
<1>3. Busy(r)' /\ OwnObject(r)' /\ OwnAnswer(r)'
  <2>1. pc'[r] = "auction"
    BY <1>0 DEF HandlerTypeOK
  <2>2. streamed'[r] = IF "stream" \in open /\ Fits(req[r], "request")
                       THEN Append(streamed[r], req[r]) ELSE streamed[r]
    BY <1>0 DEF HandlerTypeOK
  <2>3. streamed[r] = <<>> /\ Append(<<>>, req[r]) = <<req[r]>>
    BY <1>0 DEF OwnAnswer
  <2>4. streamed'[r] = Told(r)'
    BY <2>2, <2>3 DEF Told
  <2> QED
    BY <1>0, <2>1, <2>4 DEF Busy, OwnObject, OwnAnswer
<1>4. \A s \in Handlers \ {r} : Busy(s)' /\ OwnObject(s)' /\ OwnAnswer(s)'
  <2> SUFFICES ASSUME NEW s \in Handlers \ {r} PROVE Busy(s)' /\ OwnObject(s)' /\ OwnAnswer(s)'
    OBVIOUS
  <2> QED
    BY <1>0, Others DEF HandlerTypeOK
<1>5. CountedOnce'
  <2>1. CountedOnce
    BY DEF HandlerInv
  <2> QED
    BY <1>0, <2>1, CountMoves DEF CountedOnce, Serving, Active, Places
<1> QED
  BY <1>1, <1>2, <1>3, <1>4, <1>5 DEF HandlerInv

LEMMA AuctionFailsKeeps ==
    ASSUME HandlerInv, NEW r \in Handlers, AuctionFails(r), open' = open
    PROVE  HandlerInv'
<1>0. HandlerTypeOK /\ OneHolder /\ Busy(r) /\ OwnObject(r) /\ OwnAnswer(r)
  BY DEF HandlerInv
<1> USE DEF Goto
<1>e. PICK e \in {[name |-> "nobid", status |-> 204], [name |-> "timeout", status |-> TimeoutStatus],
                  [name |-> "error", status |-> 500]} :
         /\ count' = [count EXCEPT ![e.name] = @ + 1]
         /\ ctx' = [ctx EXCEPT ![r].status = e.status]
  BY DEF AuctionFails
<1>f. /\ e.name \in {"nobid", "timeout", "error"}
      /\ e.status \in {204, 500, TimeoutStatus}
  OBVIOUS
<1>1. HandlerTypeOK'
  <2>1. ctx' \in [Handlers -> Answers]
    BY <1>0, <1>e, <1>f DEF HandlerTypeOK, Answers
  <2>2. count' \in [Counters -> Int]
    <3>1. count \in [Counters -> Int] /\ count[e.name] + 1 \in Int
      BY <1>0, <1>f, CountType DEF HandlerTypeOK
    <3> QED
      BY <1>e, <3>1
  <2> QED
    BY <1>0, <2>1, <2>2 DEF AuctionFails, HandlerTypeOK, Places
<1>2. OneHolder'
  BY <1>0 DEF AuctionFails, OneHolder
<1>3. Busy(r)' /\ OwnObject(r)' /\ OwnAnswer(r)'
  <2>1. pc'[r] = "release" /\ ctx'[r].body = None /\ ctx'[r].status = e.status
    BY <1>0, <1>e DEF AuctionFails, HandlerTypeOK, Answers, OwnAnswer, EmptyCtx
  <2>2. Written(r)' = <<>> /\ streamed'[r] = streamed[r] /\ Told(r)' = Told(r)
    BY <2>1 DEF AuctionFails, Written, Told
  <2>3. Told(r) \o <<>> = Told(r)
    BY DEF Told
  <2>4. Taken(r)' /\ streamed'[r] = Told(r)' \o Written(r)'
    BY <1>0, <2>2, <2>3 DEF AuctionFails, OwnObject, OwnAnswer, Taken
  <2> QED
    BY <1>0, <1>f, <2>1, <2>4 DEF AuctionFails, Busy, OwnObject, OwnAnswer
<1>4. \A s \in Handlers \ {r} : Busy(s)' /\ OwnObject(s)' /\ OwnAnswer(s)'
  <2> SUFFICES ASSUME NEW s \in Handlers \ {r} PROVE Busy(s)' /\ OwnObject(s)' /\ OwnAnswer(s)'
    OBVIOUS
  <2> QED
    BY <1>0, <1>e, Others DEF AuctionFails, HandlerTypeOK
<1>5. CountedOnce'
  <2>1. CountedOnce
    BY DEF HandlerInv
  <2>2. \A c \in Counters : count'[c] = IF c = e.name THEN count[c] + 1 ELSE count[c]
    BY <1>0, <1>e DEF HandlerTypeOK
  <2>3. /\ Cardinality(Serving) \in Nat /\ Cardinality(Active) \in Nat
        /\ Cardinality(Serving') = Cardinality(Serving) - 1
        /\ Cardinality(Active') = Cardinality(Active)
    BY <1>0, ServingEnds DEF AuctionFails
  <2>4. /\ \A c \in Counters : count[c] \in Int
        /\ e.name \in {"nobid", "timeout", "error"}
    BY <1>0, <1>f, CountType DEF Counters, Outcomes
  <2>5. count'.received = count'.bad + count'.nobid + count'.timeout + count'.error + count'.success
                            + Cardinality(Serving')
    BY <2>1, <2>2, <2>3, <2>4 DEF CountedOnce, Serving, Counters, Outcomes
  <2>6. count'.active = Cardinality(Active')
    BY <2>1, <2>2, <2>3, <2>4 DEF CountedOnce, Active, Counters, Outcomes
  <2> QED
    BY <2>5, <2>6 DEF CountedOnce, Serving, Active
<1> QED
  BY <1>1, <1>2, <1>3, <1>4, <1>5 DEF HandlerInv

LEMMA BuildResponseKeeps ==
    ASSUME HandlerInv, NEW r \in Handlers, BuildResponse(r), open' = open
    PROVE  HandlerInv'
<1>0. HandlerTypeOK /\ OneHolder /\ Busy(r) /\ OwnObject(r) /\ OwnAnswer(r) /\ holds[r] \in Objects /\ req[r] \in Requests
  BY OwnType DEF HandlerInv, BuildResponse
<1> USE DEF Goto
<1>c. PICK c \in Campaigns :
        data' = [data EXCEPT ![holds[r]].response =
                   [id |-> data[holds[r]].parser.id, item |-> Head(data[holds[r]].parser.items),
                    version |-> IF data[holds[r]].version = "2.5" THEN "2.5" ELSE "3.0",
                    campaign |-> c]]
  BY DEF BuildResponse
<1>a. Accepted(req[r]) /\ Version(req[r]) \in {"2.5", "3.0"}
      /\ data[holds[r]].parser = req[r] /\ data[holds[r]].version = Version(req[r])
  BY <1>0 DEF BuildResponse, OwnObject, Accepted, Versions
<1>b. data' = [data EXCEPT ![holds[r]] = [data[holds[r]] EXCEPT !.response = Bid(req[r], c)]]
  BY <1>0, <1>a, <1>c DEF Bid
<1>d. /\ IsBidFor(Bid(req[r], c), req[r]) /\ Bid(req[r], c) \in Bids
      /\ data'[holds[r]].response = Bid(req[r], c)
      /\ data'[holds[r]].parser = data[holds[r]].parser
      /\ data'[holds[r]].version = data[holds[r]].version
  <2>1. IsBidFor(Bid(req[r], c), req[r])
    BY <1>a DEF IsBidFor
  <2>2. Bid(req[r], c) \in Bids
    BY ONLY <1>0, <2>1, BidFields
  <2>3. data \in [Objects -> Data] /\ data[holds[r]] \in Data
    BY <1>0 DEF HandlerTypeOK
  <2>4. data'[holds[r]] = [data[holds[r]] EXCEPT !.response = Bid(req[r], c)]
    BY ONLY <1>0, <1>b, <2>3
  <2> HIDE DEF Bid
  <2>5. /\ data'[holds[r]].response = Bid(req[r], c)
        /\ data'[holds[r]].parser = data[holds[r]].parser
        /\ data'[holds[r]].version = data[holds[r]].version
    BY ONLY <2>3, <2>4 DEF Data
  <2> QED
    BY <2>1, <2>2, <2>5
<1>1. HandlerTypeOK'
  <2>1. data' \in [Objects -> Data]
    BY <1>0, <1>b, <1>d DEF HandlerTypeOK, Data
  <2> QED
    BY <1>0, <2>1 DEF BuildResponse, HandlerTypeOK, Places
<1>2. OneHolder'
  BY <1>0 DEF BuildResponse, OneHolder
<1>3. Busy(r)' /\ OwnObject(r)' /\ OwnAnswer(r)'
  <2>1. pc'[r] = "write"
    BY <1>0 DEF BuildResponse, HandlerTypeOK
  <2>2. Told(r)' = Told(r)
    BY DEF BuildResponse, Told
  <2> QED
    BY <1>0, <1>a, <1>d, <2>1, <2>2 DEF BuildResponse, Busy, OwnObject, OwnAnswer
<1>4. \A s \in Handlers \ {r} : Busy(s)' /\ OwnObject(s)' /\ OwnAnswer(s)'
  <2> SUFFICES ASSUME NEW s \in Handlers \ {r} PROVE Busy(s)' /\ OwnObject(s)' /\ OwnAnswer(s)'
    OBVIOUS
  <2>1. pc[s] \in {"stream", "auction", "write"} => data'[holds[s]] = data[holds[s]]
    BY <1>0, <1>b, OwnType, NoneAssumption DEF HandlerTypeOK, OneHolder
  <2> QED
    BY <1>0, <2>1, Others DEF BuildResponse, HandlerTypeOK
<1>5. CountedOnce'
  <2>1. CountedOnce
    BY DEF HandlerInv
  <2> QED
    BY <1>0, <2>1, CountMoves DEF BuildResponse, CountedOnce, Serving, Active, Places
<1> QED
  BY <1>1, <1>2, <1>3, <1>4, <1>5 DEF HandlerInv

LEMMA WriteResponseKeeps ==
    ASSUME HandlerInv, NEW r \in Handlers, WriteResponse(r, "stream" \in open), open' = open,
           ~ ({"stream", "disabled"} \subseteq open),
           open \cap {"stream", "disabled"} # {} \/ ~ Fits(req[r], "bid")
    PROVE  HandlerInv'
<1>0. HandlerTypeOK /\ OneHolder /\ Busy(r) /\ OwnObject(r) /\ OwnAnswer(r) /\ holds[r] \in Objects /\ req[r] \in Requests
  BY OwnType DEF HandlerInv, WriteResponse
<1> USE DEF Goto
<1> DEFINE b == data[holds[r]].response
<1>a. /\ pc[r] = "write"
      /\ count' = [count EXCEPT !.success = @ + 1]
      /\ streamed' = IF "stream" \in open /\ Fits(req[r], "bid")
                     THEN [streamed EXCEPT ![r] = Append(@, b)] ELSE streamed
      /\ ctx' = [ctx EXCEPT ![r].body = b]
      /\ pc' = [pc EXCEPT ![r] = "release"]
      /\ UNCHANGED <<req, holds, data>>
  BY DEF WriteResponse
<1>b. IsBidFor(b, req[r]) /\ b # None /\ b \in Bids
  BY <1>0, <1>a, BidFields DEF OwnObject
<1> HIDE DEF b
<1>1. HandlerTypeOK'
  <2>1. ctx' \in [Handlers -> Answers]
    <3>1. ctx \in [Handlers -> Answers] /\ [ctx[r] EXCEPT !.body = b] \in Answers
      BY <1>0, <1>b DEF HandlerTypeOK, Answers
    <3>2. ctx' = [ctx EXCEPT ![r] = [ctx[r] EXCEPT !.body = b]]
      BY <1>a
    <3> QED
      BY <3>1, <3>2
  <2>2. count' \in [Counters -> Int]
    BY <1>0, <1>a, CountType DEF HandlerTypeOK
  <2>3. DOMAIN streamed' = Handlers
    BY <1>0, <1>a DEF HandlerTypeOK
  <2> QED
    BY <1>0, <1>a, <2>1, <2>2, <2>3 DEF HandlerTypeOK, Places
<1>2. OneHolder'
  BY <1>0, <1>a DEF OneHolder
<1>3. Busy(r)' /\ OwnObject(r)' /\ OwnAnswer(r)'
  <2>1. pc'[r] = "release" /\ ctx'[r].body = b /\ ctx'[r].status = 200
    BY <1>0, <1>a DEF HandlerTypeOK, Answers, OwnAnswer, EmptyCtx
  <2>2. /\ Written(r)' = IF "disabled" \notin open /\ Fits(req[r], "bid") THEN <<b>> ELSE <<>>
        /\ Told(r)' = Told(r)
    BY <1>a, <1>b, <2>1 DEF Written, Told
  <2>3. Taken(r)' /\ streamed'[r] = Told(r)' \o Written(r)'
    <3>1. streamed[r] = Told(r) /\ Taken(r)'
      BY <1>0, <1>a DEF OwnAnswer, OwnObject, Taken
    <3>2. CASE "stream" \in open /\ Fits(req[r], "bid")
      <4>1. streamed'[r] = Append(Told(r), b) /\ "disabled" \notin open
        BY <1>0, <1>a, <3>1, <3>2 DEF HandlerTypeOK
      <4>2. Append(<<>>, b) = <<>> \o <<b>> /\ Append(<<req[r]>>, b) = <<req[r]>> \o <<b>>
        OBVIOUS
      <4>3. Append(Told(r), b) = Told(r) \o <<b>>
        BY <4>2 DEF Told
      <4> QED
        BY <2>2, <3>1, <3>2, <4>1, <4>3
    <3>3. CASE ~ ("stream" \in open /\ Fits(req[r], "bid"))
      <4>1. Written(r)' = <<>> /\ streamed'[r] = Told(r)
        BY <1>a, <2>2, <3>1, <3>3
      <4>2. Told(r) \o <<>> = Told(r)
        BY DEF Told
      <4> QED
        BY <2>2, <3>1, <4>1, <4>2
    <3> QED
      BY <3>2, <3>3
  <2> QED
    BY <1>0, <1>a, <1>b, <2>1, <2>3, SMTT(30) DEF Busy, OwnObject, OwnAnswer
<1>4. \A s \in Handlers \ {r} : Busy(s)' /\ OwnObject(s)' /\ OwnAnswer(s)'
  <2> SUFFICES ASSUME NEW s \in Handlers \ {r} PROVE Busy(s)' /\ OwnObject(s)' /\ OwnAnswer(s)'
    OBVIOUS
  <2> QED
    BY <1>0, <1>a, Others DEF HandlerTypeOK
<1>5. CountedOnce'
  <2>1. CountedOnce
    BY DEF HandlerInv
  <2>2. \A c \in Counters : count'[c] = IF c = "success" THEN count[c] + 1 ELSE count[c]
    BY <1>0, <1>a DEF HandlerTypeOK
  <2>3. /\ Cardinality(Serving) \in Nat /\ Cardinality(Active) \in Nat
        /\ Cardinality(Serving') = Cardinality(Serving) - 1
        /\ Cardinality(Active') = Cardinality(Active)
    BY <1>0, <1>a, ServingEnds
  <2> QED
    BY <1>0, <2>1, <2>2, <2>3, CountType DEF CountedOnce, Serving, Active, Counters, Outcomes
<1> QED
  BY <1>1, <1>2, <1>3, <1>4, <1>5 DEF HandlerInv

LEMMA PutObjectKeeps ==
    ASSUME HandlerInv, NEW r \in Handlers, PutObject(r), open' = open
    PROVE  HandlerInv'
<1>0. HandlerTypeOK /\ OneHolder /\ Busy(r) /\ OwnObject(r) /\ OwnAnswer(r)
  BY DEF HandlerInv
<1> USE DEF PutObject, Goto
<1>1. HandlerTypeOK'
  BY <1>0 DEF HandlerTypeOK, Places
<1>2. OneHolder'
  BY <1>0 DEF OneHolder, HandlerTypeOK
<1>3. Busy(r)' /\ OwnObject(r)' /\ OwnAnswer(r)'
  <2>1. pc'[r] = "observe" /\ holds'[r] = None
    BY <1>0 DEF HandlerTypeOK
  <2>2. Written(r)' = Written(r) /\ Told(r)' = Told(r) /\ Taken(r)' = Taken(r)
    BY DEF Written, Told, Taken
  <2> QED
    BY <1>0, <2>1, <2>2 DEF Busy, OwnObject, OwnAnswer
<1>4. \A s \in Handlers \ {r} : Busy(s)' /\ OwnObject(s)' /\ OwnAnswer(s)'
  <2> SUFFICES ASSUME NEW s \in Handlers \ {r} PROVE Busy(s)' /\ OwnObject(s)' /\ OwnAnswer(s)'
    OBVIOUS
  <2> QED
    BY <1>0, Others DEF HandlerTypeOK
<1>5. CountedOnce'
  <2>1. CountedOnce
    BY DEF HandlerInv
  <2> QED
    BY <1>0, <2>1, CountMoves DEF CountedOnce, Serving, Active, Places
<1> QED
  BY <1>1, <1>2, <1>3, <1>4, <1>5 DEF HandlerInv

LEMMA ObserveDurationKeeps ==
    ASSUME HandlerInv, NEW r \in Handlers, ObserveDuration(r), open' = open
    PROVE  HandlerInv'
<1>0. HandlerTypeOK /\ OneHolder /\ Busy(r) /\ OwnObject(r) /\ OwnAnswer(r)
  BY DEF HandlerInv
<1> USE DEF ObserveDuration, Goto
<1>1. HandlerTypeOK'
  <2>1. count' \in [Counters -> Int]
    BY <1>0, CountType DEF HandlerTypeOK
  <2> QED
    BY <1>0, <2>1 DEF HandlerTypeOK, Places
<1>2. OneHolder'
  BY <1>0 DEF OneHolder
<1>3. Busy(r)' /\ OwnObject(r)' /\ OwnAnswer(r)'
  <2>1. pc'[r] = "reply"
    BY <1>0 DEF HandlerTypeOK
  <2>2. Written(r)' = Written(r) /\ Told(r)' = Told(r) /\ Taken(r)' = Taken(r)
    BY DEF Written, Told, Taken
  <2> QED
    BY <1>0, <2>1, <2>2 DEF Busy, OwnObject, OwnAnswer
<1>4. \A s \in Handlers \ {r} : Busy(s)' /\ OwnObject(s)' /\ OwnAnswer(s)'
  <2> SUFFICES ASSUME NEW s \in Handlers \ {r} PROVE Busy(s)' /\ OwnObject(s)' /\ OwnAnswer(s)'
    OBVIOUS
  <2> QED
    BY <1>0, Others DEF HandlerTypeOK
<1>5. CountedOnce'
  <2>1. CountedOnce
    BY DEF HandlerInv
  <2>2. \A c \in Counters : count'[c] = IF c = "active" THEN count[c] - 1 ELSE count[c]
    BY <1>0 DEF HandlerTypeOK
  <2>3. /\ Cardinality(Serving) \in Nat /\ Cardinality(Active) \in Nat
        /\ Cardinality(Serving') = Cardinality(Serving)
        /\ Cardinality(Active') = Cardinality(Active) - 1
    BY <1>0, CountMoves DEF Places
  <2> QED
    BY <1>0, <2>1, <2>2, <2>3, CountType DEF CountedOnce, Serving, Active, Counters, Outcomes
<1> QED
  BY <1>1, <1>2, <1>3, <1>4, <1>5 DEF HandlerInv

LEMMA ReplyKeeps ==
    ASSUME HandlerInv, NEW r \in Handlers, Reply(r), open' = open
    PROVE  HandlerInv'
<1>0. HandlerTypeOK /\ OneHolder /\ Busy(r) /\ OwnObject(r) /\ OwnAnswer(r)
  BY DEF HandlerInv
<1> USE DEF Reply, Goto
<1>1. HandlerTypeOK'
  <2>1. EmptyCtx \in Answers
    BY DEF EmptyCtx, Answers
  <2>2. DOMAIN streamed' = Handlers
    BY <1>0 DEF HandlerTypeOK
  <2> QED
    BY <1>0, <2>1, <2>2 DEF HandlerTypeOK, Places
<1>2. OneHolder'
  BY <1>0 DEF OneHolder
<1>3. Busy(r)' /\ OwnObject(r)' /\ OwnAnswer(r)'
  <2>1. pc'[r] = "idle" /\ req'[r] = None /\ ctx'[r] = EmptyCtx /\ streamed'[r] = <<>>
    BY <1>0 DEF HandlerTypeOK
  <2> QED
    BY <1>0, <2>1 DEF Busy, OwnObject, OwnAnswer
<1>4. \A s \in Handlers \ {r} : Busy(s)' /\ OwnObject(s)' /\ OwnAnswer(s)'
  <2> SUFFICES ASSUME NEW s \in Handlers \ {r} PROVE Busy(s)' /\ OwnObject(s)' /\ OwnAnswer(s)'
    OBVIOUS
  <2> QED
    BY <1>0, Others DEF HandlerTypeOK
<1>5. CountedOnce'
  <2>1. CountedOnce
    BY DEF HandlerInv
  <2> QED
    BY <1>0, <2>1, CountMoves DEF CountedOnce, Serving, Active, Places
<1> QED
  BY <1>1, <1>2, <1>3, <1>4, <1>5 DEF HandlerInv

\* The initial state, and the steps that no handler takes.
LEMMA HandlerInitInv == HandlerInit => HandlerInv
<1> SUFFICES ASSUME HandlerInit PROVE HandlerInv
  OBVIOUS
<1> USE DEF HandlerInit
<1>1. HandlerTypeOK
  <2>1. Fresh \in Data /\ EmptyCtx \in Answers
    BY DEF Fresh, Data, EmptyCtx, Answers
  <2> QED
    BY <2>1 DEF HandlerTypeOK, Places, Counters
<1>2. OneHolder /\ \A r \in Handlers : Busy(r) /\ OwnObject(r) /\ OwnAnswer(r)
  BY DEF OneHolder, Busy, OwnObject, OwnAnswer
<1>3. CountedOnce
  <2>1. Serving = {} /\ Active = {}
    BY DEF Serving, Active
  <2>2. Cardinality(Serving) = 0 /\ Cardinality(Active) = 0
    BY <2>1, FS_EmptySet
  <2>3. \A c \in Counters : count[c] = 0
    BY DEF Counters
  <2>4. /\ count.received = 0 /\ count.active = 0 /\ count.bad = 0 /\ count.nobid = 0
        /\ count.timeout = 0 /\ count.error = 0 /\ count.success = 0
    BY <2>3 DEF Counters, Outcomes
  <2> QED
    BY <2>2, <2>4 DEF CountedOnce, Serving, Active
<1> QED
  BY <1>1, <1>2, <1>3 DEF HandlerInv

LEMMA HandlersUnchanged ==
    ASSUME HandlerInv, UNCHANGED handlerVars,
           AllIdle \/ (("disabled" \in open') <=> ("disabled" \in open))
    PROVE  HandlerInv'
<1> USE DEF handlerVars
<1>1. \A s \in Handlers : Busy(s)' /\ OwnObject(s)' /\ OwnAnswer(s)'
  BY Others DEF AllIdle
<1> QED
  BY <1>1 DEF HandlerInv, HandlerTypeOK, OneHolder, CountedOnce

-----------------------------------------------------------------------------
(***************************************************************************)
(* Inv is kept by the steps of App(), of the servers and of the summaries, *)
(* which leave the handlers alone, and by those of the handlers.           *)
(***************************************************************************)
\* What the idle handlers say of the counters.
LEMMA IdleCount ==
    ASSUME HandlerInv, AllIdle
    PROVE  count.active = 0
<1>1. Active = {}
  BY DEF AllIdle, Active
<1>2. Cardinality(Active) = 0
  BY <1>1, FS_EmptySet
<1> QED
  BY <1>2 DEF HandlerInv, CountedOnce, Active

\* App() and the servers.
LEMMA AppSteps ==
    ASSUME Inv,
           \/ StartMetrics \/ OpenDatabase \/ OpenCache \/ OpenStream \/ DisableStream \/ StartFails
           \/ StartServers \/ ReceiveStop \/ ShutdownReturns \/ ReturnErr \/ AppReturns \/ ServerListens
           \/ Signal \/ ShutdownUnbound \/ CloseListener \/ CloseListenerFails \/ Drained \/ DiagShutdown
    PROVE  Inv'
<1> USE DEF Running, Starting, Summaries, Servers
<1>0. HandlerInv /\ LifeTypeOK /\ Opened /\ Guarded /\ ErrorKept /\ Observed
  BY DEF Inv, LifeInv
<1>1. CASE StartMetrics
  <2>1. HandlerInv'
    BY <1>0, <1>1, HandlersUnchanged DEF StartMetrics, Opened, NotServing
  <2>2. LifeTypeOK'
    BY <1>0, <1>1 DEF StartMetrics, LifeTypeOK, Mains
  <2>3. Opened' /\ Guarded'
    BY <1>0, <1>1 DEF StartMetrics, handlerVars, LifeTypeOK, Mains, Opened, NotServing, Guarded, NoMoreRequests, AllIdle
  <2>4. ErrorKept' /\ Observed'
    BY <1>0, <1>1 DEF StartMetrics, handlerVars, LifeTypeOK, Mains, Opened, NotServing, Guarded, ErrorKept, ListenerFailed, Observed
  <2> QED
    BY <2>1, <2>2, <2>3, <2>4 DEF Inv, LifeInv
<1>2. CASE OpenDatabase
  <2>1. HandlerInv'
    BY <1>0, <1>2, HandlersUnchanged DEF OpenDatabase, Opens
  <2>2. LifeTypeOK'
    BY <1>0, <1>2 DEF OpenDatabase, Opens, LifeTypeOK, Mains
  <2>3. Opened' /\ Guarded'
    BY <1>0, <1>2 DEF OpenDatabase, Opens, handlerVars, LifeTypeOK, Mains, Opened, NotServing, Guarded, NoMoreRequests, AllIdle
  <2>4. ErrorKept' /\ Observed'
    BY <1>0, <1>2 DEF OpenDatabase, Opens, handlerVars, LifeTypeOK, Mains, Opened, NotServing, Guarded, ErrorKept, ListenerFailed, Observed
  <2> QED
    BY <2>1, <2>2, <2>3, <2>4 DEF Inv, LifeInv
<1>3. CASE OpenCache
  <2>1. HandlerInv'
    BY <1>0, <1>3, HandlersUnchanged DEF OpenCache, Opens
  <2>2. LifeTypeOK'
    BY <1>0, <1>3 DEF OpenCache, Opens, LifeTypeOK, Mains
  <2>3. Opened' /\ Guarded'
    BY <1>0, <1>3 DEF OpenCache, Opens, handlerVars, LifeTypeOK, Mains, Opened, NotServing, Guarded, NoMoreRequests, AllIdle
  <2>4. ErrorKept' /\ Observed'
    BY <1>0, <1>3 DEF OpenCache, Opens, handlerVars, LifeTypeOK, Mains, Opened, NotServing, Guarded, ErrorKept, ListenerFailed, Observed
  <2> QED
    BY <2>1, <2>2, <2>3, <2>4 DEF Inv, LifeInv
<1>4. CASE OpenStream
  <2>1. HandlerInv'
    BY <1>0, <1>4, HandlersUnchanged DEF OpenStream, Opens
  <2>2. LifeTypeOK'
    BY <1>0, <1>4 DEF OpenStream, Opens, LifeTypeOK, Mains
  <2>3. Opened' /\ Guarded'
    BY <1>0, <1>4 DEF OpenStream, Opens, handlerVars, LifeTypeOK, Mains, Opened, NotServing, Guarded, NoMoreRequests, AllIdle
  <2>4. ErrorKept' /\ Observed'
    BY <1>0, <1>4 DEF OpenStream, Opens, handlerVars, LifeTypeOK, Mains, Opened, NotServing, Guarded, ErrorKept, ListenerFailed, Observed
  <2> QED
    BY <2>1, <2>2, <2>3, <2>4 DEF Inv, LifeInv
<1>5. CASE DisableStream
  <2>1. HandlerInv'
    BY <1>0, <1>5, HandlersUnchanged DEF DisableStream, Opens, Opened, NotServing
  <2>2. LifeTypeOK'
    BY <1>0, <1>5 DEF DisableStream, Opens, LifeTypeOK, Mains
  <2>3. Opened' /\ Guarded'
    BY <1>0, <1>5 DEF DisableStream, Opens, handlerVars, LifeTypeOK, Mains, Opened, NotServing, Guarded, NoMoreRequests, AllIdle
  <2>4. ErrorKept' /\ Observed'
    BY <1>0, <1>5 DEF DisableStream, Opens, handlerVars, LifeTypeOK, Mains, Opened, NotServing, Guarded, ErrorKept, ListenerFailed, Observed
  <2> QED
    BY <2>1, <2>2, <2>3, <2>4 DEF Inv, LifeInv
<1>6. CASE StartFails
  <2>1. HandlerInv'
    BY <1>0, <1>6, HandlersUnchanged DEF StartFails
  <2>2. LifeTypeOK'
    BY <1>0, <1>6 DEF StartFails, LifeTypeOK, Mains
  <2>3. Opened' /\ Guarded'
    BY <1>0, <1>6 DEF StartFails, handlerVars, LifeTypeOK, Mains, Opened, NotServing, Guarded, NoMoreRequests, AllIdle
  <2>4. ErrorKept' /\ Observed'
    BY <1>0, <1>6 DEF StartFails, handlerVars, LifeTypeOK, Mains, Opened, NotServing, Guarded, ErrorKept, ListenerFailed, Observed
  <2> QED
    BY <2>1, <2>2, <2>3, <2>4 DEF Inv, LifeInv
<1>7. CASE StartServers
  <2>1. HandlerInv'
    BY <1>0, <1>7, HandlersUnchanged DEF StartServers
  <2>2. LifeTypeOK'
    BY <1>0, <1>7 DEF StartServers, LifeTypeOK, Mains
  <2>3. Opened' /\ Guarded'
    BY <1>0, <1>7 DEF StartServers, handlerVars, LifeTypeOK, Mains, Opened, NotServing, Guarded, NoMoreRequests, AllIdle
  <2>4. ErrorKept' /\ Observed'
    BY <1>0, <1>7 DEF StartServers, handlerVars, LifeTypeOK, Mains, Opened, NotServing, Guarded, ErrorKept, ListenerFailed, Observed
  <2> QED
    BY <2>1, <2>2, <2>3, <2>4 DEF Inv, LifeInv
<1>8. CASE ReceiveStop
  <2>1. HandlerInv'
    BY <1>0, <1>8, HandlersUnchanged DEF ReceiveStop
  <2>2. LifeTypeOK'
    BY <1>0, <1>8 DEF ReceiveStop, LifeTypeOK, Mains
  <2>3. Opened' /\ Guarded'
    BY <1>0, <1>8 DEF ReceiveStop, handlerVars, LifeTypeOK, Mains, Opened, NotServing, Guarded, NoMoreRequests, AllIdle
  <2>4. ErrorKept' /\ Observed'
    BY <1>0, <1>8 DEF ReceiveStop, handlerVars, LifeTypeOK, Mains, Opened, NotServing, Guarded, ErrorKept, ListenerFailed, Observed
  <2> QED
    BY <2>1, <2>2, <2>3, <2>4 DEF Inv, LifeInv
<1>9. CASE ShutdownReturns
  <2>1. HandlerInv'
    BY <1>0, <1>9, HandlersUnchanged DEF ShutdownReturns
  <2>2. LifeTypeOK'
    BY <1>0, <1>9 DEF ShutdownReturns, LifeTypeOK, Mains
  <2>3. Opened' /\ Guarded'
    BY <1>0, <1>9 DEF ShutdownReturns, handlerVars, LifeTypeOK, Mains, Opened, NotServing, Guarded, NoMoreRequests, AllIdle
  <2>4. ErrorKept' /\ Observed'
    BY <1>0, <1>9 DEF ShutdownReturns, handlerVars, LifeTypeOK, Mains, Opened, NotServing, Guarded, ErrorKept, ListenerFailed, Observed
  <2> QED
    BY <2>1, <2>2, <2>3, <2>4 DEF Inv, LifeInv
<1>10. CASE AppReturns
  <2>1. HandlerInv'
    BY <1>0, <1>10, HandlersUnchanged DEF AppReturns
  <2>2. LifeTypeOK'
    BY <1>0, <1>10 DEF AppReturns, LifeTypeOK, Mains
  <2>3. Opened' /\ Guarded'
    BY <1>0, <1>10 DEF AppReturns, handlerVars, LifeTypeOK, Mains, Opened, NotServing, Guarded, NoMoreRequests, AllIdle
  <2>4. ErrorKept' /\ Observed'
    BY <1>0, <1>10 DEF AppReturns, handlerVars, LifeTypeOK, Mains, Opened, NotServing, Guarded, ErrorKept, ListenerFailed, Observed
  <2> QED
    BY <2>1, <2>2, <2>3, <2>4 DEF Inv, LifeInv
<1>11. CASE ServerListens
  <2>1. HandlerInv'
    BY <1>0, <1>11, HandlersUnchanged DEF ServerListens
  <2>2. LifeTypeOK'
    BY <1>0, <1>11 DEF ServerListens, LifeTypeOK, Mains
  <2>3. Opened' /\ Guarded'
    BY <1>0, <1>11 DEF ServerListens, handlerVars, LifeTypeOK, Mains, Opened, NotServing, Guarded, NoMoreRequests, AllIdle
  <2>4. ErrorKept' /\ Observed'
    BY <1>0, <1>11 DEF ServerListens, handlerVars, LifeTypeOK, Mains, Opened, NotServing, Guarded, ErrorKept, ListenerFailed, Observed
  <2> QED
    BY <2>1, <2>2, <2>3, <2>4 DEF Inv, LifeInv
<1>12. CASE Signal
  <2>1. HandlerInv'
    BY <1>0, <1>12, HandlersUnchanged DEF Signal
  <2>2. LifeTypeOK'
    BY <1>0, <1>12 DEF Signal, LifeTypeOK, Mains
  <2>3. Opened' /\ Guarded'
    BY <1>0, <1>12 DEF Signal, handlerVars, LifeTypeOK, Mains, Opened, NotServing, Guarded, NoMoreRequests, AllIdle
  <2>4. ErrorKept' /\ Observed'
    BY <1>0, <1>12 DEF Signal, handlerVars, LifeTypeOK, Mains, Opened, NotServing, Guarded, ErrorKept, ListenerFailed, Observed
  <2> QED
    BY <2>1, <2>2, <2>3, <2>4 DEF Inv, LifeInv
<1>13. CASE ShutdownUnbound
  <2>1. HandlerInv'
    BY <1>0, <1>13, HandlersUnchanged DEF ShutdownUnbound
  <2>2. LifeTypeOK'
    BY <1>0, <1>13 DEF ShutdownUnbound, LifeTypeOK, Mains
  <2>3. Opened' /\ Guarded'
    BY <1>0, <1>13 DEF ShutdownUnbound, handlerVars, LifeTypeOK, Mains, Opened, NotServing, Guarded, NoMoreRequests, AllIdle
  <2>4. ErrorKept' /\ Observed'
    BY <1>0, <1>13 DEF ShutdownUnbound, handlerVars, LifeTypeOK, Mains, Opened, NotServing, Guarded, ErrorKept, ListenerFailed, Observed
  <2> QED
    BY <2>1, <2>2, <2>3, <2>4 DEF Inv, LifeInv
<1>14. CASE CloseListener
  <2>1. HandlerInv'
    BY <1>0, <1>14, HandlersUnchanged DEF CloseListener
  <2>2. LifeTypeOK'
    BY <1>0, <1>14 DEF CloseListener, LifeTypeOK, Mains
  <2>3. Opened' /\ Guarded'
    BY <1>0, <1>14 DEF CloseListener, handlerVars, LifeTypeOK, Mains, Opened, NotServing, Guarded, NoMoreRequests, AllIdle
  <2>4. ErrorKept' /\ Observed'
    BY <1>0, <1>14 DEF CloseListener, handlerVars, LifeTypeOK, Mains, Opened, NotServing, Guarded, ErrorKept, ListenerFailed, Observed
  <2> QED
    BY <2>1, <2>2, <2>3, <2>4 DEF Inv, LifeInv
<1>15. CASE CloseListenerFails
  <2>1. HandlerInv'
    BY <1>0, <1>15, HandlersUnchanged DEF CloseListenerFails
  <2>2. LifeTypeOK'
    BY <1>0, <1>15 DEF CloseListenerFails, LifeTypeOK, Mains
  <2>3. Opened' /\ Guarded'
    BY <1>0, <1>15 DEF CloseListenerFails, handlerVars, LifeTypeOK, Mains, Opened, NotServing, Guarded, NoMoreRequests, AllIdle
  <2>4. ErrorKept' /\ Observed'
    BY <1>0, <1>15 DEF CloseListenerFails, handlerVars, LifeTypeOK, Mains, Opened, NotServing, Guarded, ErrorKept, ListenerFailed, Observed
  <2> QED
    BY <2>1, <2>2, <2>3, <2>4 DEF Inv, LifeInv
<1>16. CASE Drained
  <2>1. HandlerInv'
    BY <1>0, <1>16, HandlersUnchanged DEF Drained
  <2>2. LifeTypeOK'
    BY <1>0, <1>16 DEF Drained, LifeTypeOK, Mains
  <2>3. Opened' /\ Guarded'
    BY <1>0, <1>16 DEF Drained, handlerVars, LifeTypeOK, Mains, Opened, NotServing, Guarded, NoMoreRequests, AllIdle
  <2>4. ErrorKept' /\ Observed'
    BY <1>0, <1>16 DEF Drained, handlerVars, LifeTypeOK, Mains, Opened, NotServing, Guarded, ErrorKept, ListenerFailed, Observed
  <2> QED
    BY <2>1, <2>2, <2>3, <2>4 DEF Inv, LifeInv
<1>17. CASE DiagShutdown
  <2>1. HandlerInv'
    BY <1>0, <1>17, HandlersUnchanged DEF DiagShutdown
  <2>2. LifeTypeOK'
    BY <1>0, <1>17 DEF DiagShutdown, LifeTypeOK, Mains
  <2>3. Opened' /\ Guarded'
    BY <1>0, <1>17 DEF DiagShutdown, handlerVars, LifeTypeOK, Mains, Opened, NotServing, Guarded, NoMoreRequests, AllIdle
  <2>4. ErrorKept' /\ Observed'
    BY <1>0, <1>17 DEF DiagShutdown, handlerVars, LifeTypeOK, Mains, Opened, NotServing, Guarded, ErrorKept, ListenerFailed, Observed
  <2> QED
    BY <2>1, <2>2, <2>3, <2>4 DEF Inv, LifeInv
<1>18. CASE ReturnErr
  <2>1. HandlerInv'
    BY <1>0, <1>18, HandlersUnchanged DEF ReturnErr
  <2>2. LifeTypeOK'
    BY <1>0, <1>18 DEF ReturnErr, LifeTypeOK, Mains
  <2>3. Opened' /\ Guarded'
    BY <1>0, <1>18 DEF ReturnErr, handlerVars, LifeTypeOK, Mains, Opened, NotServing, Guarded, NoMoreRequests, AllIdle
  <2>4. ErrorKept' /\ Observed'
    BY <1>0, <1>18 DEF ReturnErr, handlerVars, LifeTypeOK, Mains, Opened, NotServing, Guarded, ErrorKept, ListenerFailed, Observed
  <2> QED
    BY <2>1, <2>2, <2>3, <2>4 DEF Inv, LifeInv
<1> QED
  BY <1>1, <1>2, <1>3, <1>4, <1>5, <1>6, <1>7, <1>8, <1>9, <1>10, <1>11, <1>12, <1>13, <1>14, <1>15, <1>16, <1>17, <1>18

\* The listeners' callbacks, the services as they are closed, and the summaries.
LEMMA ServiceSteps ==
    ASSUME Inv,
           \/ \E s \in Servers : ListenerFails(s) \/ CallbackSends(s)
           \/ \E s \in Range(CloseOrder) : CloseService(s)
           \/ \E s \in Summaries : SummaryDrained(s) \/ Collect(s)
    PROVE  Inv'
<1> USE DEF Running, Starting, Servers
<1>0. HandlerInv /\ LifeTypeOK /\ Opened /\ Guarded /\ ErrorKept /\ Observed
  BY DEF Inv, LifeInv
<1>1. ASSUME NEW s \in Servers, ListenerFails(s) PROVE Inv'
  <2>1. HandlerInv'
    BY <1>0, <1>1, Services, HandlersUnchanged DEF ListenerFails
  <2>2. LifeTypeOK'
    BY <1>0, <1>1, Services DEF ListenerFails, LifeTypeOK, Mains
  <2>3. Opened' /\ Guarded'
    BY <1>0, <1>1, Services DEF ListenerFails, handlerVars, LifeTypeOK, Mains, Opened, NotServing, Guarded, NoMoreRequests, AllIdle
  <2>4. ErrorKept' /\ Observed'
    BY <1>0, <1>1, Services, CountType DEF ListenerFails, handlerVars, LifeTypeOK, Mains, Opened, NotServing, Guarded, ErrorKept, ListenerFailed, Observed, HandlerInv
  <2> QED
    BY <2>1, <2>2, <2>3, <2>4 DEF Inv, LifeInv
<1>2. ASSUME NEW s \in Servers, CallbackSends(s) PROVE Inv'
  <2>1. HandlerInv'
    BY <1>0, <1>2, Services, HandlersUnchanged DEF CallbackSends
  <2>2. LifeTypeOK'
    BY <1>0, <1>2, Services DEF CallbackSends, LifeTypeOK, Mains
  <2>3. Opened' /\ Guarded'
    BY <1>0, <1>2, Services DEF CallbackSends, handlerVars, LifeTypeOK, Mains, Opened, NotServing, Guarded, NoMoreRequests, AllIdle
  <2>4. ErrorKept' /\ Observed'
    BY <1>0, <1>2, Services, CountType DEF CallbackSends, handlerVars, LifeTypeOK, Mains, Opened, NotServing, Guarded, ErrorKept, ListenerFailed, Observed, HandlerInv
  <2> QED
    BY <2>1, <2>2, <2>3, <2>4 DEF Inv, LifeInv
<1>3. ASSUME NEW s \in Range(CloseOrder), CloseService(s) PROVE Inv'
  <2>1. HandlerInv'
    BY <1>0, <1>3, Services, HandlersUnchanged DEF CloseService
  <2>2. LifeTypeOK'
    BY <1>0, <1>3, Services DEF CloseService, LifeTypeOK, Mains
  <2>3. Opened' /\ Guarded'
    BY <1>0, <1>3, Services DEF CloseService, handlerVars, LifeTypeOK, Mains, Opened, NotServing, Guarded, NoMoreRequests, AllIdle
  <2>4. ErrorKept' /\ Observed'
    BY <1>0, <1>3, Services, CountType DEF CloseService, handlerVars, LifeTypeOK, Mains, Opened, NotServing, Guarded, ErrorKept, ListenerFailed, Observed, HandlerInv
  <2> QED
    BY <2>1, <2>2, <2>3, <2>4 DEF Inv, LifeInv
<1>4. ASSUME NEW s \in Summaries, SummaryDrained(s) PROVE Inv'
  <2>1. HandlerInv'
    BY <1>0, <1>4, Services, HandlersUnchanged DEF SummaryDrained
  <2>2. LifeTypeOK'
    BY <1>0, <1>4, Services DEF SummaryDrained, LifeTypeOK, Mains
  <2>3. Opened' /\ Guarded'
    BY <1>0, <1>4, Services DEF SummaryDrained, handlerVars, LifeTypeOK, Mains, Opened, NotServing, Guarded, NoMoreRequests, AllIdle
  <2>4. ErrorKept' /\ Observed'
    BY <1>0, <1>4, Services, CountType DEF SummaryDrained, handlerVars, LifeTypeOK, Mains, Opened, NotServing, Guarded, ErrorKept, ListenerFailed, Observed, HandlerInv
  <2> QED
    BY <2>1, <2>2, <2>3, <2>4 DEF Inv, LifeInv
<1>5. ASSUME NEW s \in Summaries, Collect(s) PROVE Inv'
  <2>1. HandlerInv'
    BY <1>0, <1>5, Services, HandlersUnchanged DEF Collect
  <2>2. LifeTypeOK'
    <3>1. buffer \in [Summaries -> 0 .. BufferSize] /\ recorded \in [Summaries -> Nat]
      BY <1>0 DEF LifeTypeOK
    <3>2. buffer[s] - 1 \in 0 .. BufferSize /\ recorded[s] + 1 \in Nat
      BY <1>5, <3>1, BufferAssumption DEF Collect
    <3> QED
      BY <1>0, <1>5, <3>1, <3>2 DEF Collect, LifeTypeOK, Mains
  <2>3. Opened' /\ Guarded'
    BY <1>0, <1>5, Services DEF Collect, handlerVars, LifeTypeOK, Mains, Opened, NotServing, Guarded, NoMoreRequests, AllIdle
  <2>4. ErrorKept' /\ Observed'
    BY <1>0, <1>5, Services, CountType DEF Collect, handlerVars, LifeTypeOK, Mains, Opened, NotServing, Guarded, ErrorKept, ListenerFailed, Observed, HandlerInv
  <2> QED
    BY <2>1, <2>2, <2>3, <2>4 DEF Inv, LifeInv
<1> QED
  BY <1>1, <1>2, <1>3, <1>4, <1>5

\* A request arrives.
LEMMA AcceptStep ==
    ASSUME Inv, NEW r \in Handlers, Accept(r)
    PROVE  Inv'
<1> USE DEF Running, Starting
<1>0. HandlerInv /\ LifeTypeOK /\ Opened /\ Guarded /\ ErrorKept /\ Observed
  BY DEF Inv, LifeInv
<1>1. Running /\ server = "serving" /\ UNCHANGED lifeVars
  BY DEF Accept
<1> USE DEF lifeVars
<1>2. PICK q \in Requests : AnswerDirectly(r, q) \/ Receive(r, q)
  BY DEF Accept
<1>3. HandlerInv'
  BY <1>0, <1>1, <1>2, AnswerDirectlyKeeps, ReceiveKeeps
<1>4. LifeTypeOK'
  BY <1>0, <1>1 DEF LifeTypeOK
<1>5. Opened' /\ Guarded'
  BY <1>0, <1>1 DEF LifeTypeOK, Mains, Opened, NotServing, Guarded, NoMoreRequests
<1>6. ErrorKept'
  BY <1>0, <1>1 DEF ErrorKept, ListenerFailed
<1>7. Observed'
  <2>1. count'.received - count'.active = count.received - count.active
    <3>1. HandlerTypeOK
      BY <1>0 DEF HandlerInv
    <3>2. CASE AnswerDirectly(r, q)
      BY <3>2, <3>1, CountType DEF AnswerDirectly
    <3>3. CASE Receive(r, q)
      <4>1. count'.received = count.received + 1 /\ count'.active = count.active + 1
        BY <3>1, <3>3 DEF Receive, HandlerTypeOK, Counters
      <4> QED
        BY <3>1, <4>1, CountType
    <3> QED
      BY <1>2, <3>2, <3>3
  <2> QED
    BY <1>0, <1>1, <1>3, <2>1, CountType DEF Observed, LifeTypeOK, HandlerInv, HandlerTypeOK, Counters, Summaries
<1> QED
  BY <1>3, <1>4, <1>5, <1>6, <1>7 DEF Inv, LifeInv

\* A handler that runs is not idle: the program is not past what guards it.
LEMMA WhileServing ==
    ASSUME Inv, Running, NEW r \in Handlers, pc[r] # "idle"
    PROVE  /\ main \in {"wait", "shutdown", "return", "close", "bid"}
           /\ main \in {"return", "close", "bid"} => missed
           /\ main = "shutdown" /\ ~ missed /\ NoMoreRequests /\ "server" \notin closing => "drain" \in closing
           /\ main # "shutdown" => closing = {}
           /\ server # "off" /\ diag # "off"
<1>1. ~ AllIdle
  BY DEF AllIdle
<1> QED
  BY <1>1 DEF Inv, LifeInv, LifeTypeOK, Mains, Running, Starting, Opened, Guarded

\* A handler takes a step on its own variables.
LEMMA OwnStep ==
    ASSUME Inv, Running, NEW r \in Handlers, pc[r] # "idle", HandlerInv', UNCHANGED lifeVars,
           count'.received = count.received, count'.active = count.active
    PROVE  Inv'
<1> USE DEF lifeVars
<1>0. LifeTypeOK /\ Opened /\ Guarded /\ ErrorKept /\ Observed
  BY DEF Inv, LifeInv
<1>1. LifeTypeOK' /\ ErrorKept' /\ Observed'
  BY <1>0 DEF LifeTypeOK, ErrorKept, ListenerFailed, Observed
<1>2. Opened' /\ Guarded'
  BY <1>0, WhileServing DEF Opened, Guarded, NotServing, NoMoreRequests, Starting
<1> QED
  BY <1>1, <1>2 DEF Inv, LifeInv

\* A handler sends on a closed channel: only when shutdown() did not wait.
LEMMA PanicStep ==
    ASSUME Inv, Running, NEW r \in Handlers, pc[r] # "idle", HandlerInv', main' = "panicked",
           UNCHANGED <<open, server, diag, errReturn, calling, stop, closing, shutErr, missed,
                       overtaken, buffer, recorded>>,
           main \in {"close", "bid"}
    PROVE  Inv'
<1>0. LifeTypeOK /\ Opened /\ Guarded /\ ErrorKept /\ Observed
  BY DEF Inv, LifeInv
<1>1. LifeTypeOK' /\ Observed'
  BY <1>0, WhileServing DEF LifeTypeOK, Mains, Observed
<1>2. Opened' /\ Guarded'
  BY <1>0, WhileServing DEF Opened, Guarded, NotServing, NoMoreRequests, Starting
<1>3. ErrorKept'
  BY <1>0 DEF ErrorKept, ListenerFailed, Starting
<1> QED
  BY <1>1, <1>2, <1>3 DEF Inv, LifeInv

LEMMA HandlerSteps ==
    ASSUME Inv, NEW r \in Handlers, HandlerStep(r)
    PROVE  Inv'
<1>0. Running /\ HandlerInv /\ LifeTypeOK /\ Opened /\ Guarded /\ ErrorKept /\ Observed
  BY DEF Inv, LifeInv, HandlerStep
<1>t. HandlerTypeOK
  BY <1>0 DEF HandlerInv
<1>1. CASE (ReadRequest(r) \/ RefuseRequest(r) \/ AuctionFails(r) \/ BuildResponse(r) \/ PutObject(r)
              \/ Reply(r)) /\ UNCHANGED lifeVars
  <2>1. HandlerInv'
    BY <1>0, <1>1, ReadRequestKeeps, RefuseRequestKeeps, AuctionFailsKeeps, BuildResponseKeeps,
       PutObjectKeeps, ReplyKeeps DEF lifeVars
  <2>2. pc[r] # "idle"
    BY <1>1 DEF ReadRequest, RefuseRequest, AuctionFails, BuildResponse, PutObject, Reply
  <2>3. count'.received = count.received /\ count'.active = count.active
    <3>1. CASE RefuseRequest(r)
      BY <1>t, <3>1 DEF RefuseRequest, HandlerTypeOK, Counters
    <3>2. CASE AuctionFails(r)
      <4>1. PICK e \in {[name |-> "nobid", status |-> 204], [name |-> "timeout", status |-> TimeoutStatus],
                        [name |-> "error", status |-> 500]} :
               /\ count' = [count EXCEPT ![e.name] = @ + 1]
               /\ ctx' = [ctx EXCEPT ![r].status = e.status]
        BY <3>2, Zenon DEF AuctionFails
      <4>2. e.name \notin {"received", "active"}
        OBVIOUS
      <4> QED
        BY <1>t, <4>1, <4>2 DEF HandlerTypeOK, Counters
    <3> QED
      BY <1>1, <3>1, <3>2 DEF ReadRequest, BuildResponse, PutObject, Reply
  <2> QED
    BY <1>0, <1>1, <2>1, <2>2, <2>3, OwnStep
<1>2. CASE /\ open \cap {"stream", "disabled"} # {} \/ ~ Puts(r)
           /\ PutRequest(r, "stream" \in open) \/ WriteResponse(r, "stream" \in open)
           /\ UNCHANGED lifeVars
  <2>1. ~ ({"stream", "disabled"} \subseteq open)
    BY <1>0 DEF Opened
  <2>2. HandlerInv'
    <3>1. CASE PutRequest(r, "stream" \in open)
      <4>1. pc[r] = "stream"
        BY <3>1 DEF PutRequest
      <4> QED
        BY <1>0, <1>2, <2>1, <3>1, <4>1, PutRequestKeeps DEF lifeVars, Puts
    <3>2. CASE WriteResponse(r, "stream" \in open)
      <4>1. pc[r] = "write"
        BY <3>2 DEF WriteResponse
      <4> QED
        BY <1>0, <1>2, <2>1, <3>2, <4>1, WriteResponseKeeps DEF lifeVars, Puts
    <3> QED
      BY <1>2, <3>1, <3>2
  <2>3. pc[r] # "idle"
    BY <1>2 DEF PutRequest, WriteResponse
  <2>4. count'.received = count.received /\ count'.active = count.active
    BY <1>t, <1>2 DEF PutRequest, WriteResponse, HandlerTypeOK, Counters
  <2> QED
    BY <1>0, <1>2, <2>2, <2>3, <2>4, OwnStep
<1>3. CASE SendOnClosed(r)
  <2>1. HandlerInv'
    BY <1>0, <1>3, HandlersUnchanged DEF SendOnClosed
  <2>2. pc[r] # "idle"
    BY <1>3 DEF SendOnClosed, Puts
  <2>3. main \in {"close", "bid"}
    BY <1>0, <1>3, <2>2, WhileServing DEF SendOnClosed, Opened
  <2> QED
    BY <1>0, <1>3, <2>1, <2>2, <2>3, PanicStep DEF SendOnClosed
<1>4. CASE Deferred(r)
  <2>0. ObserveDuration(r) /\ Observe("bid")
    BY <1>4 DEF Deferred
  <2>1. HandlerInv'
    BY <1>0, <2>0, ObserveDurationKeeps DEF Observe
  <2>2. pc[r] # "idle"
    BY <2>0 DEF ObserveDuration
  <2>3. CASE "bid" \notin open
    <3>1. main \in {"close", "bid"}
      BY <1>0, <2>2, <2>3, WhileServing DEF Opened
    <3> QED
      BY <1>0, <2>0, <2>1, <2>2, <2>3, <3>1, PanicStep DEF Observe
  <2>4. CASE "bid" \in open
    <3>1. /\ UNCHANGED <<main, open, server, diag, errReturn, calling, stop, closing, shutErr, missed,
                         overtaken, recorded>>
          /\ buffer' = [buffer EXCEPT !["bid"] = @ + 1] /\ buffer["bid"] < BufferSize
      BY <2>0, <2>4 DEF Observe
    <3>2. buffer \in [{"bid"} -> 0 .. BufferSize] /\ recorded["bid"] \in Nat
      BY <1>0 DEF LifeTypeOK, Summaries
    <3>3. LifeTypeOK'
      <4>1. buffer' \in [{"bid"} -> 0 .. BufferSize]
        BY <3>1, <3>2, BufferAssumption
      <4> QED
        BY <1>0, <3>1, <4>1 DEF LifeTypeOK, Summaries
    <3>4. Opened' /\ Guarded'
      BY <1>0, <2>2, <3>1, WhileServing DEF Opened, Guarded, NotServing, NoMoreRequests, Starting
    <3>5. ErrorKept'
      BY <1>0, <3>1 DEF ErrorKept, ListenerFailed
    <3>6. Observed'
      <4>1. count'.received = count.received /\ count'.active = count.active - 1
        BY <1>t, <2>0 DEF ObserveDuration, HandlerTypeOK, Counters
      <4>2. count.received \in Int /\ count.active \in Int
        BY <1>t, CountType
      <4>3. buffer'["bid"] = buffer["bid"] + 1 /\ buffer["bid"] \in Nat
        BY <3>1, <3>2, BufferAssumption
      <4> QED
        BY <1>0, <2>4, <3>1, <3>2, <4>1, <4>2, <4>3 DEF Observed
    <3> QED
      BY <2>1, <3>3, <3>4, <3>5, <3>6 DEF Inv, LifeInv
  <2> QED
    BY <2>3, <2>4
<1> QED
  BY <1>1, <1>2, <1>3, <1>4 DEF HandlerStep

-----------------------------------------------------------------------------
(***************************************************************************)
(* Inv is inductive.                                                       *)
(***************************************************************************)
LEMMA InitInv == Init => Inv
<1> SUFFICES ASSUME Init PROVE Inv
  OBVIOUS
<1> USE DEF Init, Starting
<1>1. HandlerInv
  BY HandlerInitInv
<1>2. LifeTypeOK
  <2>1. 0 \in 0 .. BufferSize
    BY BufferAssumption
  <2>2. buffer \in [Summaries -> 0 .. BufferSize] /\ recorded \in [Summaries -> Nat]
    BY <2>1
  <2>3. closing \subseteq Servers \cup {"drain"} /\ calling \subseteq Servers /\ stop \in 0 .. 1
    OBVIOUS
  <2> QED
    BY <2>2, <2>3 DEF LifeTypeOK, Mains
<1>3. Opened /\ Guarded /\ ErrorKept
  BY DEF HandlerInit, Opened, NotServing, AllIdle, Guarded, ErrorKept, ListenerFailed
<1>4. Observed
  BY DEF HandlerInit, Observed, Summaries
<1> QED
  BY <1>1, <1>2, <1>3, <1>4 DEF Inv, LifeInv

LEMMA StepInv == Inv /\ [Next]_vars => Inv'
<1> SUFFICES ASSUME Inv, [Next]_vars PROVE Inv'
  OBVIOUS
<1>1. CASE UNCHANGED vars
  <2>1. HandlerInv'
    BY <1>1, HandlersUnchanged DEF Inv, vars, lifeVars
  <2>2. LifeInv'
    BY <1>1 DEF Inv, LifeInv, vars, lifeVars, handlerVars, LifeTypeOK, Opened, NotServing, AllIdle, Guarded,
               NoMoreRequests, ErrorKept, ListenerFailed, Observed
  <2> QED
    BY <2>1, <2>2 DEF Inv
<1>2. CASE Next
  BY <1>2, AppSteps, ServiceSteps, AcceptStep, HandlerSteps DEF Next, MainStep, ShutdownStep
<1> QED
  BY <1>1, <1>2

\* The invariant holds of every behaviour of the program.
THEOREM LifecycleInvariant == Spec => []Inv
<1> QED
  BY InitInv, StepInv, PTL DEF Spec

-----------------------------------------------------------------------------
(***************************************************************************)
(* What the invariant implies.                                             *)
(***************************************************************************)
\* The type invariant of the program and of its handlers, for any number of
\* them.
THEOREM TypeCorrect == Spec => []TypeOK
<1>1. Inv => TypeOK
  BY Services DEF Inv, HandlerInv, HandlerTypeOK, Busy, Places, LifeInv, LifeTypeOK, TypeOK
<1> QED
  BY <1>1, LifecycleInvariant, PTL

\* Whatever object the pool hands out, however its requests interleave, a bid
\* answers the very request of its client.
THEOREM BidsAnswerOwn == Spec => []AnswersOwn
<1>1. Inv => AnswersOwn
  <2> SUFFICES ASSUME Inv, NEW r \in Handlers, pc[r] = "reply", ctx[r].body # None
               PROVE  /\ ctx[r].body.id = req[r].id
                      /\ ctx[r].body.item = Head(req[r].items)
                      /\ ctx[r].body.version = Version(req[r])
    BY DEF AnswersOwn
  <2>1. IsBidFor(ctx[r].body, req[r]) /\ req[r] \in Requests
    BY OwnType DEF Inv, HandlerInv, OwnAnswer
  <2> QED
    BY <2>1, BidFields
<1> QED
  BY <1>1, LifecycleInvariant, PTL

\* The stream is told what the clients are told, of every accepted request, but
\* for what is too large for it.
THEOREM StreamAgrees == Spec => []StreamTellsTheSame
<1>1. Inv => StreamTellsTheSame
  <2> SUFFICES ASSUME Inv, NEW r \in Handlers, pc[r] = "reply"
               PROVE  streamed[r] =
                        IF "disabled" \in open \/ req[r].route # "bid" \/ ~ Accepted(req[r]) THEN <<>>
                        ELSE (IF Fits(req[r], "request") THEN <<req[r]>> ELSE <<>>)
                             \o (IF ctx[r].body # None /\ Fits(req[r], "bid")
                                 THEN <<ctx[r].body>> ELSE <<>>)
    BY DEF StreamTellsTheSame
  <2>1. streamed[r] = IF Taken(r) THEN Told(r) \o Written(r) ELSE <<>>
    BY DEF Inv, HandlerInv, OwnAnswer
  <2>2. CASE "disabled" \in open
    <3>1. Told(r) = <<>> /\ Written(r) = <<>> /\ <<>> \o <<>> = <<>>
      BY <2>2 DEF Told, Written
    <3> QED
      BY <2>1, <2>2, <3>1
  <2>3. CASE "disabled" \notin open
    BY <2>1, <2>3 DEF Told, Written, Taken
  <2> QED
    BY <2>2, <2>3
<1> QED
  BY <1>1, LifecycleInvariant, PTL

\* The services outlive the handlers that use them, unless Shutdown() returned
\* without waiting.
THEOREM ServicesOutliveHandlers == Spec => []NoUseAfterClose
<1>1. Inv => NoUseAfterClose
  BY DEF Inv, LifeInv, Guarded, AllIdle, NoUseAfterClose, Summaries
<1> QED
  BY <1>1, LifecycleInvariant, PTL

\* App() returns the error that caused the stop; only an error of a listener that
\* comes while the error of shutdown() is being returned may be lost to that one.
THEOREM CauseIsReturned == Spec => []FailureIsReturned
<1>1. Inv => FailureIsReturned
  BY DEF Inv, LifeInv, LifeTypeOK, Opened, ErrorKept, ListenerFailed, FailureIsReturned
<1> QED
  BY <1>1, LifecycleInvariant, PTL

\* Every bid request is counted once, and its time is recorded before App()
\* returns.
THEOREM NothingUncounted == Spec => []AllCounted
<1>1. Inv => AllCounted
  <2> SUFFICES ASSUME Inv PROVE AllCounted
    OBVIOUS
  <2>1. CountedOnce
    BY DEF Inv, HandlerInv
  <2>2. ASSUME main = "returned", server # "off", ~ missed PROVE recorded["bid"] = count.received
    <3>1. AllIdle /\ buffer["bid"] = 0
      BY <2>2 DEF Inv, LifeInv, Guarded, Observed
    <3>2. count.active = 0
      BY <3>1, IdleCount DEF Inv
    <3> QED
      BY <2>2, <3>1, <3>2 DEF Inv, LifeInv, LifeTypeOK, Observed, Summaries
  <2> QED
    BY <2>1, <2>2 DEF AllCounted
<1> QED
  BY <1>1, LifecycleInvariant, PTL
=============================================================================
