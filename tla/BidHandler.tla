------------------------------ MODULE BidHandler ------------------------------
(*****************************************************************************)
(* The handling of HTTP requests by the bid server: the routes of server.go, *)
(* HandleRequest() with its deferred calls, the parsing of both versions of  *)
(* OpenRTB, the answers, and the objects of the pool (pool.go) that requests *)
(* are parsed into.  The fields of an auction.Request are slices of the      *)
(* buffer of the parser they came from: they are modelled by a look into     *)
(* data[p].parser at the moment of use.  Auction.Run() is one                *)
(* nondeterministic outcome here; BudgetAuction and Targeting refine it.     *)
(*****************************************************************************)
EXTENDS Naturals, Sequences, FiniteSets

CONSTANTS Handlers,       \* the goroutines of fasthttp's worker pool
          Objects,        \* the persistentData objects of the pool
          Requests,       \* the HTTP requests the clients send
          Campaigns,      \* what an auction may bid for
          ConfigVersion,  \* Config.OpenRTBVersion
          TimeoutStatus,  \* Config.TimeoutStatus
          MaxRequests,    \* bound: how many bid requests arrive in a behaviour
          None

Versions == {"2.5", "3.0"}

RequestFields == {"route", "header", "form", "id", "ifa", "items", "unfit"}

ASSUME HandlerAssumption ==
  /\ IsFiniteSet(Handlers)
  /\ Cardinality(Handlers) <= Cardinality(Objects)
  /\ MaxRequests \in Nat
  /\ \A q \in Requests : DOMAIN q = RequestFields /\ q.unfit \subseteq {"request", "bid"}

VARIABLES pc,        \* where each handler is
          req,       \* the HTTP request it serves
          holds,     \* the object it took from the pool
          data,      \* the contents of the objects
          ctx,       \* the response in its fasthttp.RequestCtx
          streamed,  \* what it passed to the data stream, in order
          count      \* the counters and the gauge of metrics/bidrequest.go

handlerVars == <<pc, req, holds, data, ctx, streamed, count>>

Fresh == [parser |-> None, version |-> None, response |-> None]
EmptyCtx == [status |-> 200, body |-> None]
Outcomes == {"bad", "nobid", "timeout", "error", "success"}

HandlerInit ==
  /\ pc = [r \in Handlers |-> "idle"]
  /\ req = [r \in Handlers |-> None]
  /\ holds = [r \in Handlers |-> None]
  /\ data = [p \in Objects |-> Fresh]
  /\ ctx = [r \in Handlers |-> EmptyCtx]
  /\ streamed = [r \in Handlers |-> <<>>]
  /\ count = [c \in Outcomes \cup {"received", "active"} |-> 0]

Goto(r, there) == pc' = [pc EXCEPT ![r] = there]

(* ------------------------------- the parsers ----------------------------- *)

Version(q) == IF q.header = "" THEN ConfigVersion ELSE q.header

\* Neither parser finds its fields in a body of the other version.
Accepted(q) ==
  /\ Version(q) \in Versions
  /\ q.form = Version(q)
  /\ q.id # ""
  /\ q.ifa # "malformed"
  /\ q.items # <<>>

\* Whether a Kinesis record can hold the request, or the bid that answers it: the
\* bid repeats the request's ID, so that either may be too large without the other.
Fits(q, what) == what \notin q.unfit

\* The bid of a campaign that answers a request.
Bid(q, c) == [id |-> q.id, item |-> Head(q.items), version |-> Version(q), campaign |-> c]

\* None is no request, no object and no bid.
ASSUME NoneAssumption ==
  /\ None \notin Requests \cup Objects
  /\ \A q \in Requests, c \in Campaigns : Accepted(q) => Bid(q, c) # None

(* ------------------------------- the handler ----------------------------- *)

\* The routes: the health check answers 200, the rest is refused.
AnswerDirectly(r, q) ==
  /\ pc[r] = "idle"
  /\ q.route # "bid"
  /\ ctx' = [ctx EXCEPT ![r].status = CASE q.route = "health" -> 200
                                        [] q.route = "method" -> 405
                                        [] OTHER -> 404]
  /\ req' = [req EXCEPT ![r] = q]
  /\ Goto(r, "reply")
  /\ UNCHANGED <<holds, data, streamed, count>>

\* Mutant: an object is in the pool again while its request is still served.
ReceiveShared(r, q) ==
  /\ pc[r] = "idle"
  /\ q.route = "bid"
  /\ count.received < MaxRequests
  /\ \E p \in Objects : holds' = [holds EXCEPT ![r] = p]
  /\ req' = [req EXCEPT ![r] = q]
  /\ count' = [count EXCEPT !.received = @ + 1, !.active = @ + 1]
  /\ Goto(r, "read")
  /\ UNCHANGED <<data, ctx, streamed>>

\* sync.Pool returns any object that nobody holds, or drops it for a new one.
Receive(r, q) ==
  /\ pc[r] = "idle"
  /\ q.route = "bid"
  /\ count.received < MaxRequests
  /\ \E p \in Objects \ {holds[i] : i \in Handlers} :
       /\ holds' = [holds EXCEPT ![r] = p]
       /\ \E contents \in {data[p], Fresh} : data' = [data EXCEPT ![p] = contents]
  /\ req' = [req EXCEPT ![r] = q]
  /\ count' = [count EXCEPT !.received = @ + 1, !.active = @ + 1]
  /\ Goto(r, "read")
  /\ UNCHANGED <<ctx, streamed>>

\* readRequest() accepts: the parser keeps a copy of the body.
ReadRequest(r) ==
  /\ pc[r] = "read"
  /\ Accepted(req[r])
  /\ data' = [data EXCEPT ![holds[r]].parser = req[r],
                          ![holds[r]].version = Version(req[r])]
  /\ Goto(r, "stream")
  /\ UNCHANGED <<req, holds, ctx, streamed, count>>

\* Mutant: the early return skips the deferred Put().
RefuseWithoutPut(r) ==
  /\ pc[r] = "read"
  /\ ~ Accepted(req[r])
  /\ count' = [count EXCEPT !.bad = @ + 1]
  /\ ctx' = [ctx EXCEPT ![r].status = 400]
  /\ Goto(r, "observe")
  /\ UNCHANGED <<req, holds, data, streamed>>

\* Mutant: a refused request is streamed too.
RefuseAndStream(r) ==
  /\ pc[r] = "read"
  /\ ~ Accepted(req[r])
  /\ count' = [count EXCEPT !.bad = @ + 1]
  /\ ctx' = [ctx EXCEPT ![r].status = 400]
  /\ streamed' = [streamed EXCEPT ![r] = Append(@, req[r])]
  /\ Goto(r, "release")
  /\ UNCHANGED <<req, holds, data>>

\* It refuses: the parser may have been used, the auction.Request was not.
RefuseRequest(r) ==
  /\ pc[r] = "read"
  /\ ~ Accepted(req[r])
  /\ data' = IF Version(req[r]) \in Versions
             THEN [data EXCEPT ![holds[r]].parser = req[r]] ELSE data
  /\ count' = [count EXCEPT !.bad = @ + 1]
  /\ ctx' = [ctx EXCEPT ![r].status = 400]
  /\ Goto(r, "release")
  /\ UNCHANGED <<req, holds, streamed>>

\* The stream may be disabled, and refuses what no Kinesis record can hold; the
\* error is only logged.
PutRequest(r, open) ==
  /\ pc[r] = "stream"
  /\ streamed' = IF open /\ Fits(req[r], "request")
                 THEN [streamed EXCEPT ![r] = Append(@, req[r])] ELSE streamed
  /\ Goto(r, "auction")
  /\ UNCHANGED <<req, holds, data, ctx, count>>

\* Auction.Run() returns an error: writeResponseError().
AuctionFails(r) ==
  /\ pc[r] = "auction"
  /\ \E end \in {[name |-> "nobid", status |-> 204], [name |-> "timeout", status |-> TimeoutStatus],
                 [name |-> "error", status |-> 500]} :
       /\ count' = [count EXCEPT ![end.name] = @ + 1]
       /\ ctx' = [ctx EXCEPT ![r].status = end.status]
  /\ Goto(r, "release")
  /\ UNCHANGED <<req, holds, data, streamed>>

\* Mutant: a bid is counted where it is built as well as where it is written.
BuildAndCount(r) ==
  /\ pc[r] = "auction"
  /\ \E c \in Campaigns :
       data' = [data EXCEPT ![holds[r]].response =
                  [id |-> data[holds[r]].parser.id, item |-> Head(data[holds[r]].parser.items),
                   version |-> data[holds[r]].version, campaign |-> c]]
  /\ count' = [count EXCEPT !.success = @ + 1]
  /\ Goto(r, "write")
  /\ UNCHANGED <<req, holds, ctx, streamed>>

\* It returns a bid: buildResponse() reads the request through its pointers.
BuildResponse(r) ==
  /\ pc[r] = "auction"
  /\ \E c \in Campaigns :
       LET asked == data[holds[r]]
           answer == [id |-> asked.parser.id, item |-> Head(asked.parser.items),
                      version |-> IF asked.version = "2.5" THEN "2.5" ELSE "3.0",
                      campaign |-> c]
       IN data' = [data EXCEPT ![holds[r]].response = answer]
  /\ Goto(r, "write")
  /\ UNCHANGED <<req, holds, ctx, streamed, count>>

\* writeResponse(): the stream and SetBody() both copy the pooled buffer.  What the
\* stream refuses as too large is logged, and answered all the same.
WriteResponse(r, open) ==
  LET body == data[holds[r]].response IN
  /\ pc[r] = "write"
  /\ count' = [count EXCEPT !.success = @ + 1]
  /\ streamed' = IF open /\ Fits(req[r], "bid")
                 THEN [streamed EXCEPT ![r] = Append(@, body)] ELSE streamed
  /\ ctx' = [ctx EXCEPT ![r].body = body]
  /\ Goto(r, "release")
  /\ UNCHANGED <<req, holds, data>>

(* The deferred calls, last one first. *)

PutObject(r) ==
  /\ pc[r] = "release"
  /\ holds' = [holds EXCEPT ![r] = None]
  /\ Goto(r, "observe")
  /\ UNCHANGED <<req, data, ctx, streamed, count>>

\* ObserveDuration(), then the gauge goes down and the handler returns.
ObserveDuration(r) ==
  /\ pc[r] = "observe"
  /\ count' = [count EXCEPT !.active = @ - 1]
  /\ Goto(r, "reply")
  /\ UNCHANGED <<req, holds, data, ctx, streamed>>

\* fasthttp sends the response once the handler has returned, and resets ctx.
Reply(r) ==
  /\ pc[r] = "reply"
  /\ Goto(r, "idle")
  /\ req' = [req EXCEPT ![r] = None]
  /\ ctx' = [ctx EXCEPT ![r] = EmptyCtx]
  /\ streamed' = [streamed EXCEPT ![r] = <<>>]
  /\ UNCHANGED <<holds, data, count>>

(* ------------------------------- properties ------------------------------ *)

\* Whatever object the pool hands out, and whatever an earlier request left in
\* it, a bid answers the very request of its client: its ID, its first item
\* and its version (bidhandler.go:58-82, bidresponse.go).
AnswersOwn ==
  \A r \in Handlers :
    (pc[r] = "reply" /\ ctx[r].body # None) =>
      /\ ctx[r].body.id = req[r].id
      /\ ctx[r].body.item = Head(req[r].items)
      /\ ctx[r].body.version = Version(req[r])

\* Every bid request that is received is counted under exactly one outcome
\* when its handler is done, on every early return (metrics/bidrequest.go).
CountedOnce ==
  /\ count.received = count.bad + count.nobid + count.timeout + count.error
                      + count.success
                      + Cardinality({r \in Handlers :
                                       pc[r] \in {"read", "stream", "auction", "write"}})
  /\ count.active = Cardinality({r \in Handlers : pc[r] \notin {"idle", "reply"}})
=============================================================================
