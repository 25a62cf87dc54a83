------------------------------- MODULE Lifecycle -------------------------------
(*****************************************************************************)
(* App(): the services are opened, both servers are started in goroutines of *)
(* their own, a signal or a failed listener stops the program, shutdown()    *)
(* closes both servers side by side and services.close() closes the services *)
(* under whatever handler is still running.  The handlers are those of       *)
(* BidHandler; the buffered summaries of the metrics are the channels that   *)
(* handlers send on and that are closed last.                                *)
(*****************************************************************************)
EXTENDS BidHandler, Functions

CONSTANTS BufferSize   \* the capacity of a summary's channel (1e5 in the code)

ASSUME BufferAssumption == BufferSize \in Nat \ {0}

VARIABLES main,       \* where App() is
          open,       \* the services that are open; "disabled" for no stream
          server,     \* the bid server
          diag,       \* the diagnostic server
          errReturn,  \* the named result of App()
          calling,    \* listeners whose callback has not sent its signal yet
          stop,       \* the signals in the channel stop, at most 1
          closing,    \* what shutdown() still has to do or to wait for
          shutErr,    \* the named result of shutdown()
          missed,     \* server.Shutdown() returned without waiting for handlers
          overtaken,  \* a callback wrote errReturn after App() had read it as nil
          buffer,     \* observations in the channel of each summary
          recorded    \* observations its goroutine took

lifeVars == <<main, open, server, diag, errReturn, calling, stop, closing, shutErr,
              missed, overtaken, buffer, recorded>>

vars == <<handlerVars, lifeVars>>

Servers == {"server", "diag"}

\* BidRequestTime.  DeviceQueryTime is observed earlier in the same handler and
\* closed the same way; KinesisTime is never observed.
Summaries == {"bid"}

Init ==
  /\ HandlerInit
  /\ main = "start"
  /\ open = {}
  /\ server = "off" /\ diag = "off"
  /\ errReturn = "nil" /\ shutErr = "nil"
  /\ calling = {} /\ stop = 0 /\ closing = {}
  /\ missed = FALSE /\ overtaken = FALSE
  /\ buffer = [s \in Summaries |-> 0]
  /\ recorded = [s \in Summaries |-> 0]

(* ---------------------------- initializeServices ------------------------- *)

Starting == {"start", "db", "cache", "stream", "serve"}

StartMetrics ==
  /\ main = "start"
  /\ main' = "db"
  /\ open' = Summaries
  /\ UNCHANGED <<handlerVars, server, diag, errReturn, calling, stop, closing, shutErr,
                 missed, overtaken, buffer, recorded>>

\* Opens a service and goes on.
Opens(here, services, there) ==
  /\ main = here
  /\ main' = there
  /\ open' = open \cup services
  /\ UNCHANGED <<handlerVars, server, diag, errReturn, calling, stop, closing, shutErr,
                 missed, overtaken, buffer, recorded>>

\* Either database; closing the repositories of DynamoDB does nothing.
OpenDatabase  == Opens("db", {"repo"}, "cache")
OpenCache     == Opens("cache", {"cache"}, "stream")
OpenStream    == Opens("stream", {"stream"}, "serve")
DisableStream == Opens("stream", {"disabled"}, "serve")

\* Any step may fail: App() returns without closing what is open, except that
\* the Aerospike client is closed when its own initialization fails.
StartFails ==
  /\ main \in Starting \ {"start", "serve"}
  /\ main' = "returned"
  /\ errReturn' = "start"
  /\ UNCHANGED <<handlerVars, open, server, diag, calling, stop, closing, shutErr,
                 missed, overtaken, buffer, recorded>>

StartServers ==
  /\ main = "serve"
  /\ main' = "wait"
  /\ server' = "starting" /\ diag' = "serving"
  /\ UNCHANGED <<handlerVars, open, errReturn, calling, stop, closing, shutErr, missed, overtaken,
                 buffer, recorded>>

(* ------------------------------- the servers ----------------------------- *)

Running == main \notin Starting \cup {"returned", "panicked"}

\* The goroutine of AsyncListenAndServe() gets to run, however late.
ServerListens ==
  /\ Running /\ server = "starting"
  /\ server' = "serving"
  /\ UNCHANGED <<handlerVars, main, open, diag, errReturn, calling, stop, closing, shutErr,
                 missed, overtaken, buffer, recorded>>

\* A listener that cannot bind, or fails to accept: the callback first writes
\* errReturn, then sends to stop.
ListenerFails(s) ==
  /\ Running
  /\ IF s = "server"
     THEN /\ server \in {"starting", "serving"}
          /\ server' = IF server = "starting" THEN "unbound" ELSE "broken"
          /\ UNCHANGED diag
     ELSE /\ diag = "serving"
          /\ diag' = "broken"
          /\ UNCHANGED server
  /\ errReturn' = "listener"
  /\ calling' = calling \cup {s}
  /\ overtaken' = (overtaken \/ main = "return")
  /\ UNCHANGED <<handlerVars, main, open, stop, closing, shutErr, missed, buffer, recorded>>

\* The send blocks while the one place of the channel is taken.
CallbackSends(s) ==
  /\ Running
  /\ s \in calling
  /\ stop = 0
  /\ stop' = 1
  /\ calling' = calling \ {s}
  /\ UNCHANGED <<handlerVars, main, open, server, diag, errReturn, closing, shutErr, missed, overtaken,
                 buffer, recorded>>

\* An interrupt; signal.Notify() never blocks and drops what does not fit.
Signal ==
  /\ main = "wait"
  /\ stop' = 1
  /\ UNCHANGED <<handlerVars, main, open, server, diag, errReturn, calling, closing, shutErr,
                 missed, overtaken, buffer, recorded>>

(* -------------------------------- shutdown() ----------------------------- *)

ReceiveStop ==
  /\ main = "wait"
  /\ stop = 1
  /\ stop' = 0
  /\ main' = "shutdown"
  /\ closing' = Servers
  /\ UNCHANGED <<handlerVars, open, server, diag, errReturn, calling, shutErr, missed, overtaken, buffer,
                 recorded>>

\* fasthttp's Shutdown() without a listener returns at once; it does not keep
\* Serve() from starting later.
ShutdownUnbound ==
  /\ "server" \in closing
  /\ server \in {"starting", "unbound"}
  /\ closing' = closing \ {"server"}
  /\ missed' = TRUE
  /\ UNCHANGED <<handlerVars, main, open, server, diag, errReturn, calling, stop, shutErr,
                 buffer, recorded, overtaken>>

CloseListener ==
  /\ "server" \in closing
  /\ server \in {"serving", "broken"}
  /\ server' = IF server = "serving" THEN "closed" ELSE server
  /\ closing' = (closing \ {"server"}) \cup {"drain"}
  /\ UNCHANGED <<handlerVars, main, open, diag, errReturn, calling, stop, shutErr, missed, overtaken,
                 buffer, recorded>>

CloseListenerFails ==
  /\ "server" \in closing
  /\ server \in {"serving", "broken"}
  /\ closing' = closing \ {"server"}
  /\ missed' = TRUE
  /\ shutErr' = "shutdown"
  /\ UNCHANGED <<handlerVars, main, open, server, diag, errReturn, calling, stop, buffer,
                 recorded, overtaken>>

\* Mutant: the server is closed without waiting for open connections.
DrainedAtOnce ==
  /\ "drain" \in closing
  /\ closing' = closing \ {"drain"}
  /\ UNCHANGED <<handlerVars, main, open, server, diag, errReturn, calling, stop, shutErr,
                 missed, overtaken, buffer, recorded>>

\* Shutdown() polls until no connection is open.
Drained ==
  /\ "drain" \in closing
  /\ \A r \in Handlers : pc[r] = "idle"
  /\ closing' = closing \ {"drain"}
  /\ UNCHANGED <<handlerVars, main, open, server, diag, errReturn, calling, stop, shutErr,
                 missed, overtaken, buffer, recorded>>

\* net/http waits for requests until ShutdownTimeout.
DiagShutdown ==
  /\ "diag" \in closing
  /\ closing' = closing \ {"diag"}
  /\ diag' = IF diag = "broken" THEN diag ELSE "closed"
  /\ shutErr' \in IF diag = "serving" THEN {shutErr, "shutdown"} ELSE {shutErr}
  /\ UNCHANGED <<handlerVars, main, open, server, errReturn, calling, stop, missed, overtaken, buffer,
                 recorded>>

\* Mutant: the error of shutdown() is returned whatever errReturn is.
ShutdownReturnsItsOwn ==
  /\ main = "shutdown"
  /\ closing = {}
  /\ main' = IF shutErr # "nil" THEN "return" ELSE "close"
  /\ UNCHANGED <<handlerVars, open, server, diag, errReturn, calling, stop, closing, shutErr,
                 missed, overtaken, buffer, recorded>>

\* wg.Wait() is over; an error of shutdown() is returned when there is no other.
ShutdownReturns ==
  /\ main = "shutdown"
  /\ closing = {}
  /\ main' = IF shutErr # "nil" /\ errReturn = "nil" THEN "return" ELSE "close"
  /\ UNCHANGED <<handlerVars, open, server, diag, errReturn, calling, stop, closing, shutErr,
                 missed, overtaken, buffer, recorded>>

\* The statement "return err" assigns errReturn, without a lock: a callback may have
\* written it since it was read.
ReturnErr ==
  /\ main = "return"
  /\ main' = "close"
  /\ errReturn' = shutErr
  /\ UNCHANGED <<handlerVars, open, server, diag, calling, stop, closing, shutErr, missed,
                 overtaken, buffer, recorded>>

(* ------------------------------ services.close() ------------------------- *)

CloseOrder == <<"stream", "cache", "repo", "bid">>

Before(s) == {CloseOrder[i] : i \in 1 .. (CHOOSE j \in DOMAIN CloseOrder : CloseOrder[j] = s) - 1}

CloseService(s) ==
  /\ main = "close"
  /\ s \in open
  /\ open \cap Before(s) = {}
  /\ open' = open \ {s}
  /\ main' = IF s \in Summaries THEN s ELSE main
  /\ UNCHANGED <<handlerVars, server, diag, errReturn, calling, stop, closing, shutErr, missed, overtaken,
                 buffer, recorded>>

\* BufferedSummary.CloseService() waits until its goroutine has read all.
SummaryDrained(s) ==
  /\ main = s
  /\ buffer[s] = 0
  /\ main' = "close"
  /\ UNCHANGED <<handlerVars, open, server, diag, errReturn, calling, stop, closing, shutErr,
                 missed, overtaken, buffer, recorded>>

AppReturns ==
  /\ main = "close"
  /\ open \subseteq {"disabled"}
  /\ main' = "returned"
  /\ UNCHANGED <<handlerVars, open, server, diag, errReturn, calling, stop, closing, shutErr,
                 missed, overtaken, buffer, recorded>>

(* ------------------------------- the handlers ---------------------------- *)

Accept(r) ==
  /\ Running
  /\ server = "serving"
  /\ \E q \in Requests : AnswerDirectly(r, q) \/ Receive(r, q)
  /\ UNCHANGED lifeVars

\* A send on a channel: it waits for room, and panics when it is closed.
Observe(s) ==
  /\ IF s \in open
     THEN /\ buffer[s] < BufferSize
          /\ buffer' = [buffer EXCEPT ![s] = @ + 1]
          /\ UNCHANGED main
     ELSE /\ main' = "panicked"
          /\ UNCHANGED buffer
  /\ UNCHANGED <<open, server, diag, errReturn, calling, stop, closing, shutErr, missed, overtaken,
                 recorded>>

Deferred(r) == ObserveDuration(r) /\ Observe("bid")

\* Put() gets past its check of the size and sends on the producer's channel.
Puts(r) == (pc[r] = "stream" /\ Fits(req[r], "request")) \/ (pc[r] = "write" /\ Fits(req[r], "bid"))

\* The channel of a closed producer, or of a closed budget cache that a no-bid
\* asks to refresh.
SendOnClosed(r) ==
  /\ \/ /\ Puts(r)
        /\ open \cap {"stream", "disabled"} = {}
     \/ pc[r] = "auction" /\ "cache" \notin open
  /\ main' = "panicked"
  /\ UNCHANGED <<handlerVars, open, server, diag, errReturn, calling, stop, closing, shutErr,
                 missed, overtaken, buffer, recorded>>

HandlerStep(r) ==
  /\ Running
  /\ \/ /\ \/ ReadRequest(r) \/ RefuseRequest(r)
           \/ AuctionFails(r) \/ BuildResponse(r) \/ PutObject(r) \/ Reply(r)
        /\ UNCHANGED lifeVars
     \/ /\ open \cap {"stream", "disabled"} # {} \/ ~ Puts(r)
        /\ PutRequest(r, "stream" \in open) \/ WriteResponse(r, "stream" \in open)
        /\ UNCHANGED lifeVars
     \/ SendOnClosed(r) \/ Deferred(r)

\* Mutant: the channel is only read when it is closed.
CollectAtClose(s) ==
  /\ Running
  /\ s \notin open
  /\ buffer[s] > 0
  /\ buffer' = [buffer EXCEPT ![s] = @ - 1]
  /\ recorded' = [recorded EXCEPT ![s] = @ + 1]
  /\ UNCHANGED <<handlerVars, main, open, server, diag, errReturn, calling, stop, closing,
                 shutErr, missed, overtaken>>

\* The goroutine of a summary, which ends when the closed channel is empty.
Collect(s) ==
  /\ Running
  /\ buffer[s] > 0
  /\ buffer' = [buffer EXCEPT ![s] = @ - 1]
  /\ recorded' = [recorded EXCEPT ![s] = @ + 1]
  /\ UNCHANGED <<handlerVars, main, open, server, diag, errReturn, calling, stop, closing,
                 shutErr, missed, overtaken>>

MainStep ==
  \/ StartMetrics \/ OpenDatabase \/ OpenCache \/ OpenStream
  \/ DisableStream \/ StartFails \/ StartServers \/ ReceiveStop \/ ShutdownReturns
  \/ ReturnErr \/ AppReturns
  \/ \E s \in Range(CloseOrder) : CloseService(s)
  \/ \E s \in Summaries : SummaryDrained(s)

ShutdownStep ==
  ShutdownUnbound \/ CloseListener \/ CloseListenerFails \/ Drained \/ DiagShutdown

Next ==
  \/ MainStep
  \/ ServerListens \/ Signal
  \/ \E s \in Servers : ListenerFails(s) \/ CallbackSends(s)
  \/ ShutdownStep
  \/ \E r \in Handlers : Accept(r) \/ HandlerStep(r)
  \/ \E s \in Summaries : Collect(s)

\* Goroutines that can run do run; nothing obliges clients, signals or
\* listeners to act.
Fairness ==
  /\ WF_vars(MainStep)
  /\ WF_vars(ShutdownStep)
  /\ \A s \in Servers : WF_vars(CallbackSends(s))
  /\ \A r \in Handlers : WF_vars(HandlerStep(r))
  /\ \A s \in Summaries : WF_vars(Collect(s))

Spec == Init /\ [][Next]_vars /\ Fairness

(* ------------------------------- properties ------------------------------ *)

TypeOK ==
  /\ pc \in [Handlers -> {"idle", "read", "stream", "auction", "write", "release",
                          "observe", "reply"}]
  /\ \A r \in Handlers : (holds[r] = None) = (pc[r] \in {"idle", "observe", "reply"})
  /\ \A r \in Handlers : (req[r] = None) = (pc[r] = "idle")
  /\ open \subseteq Range(CloseOrder) \cup {"disabled"}
  /\ stop \in 0 .. 1
  /\ calling \subseteq Servers /\ closing \subseteq Servers \cup {"drain"}
  /\ buffer \in [Summaries -> 0 .. BufferSize]

\* The services outlive their users: when shutdown() is over no handler runs,
\* and nothing is sent on a closed channel, unless server.Shutdown() returned
\* without waiting: the signal came before the listener was there, or the
\* listener could not be closed (services.go:91-97, app.go:67).
NoUseAfterClose ==
  (main = "close" \/ main \in Summaries \cup {"panicked"}) =>
     missed \/ \A r \in Handlers : pc[r] = "idle"

\* The stream tells what the clients were told.  Unless it is disabled, a request
\* that was accepted is in the stream when it is answered, and after it the very
\* bid that the client gets, if any: each of them unless it is too large, which no
\* client notices.  Of a request that was refused the stream gets nothing
\* (bidhandler.go:66, write_response.go:19, producer.go:88).
StreamTellsTheSame ==
  \A r \in Handlers :
    pc[r] = "reply" =>
      streamed[r] =
        IF "disabled" \in open \/ req[r].route # "bid" \/ ~ Accepted(req[r]) THEN <<>>
        ELSE (IF Fits(req[r], "request") THEN <<req[r]>> ELSE <<>>)
             \o (IF ctx[r].body # None /\ Fits(req[r], "bid") THEN <<ctx[r].body>> ELSE <<>>)

ListenerFailed == server \in {"unbound", "broken"} \/ diag = "broken"

\* App() returns an error exactly when initialization, a listener or a shutdown
\* failed.  An error of the shutdown hides that of a listener only when the
\* listener's callback came between the two accesses of app.go:69-70 that no lock
\* holds together; that of the listener that caused the stop it never hides
\* (app.go:53-74).
FailureIsReturned ==
  main = "returned" =>
    CASE server = "off"                -> errReturn = "start"
      [] ListenerFailed /\ ~ overtaken -> errReturn = "listener"
      [] ListenerFailed /\ overtaken   -> errReturn \in {"listener", shutErr} /\ shutErr # "nil"
      [] OTHER                         -> errReturn = shutErr

\* Every bid request is counted under one outcome, and when App() has closed
\* its services the time of each has reached the summary: none is left in the
\* channel and no handler left without observing (buffered_summary.go:47-50).
AllCounted ==
  /\ CountedOnce
  /\ (main = "returned" /\ server # "off" /\ ~ missed) => recorded["bid"] = count.received

\* Once a stop was requested, App() returns; and every request that was
\* accepted is answered while the process lives, although a handler waits for
\* room in a summary's channel.
ServerNeverHangs ==
  /\ (main = "wait" /\ stop = 1) ~> main \in {"returned", "panicked"}
  /\ \A r \in Handlers :
       (pc[r] # "idle") ~> (pc[r] = "idle" \/ main \in {"returned", "panicked"})
=============================================================================
