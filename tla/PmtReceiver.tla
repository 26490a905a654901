---------------------------- MODULE PmtReceiver ----------------------------
(***************************************************************************)
(* The life of the OpenTelemetry receiver in Redfish mode                  *)
(* (src/tools/otel/intelpmtreceiver/receiver.go).                          *)
(*                                                                         *)
(* Two threads of control meet here.  The collector calls Start and        *)
(* Shutdown.  Start spawns one goroutine that scrapes at once, then on     *)
(* every tick, visiting the configured endpoints one after the other:      *)
(* find or create the endpoint's HTTP client, optionally POST the trigger  *)
(* action, GET the telemetry, read and decode the body.  Shutdown cancels  *)
(* the context every request carries and closes the idle connections of    *)
(* every client, without waiting for the goroutine.  The two share the     *)
(* map httpClients with no lock.                                           *)
(*                                                                         *)
(* net/http is outside src/.  Its connection pool is modelled by what the  *)
(* receiver relies on: a request takes an idle connection or dials one, a  *)
(* body read to its end returns the connection to the pool, a body closed  *)
(* early or a failed request discards it, and CloseIdleConnections empties *)
(* the pool and makes later returns discard until the next request.        *)
(***************************************************************************)
EXTENDS Naturals, FiniteSets

CONSTANTS
  Endpoints,   \* keys of config.RemoteConfig
  Triggered,   \* endpoints with a TriggerAction
  Timed,       \* endpoints whose ClientConfig sets a timeout (default: none)
  Healthy,     \* endpoints that answer every request sent to them
  None         \* no current endpoint

ASSUME EndpointsAssumption ==
  /\ IsFiniteSet(Endpoints)
  /\ Triggered \subseteq Endpoints
  /\ Timed \subseteq Endpoints
  /\ Healthy \subseteq Endpoints
  /\ None \notin Endpoints

VARIABLES
  host,       \* how far the collector is in Start and Shutdown
  ctx,        \* ipr.ctx / ipr.cancel: not made, live or cancelled
  pc,         \* where the scraping goroutine is
  todo,       \* endpoints the range loop of this cycle has not visited
  cur,        \* endpoint being visited
  found,      \* keys of decodableAggregatorsMap in this cycle
  postBody,   \* the POST's response body is still open (deferred Close)
  ticker,     \* "none", "empty" or "full": ticker.C buffers one tick
  clients,    \* keys of ipr.httpClients
  closeLeft,  \* clients Shutdown's range loop has still to visit
  busy,       \* per client: connections in use
  idle,       \* per client: connections in the pool
  closeIdle   \* per client: the pool refuses returned connections

goVars == <<todo, cur, found, postBody>>
poolVars == <<busy, idle, closeIdle>>
vars == <<host, ctx, pc, goVars, ticker, clients, closeLeft, poolVars>>

HostStates ==
  {"created", "running", "failed", "cancelled", "closing", "stopped", "crashed"}
PcStates ==
  {"none", "cycle", "next", "client", "insert", "request", "post",
   "triggered", "get", "body", "consume", "select", "done"}

\* The goroutine is inside discoverRedfishAggregator, past getHTTPClient.
Exchanging == pc \in {"request", "post", "triggered", "get", "body"}
\* A request is on the wire or its body is being read.
OnWire == pc \in {"post", "get", "body"}
\* The goroutine will never run again, or never ran.
Quiet == pc \in {"none", "done"}

TypeOK ==
  /\ host \in HostStates
  /\ ctx \in {"none", "live", "cancelled"}
  /\ pc \in PcStates
  /\ todo \subseteq Endpoints
  /\ cur \in Endpoints \cup {None}
  /\ found \subseteq Endpoints
  /\ postBody \in BOOLEAN
  /\ ticker \in {"none", "empty", "full"}
  /\ clients \subseteq Endpoints
  /\ closeLeft \subseteq Endpoints
  /\ busy \in [Endpoints -> Nat]
  /\ idle \in [Endpoints -> Nat]
  /\ closeIdle \in [Endpoints -> BOOLEAN]

Init ==
  /\ host = "created"
  /\ ctx = "none"
  /\ pc = "none"
  /\ todo = {}
  /\ cur = None
  /\ found = {}
  /\ postBody = FALSE
  /\ ticker = "none"
  /\ clients = {}
  /\ closeLeft = {}
  /\ busy = [e \in Endpoints |-> 0]
  /\ idle = [e \in Endpoints |-> 0]
  /\ closeIdle = [e \in Endpoints |-> FALSE]

-----------------------------------------------------------------------------
(* The connection pool of one client, as net/http keeps it.                *)

\* A request takes an idle connection or dials; a pool in use keeps returns.
Acquire(e) ==
  /\ busy' = [busy EXCEPT ![e] = @ + 1]
  /\ idle' = [idle EXCEPT ![e] = IF @ > 0 THEN @ - 1 ELSE 0]
  /\ closeIdle' = [closeIdle EXCEPT ![e] = FALSE]

\* n connections of e end; with back, one of them returns to the pool.
Release(e, n, back) ==
  /\ busy' = [busy EXCEPT ![e] = @ - n]
  /\ idle' = [idle EXCEPT ![e] = IF back /\ ~closeIdle[e] THEN @ + 1 ELSE @]
  /\ UNCHANGED closeIdle

CloseIdleConnections(e) ==
  /\ idle' = [idle EXCEPT ![e] = 0]
  /\ closeIdle' = [closeIdle EXCEPT ![e] = TRUE]
  /\ UNCHANGED busy

-----------------------------------------------------------------------------
(* The collector: Start and Shutdown.                                      *)

\* initPMT fails: Start returns before it makes a context.
StartFails ==
  /\ host = "created"
  /\ host' = "failed"
  /\ UNCHANGED <<ctx, pc, goVars, ticker, clients, closeLeft, poolVars>>

\* The interval does not parse: the context is made, no goroutine is.
StartBadInterval ==
  /\ host = "created"
  /\ host' = "failed"
  /\ ctx' = "live"
  /\ UNCHANGED <<pc, goVars, ticker, clients, closeLeft, poolVars>>

Start ==
  /\ host = "created"
  /\ host' = "running"
  /\ ctx' = "live"
  /\ pc' = "cycle"
  /\ UNCHANGED <<goVars, ticker, clients, closeLeft, poolVars>>

\* The collector also shuts down a receiver that never started or failed to.
ShutdownCancel ==
  /\ host \in {"created", "running", "failed"}
  /\ host' = "cancelled"
  /\ ctx' = IF ctx = "none" THEN "none" ELSE "cancelled"
  /\ UNCHANGED <<pc, goVars, ticker, clients, closeLeft, poolVars>>

ShutdownRange ==
  /\ host = "cancelled"
  /\ host' = "closing"
  /\ closeLeft' = clients
  /\ UNCHANGED <<ctx, pc, goVars, ticker, clients, poolVars>>

ShutdownClose(e) ==
  /\ host = "closing"
  /\ e \in closeLeft
  /\ closeLeft' = closeLeft \ {e}
  /\ CloseIdleConnections(e)
  /\ UNCHANGED <<host, ctx, pc, goVars, ticker, clients>>

ShutdownReturns ==
  /\ host = "closing"
  /\ closeLeft = {}
  /\ host' = "stopped"
  /\ UNCHANGED <<ctx, pc, goVars, ticker, clients, closeLeft, poolVars>>

\* The runtime may catch the range loop and the map write in the act: a
\* fatal error no recover can stop.
MapFatal ==
  /\ host \in {"cancelled", "closing"}
  /\ pc = "insert"
  /\ host' = "crashed"
  /\ UNCHANGED <<ctx, pc, goVars, ticker, clients, closeLeft, poolVars>>

-----------------------------------------------------------------------------
(* The goroutine: scrapeCycle, getPMTRedfish, discoverRedfishAggregator.   *)

Alive == host # "crashed"

ScrapeBegins ==
  /\ Alive
  /\ pc = "cycle"
  /\ pc' = "next"
  /\ todo' = Endpoints
  /\ found' = {}
  /\ UNCHANGED <<host, ctx, cur, postBody, ticker, clients, closeLeft, poolVars>>

\* Mutation: the client is made anew on every visit.
VisitEndpointUncached(e) ==
  /\ Alive
  /\ pc = "next"
  /\ e \in todo
  /\ todo' = todo \ {e}
  /\ cur' = e
  /\ pc' = "client"
  /\ UNCHANGED <<host, ctx, found, postBody, ticker, clients, closeLeft, poolVars>>

VisitEndpoint(e) ==
  /\ Alive
  /\ pc = "next"
  /\ e \in todo
  /\ todo' = todo \ {e}
  /\ cur' = e
  /\ pc' = IF e \in clients THEN "request" ELSE "client"
  /\ UNCHANGED <<host, ctx, found, postBody, ticker, clients, closeLeft, poolVars>>

\* ToClient fails (a bad TLS or auth setting): the endpoint is skipped.
ClientFails ==
  /\ Alive
  /\ pc = "client"
  /\ cur \notin Healthy
  /\ pc' = "next"
  /\ UNCHANGED <<host, ctx, goVars, ticker, clients, closeLeft, poolVars>>

\* The write to ipr.httpClients, which takes time ...
InsertBegins ==
  /\ Alive
  /\ pc = "client"
  /\ pc' = "insert"
  /\ UNCHANGED <<host, ctx, goVars, ticker, clients, closeLeft, poolVars>>

\* ... and whose key a range loop under way may or may not visit.
InsertEnds ==
  /\ Alive
  /\ pc = "insert"
  /\ pc' = "request"
  /\ clients' = clients \cup {cur}
  /\ \/ closeLeft' = closeLeft
     \/ host = "closing" /\ closeLeft' = closeLeft \cup {cur}
  /\ UNCHANGED <<host, ctx, goVars, ticker, poolVars>>

\* Mutation: the POST's body is not closed.
ReturnPostBodyOpen(n, back) ==
  /\ pc' = "next"
  /\ postBody' = FALSE
  /\ Release(cur, n, back)
  /\ UNCHANGED <<host, ctx, todo, cur, ticker, clients, closeLeft>>

\* discoverRedfishAggregator returns, with the deferred Close of the POST's
\* body; n more connections end, one returning to the pool if back.
Return(n, back) ==
  /\ pc' = "next"
  /\ postBody' = FALSE
  /\ Release(cur, n + (IF postBody THEN 1 ELSE 0), back)
  /\ UNCHANGED <<host, ctx, todo, cur, ticker, clients, closeLeft>>

\* A trigger parameter that is not JSON, a URL that does not parse.
RequestInvalid ==
  /\ Alive
  /\ pc \in {"request", "triggered"}
  /\ cur \notin Healthy
  /\ Return(0, FALSE)
  /\ UNCHANGED found

\* client.Do refuses a request whose context is already cancelled.
RequestRefused ==
  /\ Alive
  /\ pc \in {"request", "triggered"}
  /\ ctx = "cancelled"
  /\ Return(0, FALSE)
  /\ UNCHANGED found

\* Mutation: the request does not carry the receiver's context.
SendWithoutContext(from, to) ==
  /\ Alive
  /\ pc = from
  /\ pc' = to
  /\ Acquire(cur)
  /\ UNCHANGED <<host, ctx, goVars, ticker, clients, closeLeft>>

Send(from, to) ==
  /\ Alive
  /\ pc = from
  /\ ctx = "live"
  /\ pc' = to
  /\ Acquire(cur)
  /\ UNCHANGED <<host, ctx, goVars, ticker, clients, closeLeft>>

SendPost == cur \in Triggered /\ Send("request", "post")

SendGet ==
  \/ cur \notin Triggered /\ Send("request", "get")
  \/ Send("triggered", "get")

\* Mutation: a POST body is taken for open although it was empty.
PostAcceptedAlwaysOpen(empty) ==
  /\ Alive
  /\ pc = "post"
  /\ pc' = "triggered"
  /\ postBody' = TRUE
  /\ IF empty THEN Release(cur, 1, TRUE) ELSE UNCHANGED poolVars
  /\ UNCHANGED <<host, ctx, todo, cur, found, ticker, clients, closeLeft>>

\* An empty body frees the connection at once; another stays open, unread,
\* until the function returns.
PostAccepted(empty) ==
  /\ Alive
  /\ pc = "post"
  /\ pc' = "triggered"
  /\ postBody' = ~empty
  /\ IF empty THEN Release(cur, 1, TRUE) ELSE UNCHANGED poolVars
  /\ UNCHANGED <<host, ctx, todo, cur, found, ticker, clients, closeLeft>>

\* Mutation: an endpoint's bad status ends the loop over the endpoints.
BadStatusEndsLoop(empty) ==
  /\ Alive
  /\ pc \in {"post", "get"}
  /\ cur \notin Healthy
  /\ pc' = "next"
  /\ todo' = {}
  /\ postBody' = FALSE
  /\ Release(cur, 1 + (IF postBody THEN 1 ELSE 0), empty)
  /\ UNCHANGED <<host, ctx, cur, found, ticker, clients, closeLeft>>

\* Status outside 200..299: the body is closed unread.
BadStatus(empty) ==
  /\ Alive
  /\ pc \in {"post", "get"}
  /\ cur \notin Healthy
  /\ Return(1, empty)
  /\ UNCHANGED found

GetAccepted ==
  /\ Alive
  /\ pc = "get"
  /\ pc' = "body"
  /\ UNCHANGED <<host, ctx, goVars, ticker, clients, closeLeft, poolVars>>

\* Mutation: a request outlives the cancelled context.
RequestFailsUncancelled ==
  /\ Alive
  /\ OnWire
  /\ cur \notin Healthy
  /\ ctx = "live"
  /\ Return(1, FALSE)
  /\ UNCHANGED found

\* The request or the read of its body fails: the network, the server, the
\* client's timeout, or the cancelled context.
RequestFails ==
  /\ Alive
  /\ OnWire
  /\ cur \notin Healthy \/ ctx = "cancelled"
  /\ Return(1, FALSE)
  /\ UNCHANGED found

\* The body is read to its end; usable says that it is JSON and that at least
\* one aggregator in it was looked up and set up.
BodyRead(usable) ==
  /\ Alive
  /\ pc = "body"
  /\ cur \in Healthy => usable
  /\ Return(1, TRUE)
  /\ found' = IF usable THEN found \cup {cur} ELSE found

ScrapeEnds ==
  /\ Alive
  /\ pc = "next"
  /\ todo = {}
  /\ pc' = "consume"
  /\ UNCHANGED <<host, ctx, goVars, ticker, clients, closeLeft, poolVars>>

\* Mutation: no ticker is made.
ConsumeReturnsNoTicker ==
  /\ Alive
  /\ pc = "consume"
  /\ pc' = "select"
  /\ UNCHANGED <<host, ctx, goVars, ticker, clients, closeLeft, poolVars>>

\* ConsumeMetrics returns, nil or an error that is only logged; after the
\* first cycle the ticker is made.
ConsumeReturns ==
  /\ Alive
  /\ pc = "consume"
  /\ pc' = "select"
  /\ ticker' = IF ticker = "none" THEN "empty" ELSE ticker
  /\ UNCHANGED <<host, ctx, goVars, clients, closeLeft, poolVars>>

\* time.Ticker drops the tick when its channel is full.
Tick ==
  /\ Alive
  /\ ticker = "empty"
  /\ ticker' = "full"
  /\ UNCHANGED <<host, ctx, pc, goVars, clients, closeLeft, poolVars>>

SelectTick ==
  /\ Alive
  /\ pc = "select"
  /\ ticker = "full"
  /\ ticker' = "empty"
  /\ pc' = "cycle"
  /\ UNCHANGED <<host, ctx, goVars, clients, closeLeft, poolVars>>

SelectDone ==
  /\ Alive
  /\ pc = "select"
  /\ ctx = "cancelled"
  /\ pc' = "done"
  /\ ticker' = "none"
  /\ UNCHANGED <<host, ctx, goVars, clients, closeLeft, poolVars>>

\* Nothing is left to happen.
Finished ==
  /\ host = "crashed" \/ (host = "stopped" /\ Quiet)
  /\ UNCHANGED vars

-----------------------------------------------------------------------------

Shutdown ==
  \/ ShutdownCancel
  \/ ShutdownRange
  \/ \E e \in Endpoints : ShutdownClose(e)
  \/ ShutdownReturns

Reply ==
  \/ \E empty \in BOOLEAN : PostAccepted(empty) \/ BadStatus(empty)
  \/ GetAccepted
  \/ \E usable \in BOOLEAN : BodyRead(usable)

\* What the goroutine does by itself, with no answer from outside.
Step ==
  \/ ScrapeBegins
  \/ \E e \in Endpoints : VisitEndpoint(e)
  \/ ClientFails
  \/ InsertBegins
  \/ InsertEnds
  \/ RequestInvalid
  \/ RequestRefused
  \/ SendPost
  \/ SendGet
  \/ ScrapeEnds

Next ==
  \/ StartFails
  \/ StartBadInterval
  \/ Start
  \/ Shutdown
  \/ MapFatal
  \/ Step
  \/ Reply
  \/ RequestFails
  \/ ConsumeReturns
  \/ Tick
  \/ SelectTick
  \/ SelectDone
  \/ Finished

Spec == Init /\ [][Next]_vars

-----------------------------------------------------------------------------
(* Fairness.  A runnable goroutine runs.  A request ends when its context  *)
(* is cancelled or its client's timeout passes, and only then for sure: a  *)
(* silent server owes nothing.  A healthy server answers.  The downstream  *)
(* consumer returns.  Go's select picks uniformly among the ready cases,   *)
(* so a case that is ready again and again is picked: strong fairness.     *)

Expires == (ctx = "cancelled" \/ cur \in Timed) /\ RequestFails
Answers == cur \in Healthy /\ Reply

Fairness ==
  /\ WF_vars(Step)
  /\ WF_vars(Expires)
  /\ WF_vars(Answers)
  /\ WF_vars(ConsumeReturns)
  /\ WF_vars(Tick)
  /\ SF_vars(SelectTick)
  /\ SF_vars(SelectDone)
  /\ WF_vars(ShutdownRange \/ ShutdownReturns \/ \E e \in Endpoints : ShutdownClose(e))

FairSpec == Spec /\ Fairness

-----------------------------------------------------------------------------
(* Properties.                                                             *)

\* Once Shutdown has returned and the goroutine has ended, no connection to
\* any endpoint is left, in use or idle.  It takes the order of Shutdown
\* (cancel first, then close), the context in every request and the deferred
\* closes together: receiver.go:254-268, 578-611.
NoConnectionLeft ==
  host = "stopped" /\ Quiet => \A e \in Endpoints : busy[e] = 0 /\ idle[e] = 0

\* Between visits no endpoint has a connection in use, and no endpoint ever
\* has more than two open (a POST whose body is unread, and the GET): no
\* return path of discoverRedfishAggregator forgets a body.
ConnectionsBounded ==
  /\ ~Exchanging => \A e \in Endpoints : busy[e] = 0
  /\ \A e \in Endpoints : busy[e] + idle[e] <= 2

\* A batch handed to the consumer holds every healthy endpoint, whatever the
\* other endpoints did: a failed endpoint is skipped, the loop continues
\* (receiver.go:463-468).
HealthyEndpointsReported ==
  pc = "consume" /\ ctx = "live" => Healthy \subseteq found

\* The process can be killed by a concurrent map use only while some endpoint
\* has no client yet: once every client exists, Shutdown is race-free
\* (receiver.go:261 against 540).
FatalOnlyWhileClientsMissing ==
  [][Alive /\ ~Alive' => clients # Endpoints]_vars

\* Once Shutdown has cancelled the context the goroutine ends, also when an
\* endpoint never answers and has no timeout (or the process is killed).
GoroutineStops ==
  ctx = "cancelled" ~> (Quiet \/ ~Alive)

\* A running receiver reports every healthy endpoint again and again, until it
\* is shut down or hangs for ever on an endpoint that is neither healthy nor
\* has a timeout: the endpoints are visited one after the other by one
\* goroutine, and only such an endpoint can stop it.
HealthyAlwaysReportedAgain ==
  <>(host = "running") =>
    \/ <>(ctx = "cancelled")
    \/ <>[](OnWire /\ cur \notin Healthy \cup Timed)
    \/ \A e \in Healthy : []<>(pc = "consume" /\ e \in found)

\* The comment of receiver.go:255, "Cancel the context to stop the scraping
\* goroutine": no scrape begins once Shutdown has returned.
NoScrapeAfterShutdown ==
  [][host = "stopped" => ~(pc = "cycle" /\ pc' = "next")]_vars

-----------------------------------------------------------------------------
(* The receiver keeps the promise of ScrapeLoop.                           *)

LoopPhase ==
  CASE host = "crashed" -> "crashed"
    [] host = "stopped" /\ Quiet -> "gone"
    [] host \in {"cancelled", "closing", "stopped"} /\ ~(host = "stopped" /\ Quiet)
         -> "stopping"
    [] host = "running" -> "up"
    [] OTHER -> "new"

Loop == INSTANCE ScrapeLoop WITH
  phase <- LoopPhase,
  scraping <- pc \notin {"none", "select", "done"},
  connected <- {e \in Endpoints : busy[e] + idle[e] > 0}

\* Every step of the receiver is a step of ScrapeLoop or leaves it unchanged.
RefinesScrapeLoop == Loop!Spec
=============================================================================
