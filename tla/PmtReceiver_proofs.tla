------------------------- MODULE PmtReceiver_proofs -------------------------
(***************************************************************************)
(* Proofs about PmtReceiver, for any finite set of endpoints.              *)
(***************************************************************************)
EXTENDS PmtReceiver, TLAPS

\* What the collector's progress says of the context and the goroutine.
ContextInv ==
  /\ host = "created" => ctx = "none"
  /\ host \in {"created", "failed"} => pc = "none"
  /\ host = "running" => ctx = "live"
  /\ host \in {"cancelled", "closing", "stopped"} => ctx # "live"
  /\ pc # "none" => ctx # "none"

\* The endpoint being visited, and its client.
VisitInv ==
  /\ pc \in {"client", "insert"} => cur \in Endpoints \ clients
  /\ Exchanging => cur \in clients
  /\ postBody => pc \in {"triggered", "get", "body"}

\* How many connections the goroutine's position keeps in use.
InUse(e) ==
  IF e = cur /\ Exchanging
  THEN (IF OnWire THEN 1 ELSE 0) + (IF postBody THEN 1 ELSE 0)
  ELSE 0

PoolInv ==
  \A e \in Endpoints :
    /\ busy[e] = InUse(e)
    /\ busy[e] + idle[e] <= 2
    /\ e \notin clients => idle[e] = 0

\* What Shutdown's loop has reached stays empty, whatever the goroutine does.
CloseInv ==
  /\ host \in {"closing", "stopped"} =>
       \A e \in Endpoints \ closeLeft :
         idle[e] = 0 /\ (closeIdle[e] \/ busy[e] = 0)
  /\ host = "stopped" => closeLeft = {}

\* A healthy endpoint has answered, is being visited or is still to be.
HealthInv ==
  ctx = "live" =>
    /\ pc = "next" => Healthy \subseteq found \cup todo
    /\ pc \in {"client", "insert"} \/ Exchanging =>
         Healthy \subseteq found \cup todo \cup {cur}
    /\ pc = "consume" => Healthy \subseteq found

IInv ==
  /\ TypeOK
  /\ ContextInv
  /\ VisitInv
  /\ PoolInv
  /\ CloseInv
  /\ HealthInv

-----------------------------------------------------------------------------

\* The invariant holds before Start (receiver.go: the zero receiver of
\* factory.go:38-57).
LEMMA InitIInv == Init => IInv
<1> SUFFICES ASSUME Init PROVE IInv
  OBVIOUS
<1>1. TypeOK
  BY DEF Init, TypeOK, HostStates, PcStates
<1>2. ContextInv /\ VisitInv /\ HealthInv
  BY DEF Init, ContextInv, VisitInv, HealthInv, Exchanging
<1>3. PoolInv
  BY DEF Init, PoolInv, InUse, Exchanging
<1>4. CloseInv
  BY DEF Init, CloseInv
<1> QED  BY <1>1, <1>2, <1>3, <1>4 DEF IInv

\* Every return of discoverRedfishAggregator, error or not, keeps the
\* invariant when it ends as many connections as are in use (the deferred
\* Close calls of receiver.go:590 and 611).
LEMMA ReturnIInv ==
  ASSUME IInv, Alive, Exchanging,
         NEW back \in BOOLEAN, NEW n \in {0, 1},
         n = IF OnWire THEN 1 ELSE 0,
         back => n = 1,
         Return(n, back),
         found \subseteq found', found' \subseteq Endpoints,
         ctx = "live" => cur \notin Healthy \/ cur \in found'
  PROVE  IInv'
<1> USE DEF IInv
<1>1. cur \in Endpoints /\ cur \in clients /\ busy[cur] = n + (IF postBody THEN 1 ELSE 0)
  BY DEF TypeOK, VisitInv, PoolInv, InUse
<1>2. busy' = [busy EXCEPT ![cur] = 0]
  BY <1>1 DEF Return, Release, TypeOK
<1>3. \A e \in Endpoints :
        /\ busy'[e] = 0
        /\ e # cur => idle'[e] = idle[e]
  BY <1>1, <1>2 DEF Return, Release, TypeOK, PoolInv, InUse
<1>4. /\ idle'[cur] = IF back /\ ~closeIdle[cur] THEN idle[cur] + 1 ELSE idle[cur]
      /\ idle' \in [Endpoints -> Nat]
      /\ closeIdle' = closeIdle
  BY <1>1 DEF Return, Release, TypeOK
<1>5. TypeOK'
  BY <1>2, <1>4 DEF Return, TypeOK, PcStates
<1>6. ContextInv'
  BY DEF Return, ContextInv, Exchanging
<1>7. VisitInv'
  BY DEF Return, VisitInv, Exchanging
<1>8. PoolInv'
  <2> SUFFICES ASSUME NEW e \in Endpoints
               PROVE  /\ busy'[e] = 0
                      /\ busy'[e] + idle'[e] <= 2
                      /\ e \notin clients => idle'[e] = 0
    BY DEF Return, PoolInv, InUse, Exchanging
  <2>1. CASE e = cur
    BY <2>1, <1>1, <1>3, <1>4 DEF PoolInv, TypeOK
  <2>2. CASE e # cur
    BY <2>2, <1>3 DEF PoolInv, TypeOK
  <2> QED  BY <2>1, <2>2
<1>9. CloseInv'
  BY <1>1, <1>3, <1>4 DEF Return, CloseInv, TypeOK
<1>10. HealthInv'
  BY DEF Return, HealthInv, Exchanging
<1> QED  BY <1>5, <1>6, <1>7, <1>8, <1>9, <1>10

\* Every step of the collector and of the goroutine keeps the invariant.
LEMMA NextIInv == IInv /\ [Next]_vars => IInv'
<1> SUFFICES ASSUME IInv, [Next]_vars PROVE IInv'
  OBVIOUS
<1> USE DEF IInv
<1>1. CASE StartFails \/ StartBadInterval \/ Start
  <2>1. TypeOK' /\ ContextInv'
    BY <1>1 DEF StartFails, StartBadInterval, Start, TypeOK, HostStates, PcStates,
                ContextInv, goVars, poolVars
  <2>2. VisitInv' /\ PoolInv' /\ CloseInv' /\ HealthInv'
    BY <1>1 DEF StartFails, StartBadInterval, Start, ContextInv, VisitInv, PoolInv,
                InUse, CloseInv, HealthInv, Exchanging, OnWire, goVars, poolVars
  <2> QED  BY <2>1, <2>2
<1>2. CASE ShutdownCancel \/ ShutdownRange \/ ShutdownReturns \/ MapFatal
  <2> USE <1>2 DEF ShutdownCancel, ShutdownRange, ShutdownReturns, MapFatal,
                   goVars, poolVars
  <2>1. TypeOK' /\ ContextInv'
    BY DEF TypeOK, HostStates, ContextInv
  <2>2. VisitInv' /\ HealthInv'
    BY DEF VisitInv, HealthInv, ContextInv, Exchanging
  <2>3. PoolInv'
    BY DEF PoolInv, InUse, Exchanging, OnWire
  <2>4. CloseInv'
    BY DEF CloseInv, PoolInv, InUse, VisitInv
  <2> QED  BY <2>1, <2>2, <2>3, <2>4
<1>3. ASSUME NEW e \in Endpoints, ShutdownClose(e) PROVE IInv'
  <2> USE <1>3 DEF ShutdownClose, CloseIdleConnections, goVars
  <2>1. TypeOK' /\ ContextInv'
    BY DEF TypeOK, ContextInv
  <2>2. VisitInv' /\ HealthInv'
    BY DEF VisitInv, HealthInv, Exchanging
  <2>3. PoolInv'
    BY DEF PoolInv, InUse, Exchanging, OnWire, TypeOK
  <2>4. CloseInv'
    BY DEF CloseInv, TypeOK
  <2> QED  BY <2>1, <2>2, <2>3, <2>4
<1>4. CASE ScrapeBegins \/ ScrapeEnds \/ ConsumeReturns \/ Tick \/ SelectTick \/ SelectDone
  <2> USE <1>4 DEF ScrapeBegins, ScrapeEnds, ConsumeReturns, Tick, SelectTick,
                   SelectDone, goVars, poolVars
  <2>1. TypeOK' /\ ContextInv'
    BY DEF TypeOK, PcStates, ContextInv
  <2>2. VisitInv' /\ HealthInv'
    BY EndpointsAssumption DEF VisitInv, HealthInv, Exchanging
  <2>3. PoolInv'
    BY DEF PoolInv, InUse, Exchanging, OnWire
  <2>4. CloseInv'
    BY DEF CloseInv
  <2> QED  BY <2>1, <2>2, <2>3, <2>4
<1>5. ASSUME NEW e \in Endpoints, VisitEndpoint(e) PROVE IInv'
  <2> USE <1>5 DEF VisitEndpoint, poolVars
  <2>1. TypeOK' /\ ContextInv'
    BY DEF TypeOK, PcStates, ContextInv
  <2>2. VisitInv' /\ HealthInv'
    BY DEF VisitInv, HealthInv, Exchanging
  <2>3. PoolInv'
    BY DEF PoolInv, InUse, Exchanging, OnWire, VisitInv
  <2>4. CloseInv'
    BY DEF CloseInv
  <2> QED  BY <2>1, <2>2, <2>3, <2>4
<1>6. CASE ClientFails \/ InsertBegins \/ InsertEnds
  <2> USE <1>6 DEF ClientFails, InsertBegins, InsertEnds, goVars, poolVars
  <2>1. TypeOK' /\ ContextInv'
    BY DEF TypeOK, PcStates, ContextInv, VisitInv
  <2>2. VisitInv' /\ HealthInv'
    BY DEF VisitInv, HealthInv, Exchanging
  <2>3. PoolInv'
    BY DEF PoolInv, InUse, Exchanging, OnWire, VisitInv
  <2>4. CloseInv'
    BY DEF CloseInv
  <2> QED  BY <2>1, <2>2, <2>3, <2>4
<1>7. CASE RequestInvalid \/ RequestRefused
  <2>1. Alive /\ Exchanging /\ ~OnWire /\ Return(0, FALSE) /\ found' = found
    BY <1>7 DEF RequestInvalid, RequestRefused, Exchanging, OnWire
  <2>2. ctx = "live" => cur \notin Healthy
    BY <1>7 DEF RequestInvalid, RequestRefused
  <2> QED  BY <2>1, <2>2, ReturnIInv DEF TypeOK
<1>8. ASSUME NEW from \in {"request", "triggered"}, NEW to \in {"post", "get"},
             from = "triggered" => to = "get",
             Send(from, to)
      PROVE  IInv'
  <2> USE <1>8 DEF Send, Acquire, goVars
  <2>1. cur \in clients /\ cur \in Endpoints
    BY DEF VisitInv, TypeOK, Exchanging
  <2>2. TypeOK' /\ ContextInv'
    <3>1. busy' \in [Endpoints -> Nat] /\ idle' \in [Endpoints -> Nat]
      BY <2>1 DEF TypeOK
    <3> QED  BY <3>1 DEF TypeOK, PcStates, ContextInv
  <2>3. VisitInv' /\ HealthInv'
    BY DEF VisitInv, HealthInv, Exchanging
  <2>4. PoolInv'
    <3> SUFFICES ASSUME NEW e \in Endpoints
                 PROVE  /\ busy'[e] = InUse(e)'
                        /\ busy'[e] + idle'[e] <= 2
                        /\ e \notin clients => idle'[e] = 0
      BY DEF PoolInv
    <3>1. CASE e = cur
      BY <2>1, <3>1 DEF PoolInv, InUse, Exchanging, OnWire, TypeOK
    <3>2. CASE e # cur
      BY <3>2 DEF PoolInv, InUse, TypeOK
    <3> QED  BY <3>1, <3>2
  <2>5. CloseInv'
    BY DEF CloseInv, ContextInv
  <2> QED  BY <2>2, <2>3, <2>4, <2>5
<1>9. CASE SendPost \/ SendGet
  BY <1>8, <1>9 DEF SendPost, SendGet
<1>10. ASSUME NEW empty \in BOOLEAN, PostAccepted(empty) PROVE IInv'
  <2> USE <1>10 DEF PostAccepted
  <2>1. /\ cur \in clients /\ cur \in Endpoints
        /\ ~postBody
        /\ busy[cur] = 1
    BY DEF VisitInv, TypeOK, PoolInv, InUse, Exchanging, OnWire
  <2>2. ContextInv' /\ VisitInv' /\ HealthInv'
    BY DEF ContextInv, VisitInv, HealthInv, Exchanging
  <2>3. CASE empty
    <3>1. /\ closeIdle' = closeIdle
          /\ busy' = [busy EXCEPT ![cur] = 0]
          /\ idle' = [idle EXCEPT ![cur] = IF ~closeIdle[cur] THEN @ + 1 ELSE @]
      BY <2>1, <2>3 DEF Release, TypeOK
    <3>2. TypeOK'
      BY <2>1, <3>1 DEF TypeOK, PcStates
    <3>3. PoolInv'
      <4> SUFFICES ASSUME NEW e \in Endpoints
                   PROVE  /\ busy'[e] = InUse(e)'
                          /\ busy'[e] + idle'[e] <= 2
                          /\ e \notin clients => idle'[e] = 0
        BY DEF PoolInv
      <4>1. CASE e = cur
        BY <2>1, <2>3, <3>1, <4>1 DEF PoolInv, InUse, Exchanging, OnWire, TypeOK
      <4>2. CASE e # cur
        BY <3>1, <4>2 DEF PoolInv, InUse, TypeOK
      <4> QED  BY <4>1, <4>2
    <3>4. CloseInv'
      BY <2>1, <3>1 DEF CloseInv, TypeOK
    <3> QED  BY <2>2, <3>2, <3>3, <3>4
  <2>4. CASE ~empty
    <3>1. UNCHANGED <<busy, idle, closeIdle>> /\ postBody' = TRUE
      BY <2>4 DEF poolVars
    <3>2. TypeOK' /\ CloseInv'
      BY <3>1 DEF TypeOK, PcStates, CloseInv
    <3>3. PoolInv'
      BY <2>1, <3>1 DEF PoolInv, InUse, Exchanging, OnWire
    <3> QED  BY <2>2, <3>2, <3>3
  <2> QED  BY <2>3, <2>4
<1>11. ASSUME NEW empty \in BOOLEAN, BadStatus(empty) PROVE IInv'
  <2>1. Alive /\ Exchanging /\ OnWire /\ Return(1, empty) /\ found' = found /\ cur \notin Healthy
    BY <1>11 DEF BadStatus, Exchanging, OnWire
  <2> QED  BY <2>1, ReturnIInv DEF TypeOK
<1>12. CASE GetAccepted
  <2> USE <1>12 DEF GetAccepted, goVars, poolVars
  <2>1. TypeOK' /\ ContextInv'
    BY DEF TypeOK, PcStates, ContextInv
  <2>2. VisitInv' /\ HealthInv'
    BY DEF VisitInv, HealthInv, Exchanging
  <2>3. PoolInv'
    BY DEF PoolInv, InUse, Exchanging, OnWire
  <2>4. CloseInv'
    BY DEF CloseInv
  <2> QED  BY <2>1, <2>2, <2>3, <2>4
<1>13. CASE RequestFails
  <2>1. Alive /\ Exchanging /\ OnWire /\ Return(1, FALSE) /\ found' = found
    BY <1>13 DEF RequestFails, Exchanging, OnWire
  <2>2. ctx = "live" => cur \notin Healthy
    BY <1>13 DEF RequestFails
  <2> QED  BY <2>1, <2>2, ReturnIInv DEF TypeOK
<1>14. ASSUME NEW usable \in BOOLEAN, BodyRead(usable) PROVE IInv'
  <2>1. Alive /\ Exchanging /\ OnWire /\ Return(1, TRUE)
    BY <1>14 DEF BodyRead, Exchanging, OnWire
  <2>2. /\ found \subseteq found' /\ found' \subseteq Endpoints
        /\ cur \notin Healthy \/ cur \in found'
    BY <1>14, <2>1 DEF BodyRead, VisitInv, TypeOK
  <2> QED  BY <2>1, <2>2, ReturnIInv
<1>15. CASE UNCHANGED vars
  <2> USE <1>15 DEF vars, goVars, poolVars
  <2>1. TypeOK' /\ ContextInv' /\ VisitInv'
    BY DEF TypeOK, ContextInv, VisitInv, Exchanging
  <2>2. PoolInv' /\ CloseInv' /\ HealthInv'
    BY DEF PoolInv, InUse, CloseInv, HealthInv, Exchanging, OnWire
  <2> QED  BY <2>1, <2>2
<1> QED
  BY <1>1, <1>2, <1>3, <1>4, <1>5, <1>6, <1>7, <1>9, <1>10, <1>11, <1>12, <1>13,
     <1>14, <1>15
  DEF Next, Shutdown, Step, Reply, Finished

\* The invariant holds in every reachable state.
THEOREM Invariance == Spec => []IInv
<1>1. Init => IInv
  BY InitIInv
<1>2. IInv /\ [Next]_vars => IInv'
  BY NextIInv
<1> QED  BY <1>1, <1>2, PTL DEF Spec

-----------------------------------------------------------------------------

\* Type correctness of the receiver's state.
THEOREM TypeCorrect == Spec => []TypeOK
<1>1. IInv => TypeOK
  BY DEF IInv
<1> QED  BY <1>1, Invariance, PTL

\* A receiver that is shut down holds no connection (receiver.go:254-268).
THEOREM NothingLeft == Spec => []NoConnectionLeft
<1>1. IInv => NoConnectionLeft
  <2> SUFFICES ASSUME IInv, host = "stopped", Quiet, NEW e \in Endpoints
               PROVE  busy[e] = 0 /\ idle[e] = 0
    BY DEF NoConnectionLeft
  <2>1. busy[e] = 0
    BY DEF IInv, PoolInv, InUse, Quiet, Exchanging
  <2>2. idle[e] = 0
    BY DEF IInv, CloseInv
  <2> QED  BY <2>1, <2>2
<1> QED  BY <1>1, Invariance, PTL

\* No return path keeps a connection in use, and an endpoint never has more
\* than two (receiver.go:544-647).
THEOREM FewConnections == Spec => []ConnectionsBounded
<1>1. IInv => ConnectionsBounded
  BY DEF IInv, PoolInv, InUse, ConnectionsBounded
<1> QED  BY <1>1, Invariance, PTL

\* The endpoints that answer are in every batch (receiver.go:463-468).
THEOREM HealthyReported == Spec => []HealthyEndpointsReported
<1>1. IInv => HealthyEndpointsReported
  BY DEF IInv, HealthInv, HealthyEndpointsReported
<1> QED  BY <1>1, Invariance, PTL

\* Shutdown can crash the process only while an endpoint has no client
\* (receiver.go:261 and 540).
THEOREM FatalOnlyEarly == Spec => FatalOnlyWhileClientsMissing
<1>1. IInv /\ [Next]_vars => [Alive /\ ~Alive' => clients # Endpoints]_vars
  <2> SUFFICES ASSUME IInv, Next, Alive, ~Alive'
               PROVE  clients # Endpoints
    BY DEF vars, Alive
  <2>1. MapFatal
    BY DEF Next, Shutdown, Step, Reply, Alive, StartFails, StartBadInterval, Start,
           ShutdownCancel, ShutdownRange, ShutdownClose, ShutdownReturns,
           ScrapeBegins, VisitEndpoint, ClientFails, InsertBegins, InsertEnds,
           RequestInvalid, RequestRefused, Return, SendPost, SendGet, Send,
           PostAccepted, BadStatus, GetAccepted, BodyRead, RequestFails, ScrapeEnds,
           ConsumeReturns, Tick, SelectTick, SelectDone, Finished, vars
  <2> QED  BY <2>1 DEF MapFatal, IInv, VisitInv
<1> QED  BY <1>1, Invariance, PTL DEF Spec, FatalOnlyWhileClientsMissing

-----------------------------------------------------------------------------
(* The receiver implements ScrapeLoop.                                     *)

LoopScraping == pc \notin {"none", "select", "done"}
LoopConnected == {e \in Endpoints : busy[e] + idle[e] > 0}

\* What holds when the receiver is gone: no connection (receiver.go:254-268).
LEMMA GoneHoldsNothing == IInv /\ host = "stopped" /\ Quiet => LoopConnected = {}
  BY DEF IInv, TypeOK, PoolInv, InUse, CloseInv, Quiet, Exchanging, LoopConnected

\* The end of an exchange opens no connection (receiver.go:590, 611).
LEMMA ReturnShrinks ==
  ASSUME IInv, Exchanging, NEW back \in BOOLEAN, NEW n \in {0, 1},
         n = IF OnWire THEN 1 ELSE 0, back => n = 1, Return(n, back)
  PROVE  LoopConnected' \subseteq LoopConnected
<1> USE DEF IInv
<1>1. cur \in Endpoints /\ busy[cur] = n + (IF postBody THEN 1 ELSE 0)
  BY DEF TypeOK, VisitInv, PoolInv, InUse
<1>2. \A e \in Endpoints :
        e # cur => busy'[e] = busy[e] /\ idle'[e] = idle[e]
  BY <1>1 DEF Return, Release, TypeOK
<1>3. /\ busy'[cur] = 0
      /\ idle'[cur] = IF back /\ ~closeIdle[cur] THEN idle[cur] + 1 ELSE idle[cur]
  BY <1>1 DEF Return, Release, TypeOK
<1>4. busy'[cur] + idle'[cur] > 0 => busy[cur] + idle[cur] > 0
  BY <1>1, <1>3 DEF TypeOK
<1> QED  BY <1>1, <1>2, <1>4 DEF LoopConnected

\* While the goroutine runs, the receiver is up or stopping.
LEMMA PhaseOfGoroutine ==
  ASSUME IInv, Alive, ~Quiet
  PROVE  LoopPhase = IF host = "running" THEN "up" ELSE "stopping"
  BY DEF IInv, TypeOK, HostStates, ContextInv, Alive, Quiet, LoopPhase

\* A step that changes connections only, while the goroutine is in an exchange.
LEMMA WorkStep ==
  ASSUME IInv, Alive, Exchanging, host' = host, ctx' = ctx,
         pc' \notin {"none", "select", "done"},
         host = "running" \/ LoopConnected' \subseteq LoopConnected
  PROVE  Loop!Work
<1>1. ~Quiet /\ ~Quiet' /\ LoopScraping /\ LoopScraping'
  BY DEF Exchanging, Quiet, LoopScraping
<1>2. LoopPhase = (IF host = "running" THEN "up" ELSE "stopping") /\ LoopPhase' = LoopPhase
  BY <1>1, PhaseOfGoroutine DEF LoopPhase
<1>3. LoopConnected' \in SUBSET Endpoints
  BY DEF LoopConnected
<1> QED  BY <1>1, <1>2, <1>3 DEF Loop!Work, LoopScraping, LoopConnected

\* Every step of the receiver is one of ScrapeLoop, or invisible to it.
LEMMA StepRefines == IInv /\ IInv' /\ [Next]_vars => [Loop!Next]_(Loop!vars)
<1>0. (IInv /\ host = "stopped" /\ Quiet => LoopConnected = {})'
  BY GoneHoldsNothing, PTL
<1> SUFFICES ASSUME IInv, IInv', [Next]_vars
             PROVE  Loop!Next \/ UNCHANGED <<LoopPhase, LoopScraping, LoopConnected>>
  BY DEF Loop!vars, LoopScraping, LoopConnected
<1> DEFINE Same == UNCHANGED <<LoopPhase, LoopScraping, LoopConnected>>
<1>1. CASE StartFails \/ StartBadInterval
  <2>1. Same
    BY <1>1 DEF StartFails, StartBadInterval, IInv, ContextInv, LoopPhase, LoopScraping,
                LoopConnected, Quiet, poolVars, goVars
  <2> QED  BY <2>1
<1>2. CASE Start
  <2>1. Loop!Boot
    BY <1>2 DEF Start, Loop!Boot, IInv, ContextInv, LoopPhase, Quiet, poolVars, goVars
  <2> QED  BY <2>1 DEF Loop!Next
<1>3. CASE ShutdownCancel
  <2>1. Loop!Stop
    BY <1>3 DEF ShutdownCancel, Loop!Stop, LoopPhase, Quiet, poolVars, goVars
  <2> QED  BY <2>1 DEF Loop!Next
<1>4. CASE ShutdownRange
  <2>1. Same
    BY <1>4 DEF ShutdownRange, LoopPhase, LoopScraping, LoopConnected, Quiet, poolVars, goVars
  <2> QED  BY <2>1
<1>5. ASSUME NEW e \in Endpoints, ShutdownClose(e) PROVE Loop!Next
  <2>1. LoopConnected' \subseteq LoopConnected
    BY <1>5 DEF ShutdownClose, CloseIdleConnections, LoopConnected, IInv, TypeOK
  <2>2. LoopPhase = "stopping" /\ LoopPhase' = "stopping" /\ LoopScraping' = LoopScraping
    BY <1>5 DEF ShutdownClose, LoopPhase, LoopScraping, goVars
  <2>3. Loop!Work
    BY <2>1, <2>2 DEF Loop!Work, LoopScraping, LoopConnected
  <2> QED  BY <2>3 DEF Loop!Next
<1>6. CASE ShutdownReturns
  <2>1. LoopPhase = "stopping" /\ LoopScraping' = LoopScraping /\ LoopConnected' = LoopConnected
    BY <1>6 DEF ShutdownReturns, LoopPhase, LoopScraping, LoopConnected, poolVars
  <2>2. CASE Quiet
    <3>1. LoopPhase' = "gone" /\ Quiet' /\ ~LoopScraping
      BY <1>6, <2>2 DEF ShutdownReturns, LoopPhase, LoopScraping, Quiet
    <3>2. LoopConnected' = {}
      BY <1>0, <1>6, <3>1 DEF ShutdownReturns
    <3>3. Loop!End
      BY <2>1, <3>1, <3>2 DEF Loop!End, LoopScraping, LoopConnected
    <3> QED  BY <3>3 DEF Loop!Next
  <2>3. CASE ~Quiet
    <3>1. LoopPhase' = "stopping"
      BY <1>6, <2>3 DEF ShutdownReturns, LoopPhase, Quiet
    <3> QED  BY <2>1, <3>1
  <2> QED  BY <2>2, <2>3
<1>7. CASE MapFatal
  <2>1. Loop!Crash
    BY <1>7 DEF MapFatal, Loop!Crash, LoopPhase, Quiet, poolVars, goVars
  <2> QED  BY <2>1 DEF Loop!Next
<1>8. CASE ScrapeBegins \/ (\E e \in Endpoints : VisitEndpoint(e)) \/ ClientFails
           \/ InsertBegins \/ InsertEnds \/ ScrapeEnds \/ GetAccepted \/ Tick
  <2>1. Same
    BY <1>8 DEF ScrapeBegins, VisitEndpoint, ClientFails, InsertBegins, InsertEnds,
       ScrapeEnds, GetAccepted, Tick, LoopPhase, LoopScraping, LoopConnected, Quiet,
       poolVars, goVars
  <2> QED  BY <2>1
<1>9. ASSUME NEW back \in BOOLEAN, NEW n \in {0, 1}, n = IF OnWire THEN 1 ELSE 0,
             back => n = 1, Exchanging, Alive, Return(n, back)
      PROVE  Loop!Next
  <2>1. LoopConnected' \subseteq LoopConnected
    BY <1>9, ReturnShrinks
  <2>2. Loop!Work
    BY <1>9, <2>1, WorkStep DEF Return
  <2> QED  BY <2>2 DEF Loop!Next
<1>10. CASE RequestInvalid \/ RequestRefused
  <2>1. Alive /\ Exchanging /\ ~OnWire /\ Return(0, FALSE)
    BY <1>10 DEF RequestInvalid, RequestRefused, Exchanging, OnWire
  <2> QED  BY <2>1, <1>9
<1>11. CASE RequestFails \/ (\E b \in BOOLEAN : BadStatus(b) \/ BodyRead(b))
  <2>1. PICK b \in BOOLEAN : Alive /\ Exchanging /\ OnWire /\ Return(1, b)
    BY <1>11 DEF RequestFails, BadStatus, BodyRead, Exchanging, OnWire
  <2> QED  BY <2>1, <1>9
<1>12. CASE SendPost \/ SendGet
  <2>1. Alive /\ Exchanging /\ ctx = "live" /\ host' = host /\ ctx' = ctx /\ pc' \in {"post", "get"}
    BY <1>12 DEF SendPost, SendGet, Send, Exchanging
  <2>2. host = "running"
    BY <2>1 DEF IInv, TypeOK, HostStates, ContextInv, Alive, Exchanging
  <2>3. Loop!Work
    BY <2>1, <2>2, WorkStep
  <2> QED  BY <2>3 DEF Loop!Next
<1>13. ASSUME NEW empty \in BOOLEAN, PostAccepted(empty) PROVE Loop!Next
  <2> USE <1>13 DEF PostAccepted
  <2>1. cur \in Endpoints /\ busy[cur] = 1
    BY DEF IInv, VisitInv, TypeOK, PoolInv, InUse, Exchanging, OnWire
  <2>2. LoopConnected' \subseteq LoopConnected
    BY <2>1 DEF Release, poolVars, LoopConnected, IInv, TypeOK
  <2>3. Loop!Work
    BY <2>2, WorkStep DEF Exchanging
  <2> QED  BY <2>3 DEF Loop!Next
<1>14. CASE ConsumeReturns
  <2>1. Alive /\ ~Quiet /\ host' = host /\ ~Quiet'
    BY <1>14 DEF ConsumeReturns, Quiet
  <2>2. LoopPhase \in {"up", "stopping"} /\ LoopPhase' = LoopPhase
    BY <2>1, PhaseOfGoroutine DEF LoopPhase
  <2>3. Loop!Publish
    BY <1>14, <2>2 DEF ConsumeReturns, Loop!Publish, poolVars
  <2> QED  BY <2>3 DEF Loop!Next
<1>15. CASE SelectTick
  <2>1. Alive /\ ~Quiet /\ host' = host /\ ~Quiet'
    BY <1>15 DEF SelectTick, Quiet
  <2>2. LoopPhase \in {"up", "stopping"} /\ LoopPhase' = LoopPhase
    BY <2>1, PhaseOfGoroutine DEF LoopPhase
  <2>3. Loop!Begin
    BY <1>15, <2>2 DEF SelectTick, Loop!Begin, poolVars
  <2> QED  BY <2>3 DEF Loop!Next
<1>16. CASE SelectDone
  <2>1. /\ LoopScraping = FALSE /\ LoopScraping' = FALSE /\ LoopConnected' = LoopConnected
        /\ Alive /\ ~Quiet /\ Quiet' /\ host' = host
    BY <1>16 DEF SelectDone, LoopScraping, LoopConnected, Quiet, poolVars
  <2>2. CASE host = "stopped"
    <3>1. LoopPhase = "stopping" /\ LoopPhase' = "gone"
      BY <2>1, <2>2 DEF LoopPhase
    <3>2. LoopConnected' = {}
      BY <1>0, <2>1, <2>2
    <3>3. Loop!End
      BY <2>1, <3>1, <3>2 DEF Loop!End, LoopScraping, LoopConnected
    <3> QED  BY <3>3 DEF Loop!Next
  <2>3. CASE host # "stopped"
    <3>1. LoopPhase' = LoopPhase
      BY <2>1, <2>3 DEF LoopPhase
    <3> QED  BY <2>1, <3>1
  <2> QED  BY <2>2, <2>3
<1>17. CASE Finished \/ UNCHANGED vars
  <2>1. Same
    BY <1>17 DEF Finished, vars, LoopPhase, LoopScraping, LoopConnected, Quiet, poolVars
  <2> QED  BY <2>1
<1> QED
  BY <1>1, <1>2, <1>3, <1>4, <1>5, <1>6, <1>7, <1>8, <1>10, <1>11, <1>12, <1>13,
     <1>14, <1>15, <1>16, <1>17
  DEF Next, Shutdown, Step, Reply

\* The receiver keeps the promise of ScrapeLoop: one batch at a time, no new
\* connection once it is stopping, none when it is gone.
THEOREM Refinement == Spec => RefinesScrapeLoop
<1>1. Init => Loop!Init
  BY DEF Init, Loop!Init, LoopPhase, Quiet
<1>2. IInv /\ IInv' /\ [Next]_vars => [Loop!Next]_(Loop!vars)
  BY StepRefines
<1> QED  BY <1>1, <1>2, Invariance, PTL DEF Spec, Loop!Spec, RefinesScrapeLoop
=============================================================================
