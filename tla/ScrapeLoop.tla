----------------------------- MODULE ScrapeLoop -----------------------------
(***************************************************************************)
(* What the receiver promises to the collector that hosts it, without      *)
(* saying how: it publishes one batch at a time, it opens connections only *)
(* while it is up, and once it is asked to stop its connections can only   *)
(* disappear, until the receiver is gone and holds none.                   *)
(***************************************************************************)

CONSTANT Endpoints

VARIABLES
  phase,      \* where the receiver is in its life
  scraping,   \* a batch is being put together or handed over
  connected   \* the endpoints the receiver holds a connection to

vars == <<phase, scraping, connected>>

Phases == {"new", "up", "stopping", "gone", "crashed"}

Init ==
  /\ phase = "new"
  /\ scraping = FALSE
  /\ connected = {}

\* The receiver starts, and with it its first scrape.
Boot ==
  /\ phase = "new"
  /\ phase' = "up"
  /\ scraping' = TRUE
  /\ UNCHANGED connected

Begin ==
  /\ phase \in {"up", "stopping"}
  /\ ~scraping
  /\ scraping' = TRUE
  /\ UNCHANGED <<phase, connected>>

\* Connections come and go while the receiver is up; afterwards they only go.
Work ==
  /\ phase \in {"up", "stopping"}
  /\ connected' \in SUBSET Endpoints
  /\ phase = "up" => scraping
  /\ phase = "stopping" => connected' \subseteq connected
  /\ UNCHANGED <<phase, scraping>>

Publish ==
  /\ phase \in {"up", "stopping"}
  /\ scraping
  /\ scraping' = FALSE
  /\ UNCHANGED <<phase, connected>>

Stop ==
  /\ phase \in {"new", "up"}
  /\ phase' = "stopping"
  /\ UNCHANGED <<scraping, connected>>

End ==
  /\ phase = "stopping"
  /\ ~scraping
  /\ connected = {}
  /\ phase' = "gone"
  /\ UNCHANGED <<scraping, connected>>

\* The Go runtime kills the process when it catches two goroutines in a map.
Crash ==
  /\ phase = "stopping"
  /\ phase' = "crashed"
  /\ UNCHANGED <<scraping, connected>>

Next == Boot \/ Begin \/ Work \/ Publish \/ Stop \/ End \/ Crash

Spec == Init /\ [][Next]_vars
=============================================================================
