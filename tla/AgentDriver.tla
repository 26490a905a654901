---------------------------- MODULE AgentDriver ----------------------------
(***************************************************************************)
(* The Python agent on Windows and VMkernel (src/tools/collectd-agent/     *)
(* pmt.py), where get_telemetry asks a driver for all telemetry regions of *)
(* an instance: on Windows a discovery lists them and each is then read by *)
(* its index, on VMkernel the driver is asked twice per index, for the     *)
(* size and for the data, until it has no more.  init and every read call  *)
(* it anew, and between any two requests the regions may change.           *)
(*                                                                         *)
(* PmtAgent has what both callers do around it: here pmt.xml knows every   *)
(* GUID and, once init has gone through, every metric is decoded.          *)
(***************************************************************************)
EXTENDS Naturals, Sequences

CONSTANTS
  Instances,   \* the instances, in the order in which they are found
  Lists,       \* [instances -> the lists of regions that each may have]
  GuidOf,      \* [regions -> GUIDs]
  SizeOf,      \* [regions -> sizes]
  Within,      \* <<g, h>>: the text of GUID g is in that of a UID of h
  MaxEntries,
  None

Names == {Instances[k] : k \in 1..Len(Instances)}
Guids == {GuidOf[r] : r \in DOMAIN GuidOf}

\* A call of get_telemetry under way: on which instance, how far, what the
\* discovery called the regions, what was read, and whether they changed.
Entries == [guid : Guids, region : DOMAIN GuidOf]
Stages == {"discover", "size", "data", "done", "returned"}
Calls == [on : Names, stage : Stages, labels : Seq(Guids), got : Seq(Entries),
          changed : BOOLEAN]

ASSUME RegionsAssumption ==
  /\ \A n \in Names : Lists[n] \subseteq Seq(DOMAIN GuidOf)
  /\ DOMAIN SizeOf = DOMAIN GuidOf
  /\ \A g \in Guids : <<g, g>> \in Within
  /\ Instances \in Seq(Names)
  /\ MaxEntries \in Nat
  /\ None \notin Calls

VARIABLES
  platform, mode,  \* how the plugin runs
  inited,     \* init has gone through, and loaded what decodes the regions
  regions,    \* [Names -> the list of its regions]
  phase,      \* "init", "idle", "read", or how the agent ended
  files,      \* pmt_files as one sequence of [uid, instance]
  at,         \* the instance or the file being visited
  call,       \* the call of get_telemetry under way, or None
  handles,    \* open handles of the driver
  reported    \* what this read has so far

runVars == <<platform, mode, inited>>
vars == <<runVars, regions, phase, files, at, call, handles, reported>>

Init ==
  /\ platform \in {"Windows", "VMkernel"}
  /\ mode \in {"agent", "collectd"}
  /\ inited = FALSE
  /\ regions \in [Names -> UNION {Lists[n] : n \in Names}]
  /\ \A n \in Names : regions[n] \in Lists[n]
  /\ phase = "init"
  /\ files = <<>>
  /\ at = 1
  /\ call = None
  /\ handles = 0
  /\ reported = {}

RegionsChange(n, list) ==
  /\ regions[n] # list
  /\ regions' = [regions EXCEPT ![n] = list]
  /\ call' = IF call # None /\ call.on = n /\ call.stage \notin {"done", "returned"}
           THEN [call EXCEPT !.changed = TRUE] ELSE call
  /\ UNCHANGED <<runVars, phase, files, at, handles, reported>>

-----------------------------------------------------------------------------
(* get_telemetry.                                                          *)

\* collectd logs what init and read raise; stand-alone, it ends the agent.
Raise(how) ==
  /\ phase' = IF mode = "collectd" THEN "idle" ELSE how
  /\ call' = None

InLoop ==
  \/ phase = "init" /\ at <= Len(Instances)
  \/ phase = "read" /\ at <= Len(files)
Target == IF phase = "init" THEN Instances[at] ELSE files[at].instance

OpenFails ==
  /\ InLoop /\ call = None
  /\ Raise("exit1")
  /\ UNCHANGED <<runVars, regions, files, at, handles, reported>>

Open ==
  /\ InLoop /\ call = None
  /\ handles' = handles + 1
  /\ call' = [on |-> Target, stage |-> IF platform = "Windows" THEN "discover" ELSE "size",
              labels |-> <<>>, got |-> <<>>, changed |-> FALSE]
  /\ UNCHANGED <<runVars, regions, phase, files, at, reported>>

Step(next) ==
  call' = next /\ UNCHANGED <<runVars, regions, phase, files, at, handles, reported>>

AtStage(p, s) == call # None /\ platform = p /\ call.stage = s
Here == regions[call.on]
EntryId == Len(call.got) + 1

\* IOCTL_DISCOVERY_SIZE and IOCTL_DISCOVERY.
Discover ==
  /\ AtStage("Windows", "discover")
  /\ Step([call EXCEPT !.stage = IF Here = <<>> THEN "done" ELSE "data",
                       !.labels = [k \in 1..Len(Here) |-> GuidOf[Here[k]]]])

\* A region is read by its index, and kept under the GUID of the discovery.
ReadRegion ==
  /\ AtStage("Windows", "data")
  /\ EntryId <= Len(Here)
  /\ Step([call EXCEPT
       !.got = Append(@, [guid |-> call.labels[EntryId], region |-> Here[EntryId]]),
       !.stage = IF EntryId = Len(call.labels) THEN "done" ELSE "data"])

\* The size of the next entry, or that there is none.
QuerySize ==
  /\ AtStage("VMkernel", "size")
  /\ Step([call EXCEPT
       !.stage = IF EntryId > MaxEntries \/ EntryId > Len(Here) THEN "done" ELSE "data"])

\* Mutation: an entry that went away after its size was asked is asked again.
ReadEntryRetried ==
  /\ AtStage("VMkernel", "data")
  /\ IF EntryId <= Len(Here)
     THEN Step([call EXCEPT
            !.got = Append(@, [guid |-> GuidOf[Here[EntryId]], region |-> Here[EntryId]]),
            !.stage = "size"])
     ELSE Step([call EXCEPT !.stage = "size"])

\* Its data; the driver gives the GUID with it.
ReadEntry ==
  /\ AtStage("VMkernel", "data")
  /\ EntryId <= Len(Here)
  /\ Step([call EXCEPT
       !.got = Append(@, [guid |-> GuidOf[Here[EntryId]], region |-> Here[EntryId]]),
       !.stage = "size"])

\* Mutation: sys.exit leaves without the finally.
RequestFailsOpen ==
  /\ call # None /\ call.stage \notin {"done", "returned"}
  /\ Raise("exit1")
  /\ UNCHANGED <<runVars, regions, files, at, handles, reported>>

\* A request fails: an exception or sys.exit, and finally closes the handle.
RequestFails ==
  /\ call # None /\ call.stage \notin {"done", "returned"}
  /\ handles' = handles - 1
  /\ Raise("exit1")
  /\ UNCHANGED <<runVars, regions, files, at, reported>>

\* return, and finally.
Return ==
  /\ call # None /\ call.stage = "done"
  /\ handles' = handles - 1
  /\ call' = [call EXCEPT !.stage = "returned"]
  /\ UNCHANGED <<runVars, regions, phase, files, at, reported>>

-----------------------------------------------------------------------------
(* The callers.                                                            *)

Returned(caller) == call # None /\ call.stage = "returned" /\ phase = caller

\* pmt_files[uid].append(instance): behind the last one of its UID.
AddFile(file) ==
  LET same == {k \in 1..Len(files) : files[k].uid = file.uid}
  IN  \E n \in IF same = {} THEN {Len(files)} ELSE same :
        /\ \A k \in same : k <= n
        /\ files' = SubSeq(files, 1, n) \o <<file>> \o SubSeq(files, n + 1, Len(files))

\* One file per region: an instance is listed as often as it has one.  Its length
\* is the region's; that of one exchanged under the call may be another's.
InitAdds ==
  /\ Returned("init")
  /\ call.got # <<>>
  /\ LET new == Head(call.got)
     IN  AddFile([uid |-> [guid |-> new.guid, size |-> SizeOf[new.region]],
                  instance |-> call.on])
  /\ call' = [call EXCEPT !.got = Tail(@)]
  /\ UNCHANGED <<runVars, regions, phase, at, handles, reported>>

InitNext ==
  /\ Returned("init")
  /\ call.got = <<>>
  /\ call' = None
  /\ at' = at + 1
  /\ UNCHANGED <<runVars, regions, phase, files, handles, reported>>

InitEnds ==
  /\ phase = "init" /\ at > Len(Instances)
  /\ phase' = "idle"
  /\ inited' = TRUE
  /\ UNCHANGED <<platform, mode, regions, files, at, call, handles, reported>>

ReadBegins ==
  /\ phase = "idle"
  /\ phase' = "read"
  /\ at' = 1
  /\ reported' = {}
  /\ UNCHANGED <<runVars, regions, files, call, handles>>

\* Mutation: any region is taken when none has the GUID.
MatchesOrAny(entries, uid) ==
  LET hits == {k \in 1..Len(entries) : <<entries[k].guid, uid.guid>> \in Within}
  IN  IF hits = {} THEN 1..Len(entries) ELSE hits

\* The regions whose GUID is found in the UID.
Matches(entries, uid) ==
  {k \in 1..Len(entries) : <<entries[k].guid, uid.guid>> \in Within}

\* The last of them is decoded.
ReadGets ==
  /\ Returned("read") /\ inited
  /\ LET uid == files[at].uid
         hits == Matches(call.got, uid)
     IN  \E k \in hits :
           /\ \A j \in hits : j <= k
           /\ reported' = reported \cup
                {[uid |-> uid, hit |-> call.got[k], changed |-> call.changed]}
  /\ call' = None
  /\ at' = at + 1
  /\ UNCHANGED <<runVars, regions, phase, files, handles>>

\* The buffer is still "", which int.from_bytes does not take; or init was cut short,
\* and nothing is known of the samples of the UID.
ReadRaises ==
  /\ Returned("read")
  /\ inited => Matches(call.got, files[at].uid) = {}
  /\ Raise("crashed")
  /\ UNCHANGED <<runVars, regions, files, at, handles, reported>>

ReadEnds ==
  /\ phase = "read" /\ at > Len(files)
  /\ phase' = "idle"
  /\ UNCHANGED <<runVars, regions, files, at, call, handles, reported>>

Ended == phase \in {"exit1", "crashed"} /\ UNCHANGED vars

Agent ==
  \/ OpenFails \/ Open
  \/ Discover \/ ReadRegion
  \/ QuerySize \/ ReadEntry
  \/ RequestFails \/ Return
  \/ InitAdds \/ InitNext \/ InitEnds
  \/ ReadBegins \/ ReadGets \/ ReadRaises \/ ReadEnds

Next ==
  \/ \E n \in Names : \E list \in Lists[n] : RegionsChange(n, list)
  \/ Agent
  \/ Ended

Spec == Init /\ [][Next]_vars

\* The one thread of the agent runs, and every request of the driver returns.
FairSpec == Spec /\ WF_vars(Agent)

-----------------------------------------------------------------------------
(* Properties.                                                             *)

\* However init and the reads before ended, a handle is open exactly while
\* get_telemetry runs: collectd's agent goes on after a failure, and would leak
\* one per read (pmt.py:106-109, 230-233).
NoHandleLeft == handles = IF call = None \/ call.stage = "returned" THEN 0 ELSE 1

\* What is decoded for an endpoint is a region with its GUID, unless the regions
\* changed between the requests of that very call, or one of them has a GUID whose
\* text is part of the endpoint's (pmt.py:73-104, 218-227, 871-880).
DecodesOwnGuid ==
  \A r \in reported :
    \/ GuidOf[r.hit.region] = r.uid.guid
    \/ r.changed
    \/ r.hit.guid # r.uid.guid /\ <<r.hit.guid, r.uid.guid>> \in Within

\* Every call of get_telemetry returns, although the regions may change all the
\* time (pmt.py:60-109, 193-233).
CallReturns ==
  call # None ~> call = None \/ call.stage = "returned"
=============================================================================
