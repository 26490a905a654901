------------------------- MODULE AgentDriver_proofs -------------------------
(***************************************************************************)
(* Proofs about AgentDriver, for any instances, any lists of regions and   *)
(* any changes of them.                                                    *)
(***************************************************************************)
EXTENDS AgentDriver, SequenceTheorems, TLAPS

Regions == DOMAIN GuidOf
Files == [uid : [guid : Guids, size : {SizeOf[r] : r \in Regions}], instance : Names]

TypeInv ==
  /\ \A n \in Names : regions[n] \in Seq(Regions)
  /\ files \in Seq(Files)
  /\ at \in Nat \ {0}
  /\ call # None => call \in Calls

\* What a call has read of a list that did not change: each region under its own
\* GUID, and on Windows the GUIDs of those still to be read.
ReadInv ==
  call # None /\ ~call.changed =>
    /\ \A k \in 1..Len(call.got) : call.got[k].guid = GuidOf[call.got[k].region]
    /\ AtStage("Windows", "data") => call.labels = [k \in 1..Len(Here) |-> GuidOf[Here[k]]]

\* On Windows, changed or not, a region that is still to be read has a GUID.
LabelInv == AtStage("Windows", "data") => Len(call.got) < Len(call.labels)

\* Nothing is read before the discovery.
FreshInv == AtStage("Windows", "discover") => call.got = <<>>

CallInv == ReadInv /\ LabelInv /\ FreshInv

IInv ==
  /\ TypeInv
  /\ CallInv
  /\ NoHandleLeft
  /\ DecodesOwnGuid

-----------------------------------------------------------------------------

LEMMA InitIInv == Init => IInv
<1> SUFFICES ASSUME Init PROVE IInv
  OBVIOUS
<1>1. \A n \in Names : regions[n] \in Seq(Regions)
  BY RegionsAssumption DEF Init, Regions
<1> QED  BY <1>1 DEF Init, IInv, TypeInv, CallInv, ReadInv, LabelInv, FreshInv, AtStage, NoHandleLeft, DecodesOwnGuid

\* The driver's lists stay lists of regions; a call under way notices nothing,
\* but changed remembers.
LEMMA RegionsIInv ==
  ASSUME IInv, NEW n \in Names, NEW list \in Lists[n], RegionsChange(n, list)
  PROVE  IInv'
<1> USE DEF IInv
<1>1. list \in Seq(Regions)
  BY RegionsAssumption DEF Regions
<1>2. /\ regions' = [regions EXCEPT ![n] = list]
      /\ UNCHANGED <<platform, phase, files, at, handles, reported>>
      /\ call' = IF call # None /\ call.on = n /\ call.stage \notin {"done", "returned"}
                 THEN [call EXCEPT !.changed = TRUE] ELSE call
  BY DEF RegionsChange, runVars
<1>3. DecodesOwnGuid' /\ \A m \in Names : regions'[m] \in Seq(Regions)
  BY <1>1, <1>2 DEF DecodesOwnGuid, TypeInv
<1>4. CASE call = None
  BY <1>2, <1>3, <1>4 DEF TypeInv, CallInv, ReadInv, LabelInv, FreshInv, AtStage, NoHandleLeft
<1>5. CASE call # None /\ call.on = n /\ call.stage \notin {"done", "returned"}
  <2>1. call \in Calls /\ call' = [call EXCEPT !.changed = TRUE]
    BY <1>2, <1>5 DEF TypeInv
  <2>2. /\ call' \in Calls /\ call'.changed /\ call'.stage = call.stage
        /\ call'.got = call.got /\ call'.labels = call.labels
    BY <2>1 DEF Calls
  <2>3. call' # None
    BY <2>2, RegionsAssumption
  <2>4. CallInv'
    BY <1>2, <1>5, <2>2 DEF CallInv, ReadInv, LabelInv, FreshInv, AtStage
  <2> QED  BY <1>2, <1>3, <1>5, <2>2, <2>3, <2>4 DEF TypeInv, NoHandleLeft
<1>6. CASE call # None /\ ~(call.on = n /\ call.stage \notin {"done", "returned"})
  <2>1. call' = call /\ call \in Calls
    BY <1>2, <1>6 DEF TypeInv
  <2>2. AtStage("Windows", "data") => call.on # n /\ call.on \in Names
    BY <1>6, <2>1 DEF AtStage, Calls
  <2>3. AtStage("Windows", "data") => Here' = Here
    BY <1>2, <2>1, <2>2 DEF Here
  <2>4. CallInv'
    BY <1>2, <2>1, <2>3 DEF CallInv, ReadInv, LabelInv, FreshInv, AtStage
  <2> QED  BY <1>2, <1>3, <2>1, <2>4 DEF TypeInv, NoHandleLeft
<1> QED  BY <1>4, <1>5, <1>6

\* What ends a call, or leaves none, and closes what was open.
LEMMA ClosedIInv ==
  ASSUME IInv, UNCHANGED <<platform, regions, files>>, call' = None, handles' = 0,
         at' \in Nat \ {0}, DecodesOwnGuid'
  PROVE  IInv'
BY DEF IInv, TypeInv, CallInv, ReadInv, LabelInv, FreshInv, AtStage, NoHandleLeft

\* A step of get_telemetry that goes on with the call.
LEMMA StepIInv ==
  ASSUME IInv, UNCHANGED <<platform, regions, files, at, reported>>,
         NEW c \in Calls, call' = c,
         handles' = IF c.stage = "returned" THEN 0 ELSE 1,
         CallInv'
  PROVE  IInv'
<1>1. call' # None
  BY RegionsAssumption
<1>2. TypeInv' /\ NoHandleLeft'
  BY <1>1 DEF IInv, TypeInv, NoHandleLeft
<1>3. DecodesOwnGuid'
  BY DEF IInv, DecodesOwnGuid
<1> QED  BY <1>2, <1>3 DEF IInv

LEMMA OpenIInv == ASSUME IInv, Open PROVE IInv'
<1> USE DEF IInv
<1> DEFINE c == [on |-> Target, stage |-> IF platform = "Windows" THEN "discover" ELSE "size",
                 labels |-> <<>>, got |-> <<>>, changed |-> FALSE]
<1>1. /\ InLoop /\ call = None /\ handles' = handles + 1 /\ call' = c
      /\ UNCHANGED <<platform, regions, files, at, reported>>
  BY DEF Open, runVars
<1>2. handles' = 1
  BY <1>1 DEF NoHandleLeft
<1>3. Target \in Names
  <2>1. CASE phase = "init"
    BY <1>1, <2>1, RegionsAssumption DEF InLoop, Target, TypeInv, Names
  <2>2. CASE phase = "read"
    <3>1. files[at] \in Files
      BY <1>1, <2>2 DEF InLoop, TypeInv
    <3> QED  BY <3>1, <2>2 DEF Target, Files
  <2> QED  BY <1>1, <2>1, <2>2 DEF InLoop
<1>4. c \in Calls
  BY <1>3 DEF Calls, Stages
<1>5. c.stage \in {"discover", "size"} /\ Len(c.got) = 0
  OBVIOUS
<1>6. CallInv'
  BY <1>1, <1>5 DEF CallInv, ReadInv, LabelInv, FreshInv, AtStage
<1> HIDE DEF c
<1> QED  BY <1>1, <1>2, <1>4, <1>5, <1>6, StepIInv

LEMMA HereFact == ASSUME TypeInv, call # None PROVE Here \in Seq(Regions)
BY DEF TypeInv, Here, Calls

\* On Windows: the list, then each region by its index.
LEMMA DiscoverIInv == ASSUME IInv, Discover PROVE IInv'
<1> USE DEF IInv
<1> DEFINE names == [k \in 1..Len(Here) |-> GuidOf[Here[k]]]
           c == [call EXCEPT !.stage = IF Here = <<>> THEN "done" ELSE "data",
                             !.labels = names]
<1>1. /\ AtStage("Windows", "discover") /\ call # None /\ call.stage = "discover"
      /\ call' = c
      /\ UNCHANGED <<platform, regions, files, at, handles, reported>>
  BY DEF Discover, AtStage, Step, runVars
<1>2. Here \in Seq(Regions) /\ call \in Calls
  BY <1>1, HereFact DEF TypeInv
<1>3. names \in Seq(Guids)
  BY <1>2 DEF Guids, Regions
<1> HIDE DEF names
<1>4. c \in Calls /\ c.stage = (IF Here = <<>> THEN "done" ELSE "data") /\ c.labels = names
      /\ c.on = call.on /\ c.got = call.got /\ c.changed = call.changed
  BY <1>2, <1>3 DEF Calls, Stages
<1> HIDE DEF c
<1>5. handles' = 1
  BY <1>1 DEF NoHandleLeft
<1>6. Here' = Here
  BY <1>1, <1>4 DEF Here
<1>7. CallInv'
  <2>1. c.got = <<>>
    BY <1>1, <1>4 DEF CallInv, FreshInv
  <2>2. Here # <<>> => Len(names) > 0
    BY <1>2 DEF names
  <2>3. ReadInv'
    BY <1>1, <1>4, <1>6, <2>1 DEF ReadInv, AtStage, names
  <2> QED  BY <1>1, <1>4, <2>1, <2>2, <2>3 DEF CallInv, LabelInv, FreshInv, AtStage
<1> QED  BY <1>1, <1>4, <1>5, <1>7, StepIInv

LEMMA ReadRegionIInv == ASSUME IInv, ReadRegion PROVE IInv'
<1> USE DEF IInv
<1> DEFINE id == EntryId
           new == [guid |-> call.labels[id], region |-> Here[id]]
           more == Append(call.got, new)
           c == [call EXCEPT !.got = more,
                             !.stage = IF id = Len(call.labels) THEN "done" ELSE "data"]
<1>1. /\ AtStage("Windows", "data") /\ call # None /\ id <= Len(Here) /\ call' = c
      /\ UNCHANGED <<platform, regions, files, at, handles, reported>>
  BY DEF ReadRegion, AtStage, Step, runVars
<1>2. Here \in Seq(Regions) /\ call \in Calls
  BY <1>1, HereFact DEF TypeInv
<1>3. /\ id = Len(call.got) + 1 /\ id \in 1..Len(call.labels) /\ id \in 1..Len(Here)
      /\ call.got \in Seq(Entries) /\ call.labels \in Seq(Guids)
  BY <1>1, <1>2 DEF CallInv, LabelInv, EntryId, Calls
<1>4. new \in Entries
  BY <1>2, <1>3 DEF Entries, Regions
<1> HIDE DEF id
<1>5. ~call.changed => new.guid = GuidOf[new.region]
  <2>1. ~call.changed => call.labels = [k \in 1..Len(Here) |-> GuidOf[Here[k]]]
    BY <1>1 DEF CallInv, ReadInv
  <2> QED  BY <1>3, <2>1
<1> HIDE DEF new
<1>m. more \in Seq(Entries)
  BY <1>3, <1>4
<1> HIDE DEF more
<1>6. /\ c \in Calls /\ c.got = more /\ c.labels = call.labels
      /\ c.stage = (IF id = Len(call.labels) THEN "done" ELSE "data")
      /\ c.on = call.on /\ c.changed = call.changed
  BY <1>2, <1>m DEF Calls, Stages
<1> HIDE DEF c
<1>7. handles' = 1
  BY <1>1 DEF NoHandleLeft, AtStage
<1>8. CallInv'
  <2>1. \A k \in 1..Len(c.got) :
          c.got[k] = IF k <= Len(call.got) THEN call.got[k] ELSE new
    BY <1>3, <1>4, <1>6 DEF more
  <2>2. Here' = Here
    BY <1>1, <1>6 DEF Here
  <2>3. ASSUME ~c.changed, NEW k \in 1..Len(c.got)
        PROVE  c.got[k].guid = GuidOf[c.got[k].region]
    <3>1. Len(c.got) = Len(call.got) + 1
      BY <1>3, <1>4, <1>6 DEF more
    <3>2. CASE k <= Len(call.got)
      BY <1>1, <1>3, <1>6, <2>1, <2>3, <3>1, <3>2 DEF CallInv, ReadInv
    <3>3. CASE ~(k <= Len(call.got))
      BY <1>5, <1>6, <2>1, <2>3, <3>3
    <3> QED  BY <3>2, <3>3
  <2>4. ReadInv'
    BY <1>1, <1>6, <2>2, <2>3 DEF CallInv, ReadInv, AtStage
  <2>5. LabelInv' /\ FreshInv'
    BY <1>1, <1>3, <1>4, <1>6 DEF more, LabelInv, FreshInv, AtStage
  <2> QED  BY <2>4, <2>5 DEF CallInv
<1> QED  BY <1>1, <1>6, <1>7, <1>8, StepIInv

\* On VMkernel: the size, then the data with its GUID.
LEMMA QuerySizeIInv == ASSUME IInv, QuerySize PROVE IInv'
<1> USE DEF IInv
<1> DEFINE c == [call EXCEPT
              !.stage = IF EntryId > MaxEntries \/ EntryId > Len(Here) THEN "done" ELSE "data"]
<1>1. /\ AtStage("VMkernel", "size") /\ call # None /\ call' = c
      /\ UNCHANGED <<platform, regions, files, at, handles, reported>>
  BY DEF QuerySize, AtStage, Step, runVars
<1>2. call \in Calls
  BY <1>1 DEF TypeInv
<1>3. /\ c \in Calls /\ c.stage \in {"done", "data"}
      /\ c.got = call.got /\ c.changed = call.changed
  BY <1>2 DEF Calls, Stages
<1> HIDE DEF c
<1>4. handles' = 1
  BY <1>1 DEF NoHandleLeft, AtStage
<1>5. CallInv'
  BY <1>1, <1>3 DEF CallInv, ReadInv, LabelInv, FreshInv, AtStage
<1> QED  BY <1>1, <1>3, <1>4, <1>5, StepIInv

LEMMA ReadEntryIInv == ASSUME IInv, ReadEntry PROVE IInv'
<1> USE DEF IInv
<1> DEFINE id == EntryId
           new == [guid |-> GuidOf[Here[id]], region |-> Here[id]]
           more == Append(call.got, new)
           c == [call EXCEPT !.got = more, !.stage = "size"]
<1>1. /\ AtStage("VMkernel", "data") /\ call # None /\ id <= Len(Here) /\ call' = c
      /\ UNCHANGED <<platform, regions, files, at, handles, reported>>
  BY DEF ReadEntry, AtStage, Step, runVars
<1>2. Here \in Seq(Regions) /\ call \in Calls
  BY <1>1, HereFact DEF TypeInv
<1>3. /\ id = Len(call.got) + 1 /\ id \in 1..Len(Here)
      /\ call.got \in Seq(Entries)
  BY <1>1, <1>2 DEF EntryId, Calls
<1>4. new \in Entries /\ new.guid = GuidOf[new.region]
  BY <1>2, <1>3 DEF Entries, Regions, Guids
<1> HIDE DEF new
<1>5. more \in Seq(Entries)
  BY <1>3, <1>4
<1>6. \A k \in 1..Len(more) : more[k] = IF k <= Len(call.got) THEN call.got[k] ELSE new
  BY <1>3, <1>4
<1>7. Len(more) = Len(call.got) + 1
  BY <1>3, <1>4
<1> HIDE DEF more, id
<1>8. /\ c \in Calls /\ c.got = more /\ c.stage = "size" /\ c.changed = call.changed
  BY <1>2, <1>5 DEF Calls, Stages
<1> HIDE DEF c
<1>9. handles' = 1
  BY <1>1 DEF NoHandleLeft, AtStage
<1>10. ASSUME ~c.changed, NEW k \in 1..Len(c.got)
       PROVE  c.got[k].guid = GuidOf[c.got[k].region]
  <2>1. CASE k <= Len(call.got)
    BY <1>1, <1>3, <1>6, <1>7, <1>8, <1>10, <2>1 DEF CallInv, ReadInv
  <2>2. CASE ~(k <= Len(call.got))
    BY <1>4, <1>6, <1>8, <1>10, <2>2
  <2> QED  BY <2>1, <2>2
<1>11. CallInv'
  BY <1>1, <1>8, <1>10 DEF CallInv, ReadInv, LabelInv, FreshInv, AtStage
<1> QED  BY <1>1, <1>8, <1>9, <1>11, StepIInv

\* A failure closes what was open; there is nothing to close when open itself failed.
LEMMA FailsIInv == ASSUME IInv, OpenFails \/ RequestFails PROVE IInv'
<1> USE DEF IInv
<1>1. CASE OpenFails
  <2>1. /\ call = None /\ call' = None
        /\ UNCHANGED <<platform, regions, files, at, handles, reported>>
    BY <1>1 DEF OpenFails, Raise, runVars
  <2>2. handles' = 0 /\ DecodesOwnGuid' /\ at' \in Nat \ {0}
    BY <2>1 DEF NoHandleLeft, DecodesOwnGuid, TypeInv
  <2> QED  BY <2>1, <2>2, ClosedIInv
<1>2. CASE RequestFails
  <2>1. /\ call # None /\ call.stage # "returned" /\ call' = None /\ handles' = handles - 1
        /\ UNCHANGED <<platform, regions, files, at, reported>>
    BY <1>2 DEF RequestFails, Raise, runVars
  <2>2. handles' = 0 /\ DecodesOwnGuid' /\ at' \in Nat \ {0}
    BY <2>1 DEF NoHandleLeft, DecodesOwnGuid, TypeInv
  <2> QED  BY <2>1, <2>2, ClosedIInv
<1> QED  BY <1>1, <1>2

LEMMA ReturnIInv == ASSUME IInv, Return PROVE IInv'
<1> USE DEF IInv
<1> DEFINE c == [call EXCEPT !.stage = "returned"]
<1>1. /\ call # None /\ call.stage = "done" /\ call' = c /\ handles' = handles - 1
      /\ UNCHANGED <<platform, regions, files, at, reported>>
  BY DEF Return, runVars
<1>2. call \in Calls
  BY <1>1 DEF TypeInv
<1>3. /\ c \in Calls /\ c.stage = "returned"
      /\ c.got = call.got /\ c.changed = call.changed
  BY <1>2 DEF Calls, Stages
<1> HIDE DEF c
<1>4. handles' = 0
  BY <1>1 DEF NoHandleLeft
<1>5. CallInv'
  BY <1>1, <1>3 DEF CallInv, ReadInv, LabelInv, FreshInv, AtStage
<1> QED  BY <1>1, <1>3, <1>4, <1>5, StepIInv

-----------------------------------------------------------------------------

\* A file goes behind one of those that are there, or to the end.
LEMMA AddFileType ==
  ASSUME files \in Seq(Files), NEW file \in Files, AddFile(file)
  PROVE  files' \in Seq(Files)
<1>1. PICK n \in 0..Len(files) :
        files' = SubSeq(files, 1, n) \o <<file>> \o SubSeq(files, n + 1, Len(files))
  <2> DEFINE same == {k \in 1..Len(files) : files[k].uid = file.uid}
             Split(n) == SubSeq(files, 1, n) \o <<file>> \o SubSeq(files, n + 1, Len(files))
  <2>1. PICK m \in IF same = {} THEN {Len(files)} ELSE same : files' = Split(m)
    BY DEF AddFile
  <2>2. m \in 0..Len(files)
    BY <2>1
  <2> QED  BY <2>1, <2>2
<1>2. SubSeq(files, 1, n) \in Seq(Files)
  <2>1. 1 \in Int /\ n \in Int /\ \A i \in 1..n : files[i] \in Files
    OBVIOUS
  <2> QED  BY <2>1, SubSeqProperties
<1>3. SubSeq(files, n + 1, Len(files)) \in Seq(Files)
  <2>1. /\ n + 1 \in Int /\ Len(files) \in Int
        /\ \A i \in (n + 1)..Len(files) : files[i] \in Files
    OBVIOUS
  <2> QED  BY <2>1, SubSeqProperties
<1>4. <<file>> \in Seq(Files)
  OBVIOUS
<1>5. SubSeq(files, 1, n) \o <<file>> \in Seq(Files)
  BY <1>2, <1>4, ConcatProperties
<1> QED  BY <1>1, <1>3, <1>5, ConcatProperties

\* init takes the files of what a call read; nothing else changes with them.
LEMMA InitAddsIInv == ASSUME IInv, InitAdds PROVE IInv'
<1> USE DEF IInv
<1> DEFINE new == Head(call.got)
           file == [uid |-> [guid |-> new.guid, size |-> SizeOf[new.region]],
                    instance |-> call.on]
           rest == Tail(call.got)
           c == [call EXCEPT !.got = rest]
<1>1. /\ call # None /\ call.stage = "returned" /\ call.got # <<>>
      /\ AddFile(file) /\ call' = c
      /\ UNCHANGED <<platform, regions, at, handles, reported>>
  BY DEF InitAdds, Returned, runVars
<1>2. call \in Calls /\ call.got \in Seq(Entries) /\ call.on \in Names
  BY <1>1 DEF TypeInv, Calls
<1>3. /\ new \in Entries /\ rest \in Seq(Entries)
      /\ Len(rest) = Len(call.got) - 1
      /\ \A k \in 1..Len(rest) : rest[k] = call.got[k + 1]
  BY <1>1, <1>2, HeadTailProperties
<1>4. file \in Files
  BY <1>2, <1>3, RegionsAssumption DEF Files, Entries, Regions
<1> HIDE DEF file
<1>5. files' \in Seq(Files)
  BY <1>1, <1>4, AddFileType DEF TypeInv
<1> HIDE DEF rest
<1>6. /\ c \in Calls /\ c.got = rest /\ c.stage = "returned" /\ c.changed = call.changed
  BY <1>1, <1>2, <1>3 DEF Calls
<1> HIDE DEF c
<1>7. c # None
  BY <1>6, RegionsAssumption
<1>8. ASSUME ~c.changed, NEW k \in 1..Len(c.got)
      PROVE  c.got[k].guid = GuidOf[c.got[k].region]
  <2>1. k + 1 \in 1..Len(call.got)
    BY <1>2, <1>3, <1>6
  <2> QED  BY <1>1, <1>3, <1>6, <1>8, <2>1 DEF CallInv, ReadInv
<1>9. CallInv'
  BY <1>1, <1>6, <1>8 DEF CallInv, ReadInv, LabelInv, FreshInv, AtStage
<1>10. TypeInv' /\ NoHandleLeft' /\ DecodesOwnGuid'
  BY <1>1, <1>5, <1>6, <1>7 DEF TypeInv, NoHandleLeft, DecodesOwnGuid
<1> QED  BY <1>9, <1>10

\* Taking the next instance or file, and what begins and ends a read.
LEMMA CallerIInv ==
  ASSUME IInv, InitNext \/ InitEnds \/ ReadBegins \/ ReadEnds
  PROVE  IInv'
<1> USE DEF IInv
<1>1. CASE InitNext
  <2>1. /\ call # None /\ call.stage = "returned" /\ call' = None /\ at' = at + 1
        /\ UNCHANGED <<platform, regions, files, handles, reported>>
    BY <1>1 DEF InitNext, Returned, runVars
  <2>2. handles' = 0 /\ DecodesOwnGuid' /\ at' \in Nat \ {0}
    BY <2>1 DEF NoHandleLeft, DecodesOwnGuid, TypeInv
  <2> QED  BY <2>1, <2>2, ClosedIInv
<1>2. CASE InitEnds \/ ReadBegins \/ ReadEnds
  <2>1. /\ UNCHANGED <<platform, regions, files, call, handles>>
        /\ reported' \in {reported, {}} /\ at' \in Nat \ {0}
    BY <1>2 DEF InitEnds, ReadBegins, ReadEnds, runVars, TypeInv
  <2>2. DecodesOwnGuid'
    BY <2>1 DEF DecodesOwnGuid
  <2>3. TypeInv' /\ NoHandleLeft'
    BY <2>1 DEF TypeInv, NoHandleLeft
  <2>4. CallInv'
    BY <2>1 DEF CallInv, ReadInv, LabelInv, FreshInv, AtStage, Here
  <2> QED  BY <2>2, <2>3, <2>4
<1> QED  BY <1>1, <1>2

\* What is decoded: an entry that was kept under a GUID found in the endpoint's.
LEMMA ReadIInv == ASSUME IInv, ReadGets \/ ReadRaises PROVE IInv'
<1> USE DEF IInv
<1>1. /\ call # None /\ call.stage = "returned" /\ call' = None
      /\ UNCHANGED <<platform, regions, files, handles>>
      /\ at' \in {at, at + 1}
  BY DEF ReadGets, ReadRaises, Returned, Raise, runVars
<1>2. handles' = 0 /\ at' \in Nat \ {0}
  BY <1>1 DEF NoHandleLeft, TypeInv
<1>3. CASE ReadGets
  <2> DEFINE uid == files[at].uid
  <2>1. PICK k \in Matches(call.got, uid) :
          reported' = reported \cup
            {[uid |-> uid, hit |-> call.got[k], changed |-> call.changed]}
    BY <1>3 DEF ReadGets
  <2>2. k \in 1..Len(call.got) /\ <<call.got[k].guid, uid.guid>> \in Within
    BY <2>1 DEF Matches
  <2>3. ~call.changed => call.got[k].guid = GuidOf[call.got[k].region]
    BY <1>1, <2>2 DEF CallInv, ReadInv
  <2> HIDE DEF uid
  <2>4. DecodesOwnGuid'
    <3> DEFINE new == [uid |-> uid, hit |-> call.got[k], changed |-> call.changed]
    <3>1. \/ GuidOf[new.hit.region] = new.uid.guid
          \/ new.changed
          \/ new.hit.guid # new.uid.guid /\ <<new.hit.guid, new.uid.guid>> \in Within
      BY <2>2, <2>3
    <3>2. reported' = reported \cup {new}
      BY <2>1
    <3> HIDE DEF new
    <3> QED  BY <3>1, <3>2 DEF DecodesOwnGuid
  <2> QED  BY <1>1, <1>2, <2>4, ClosedIInv
<1>4. CASE ReadRaises
  <2>1. reported' = reported
    BY <1>4 DEF ReadRaises
  <2>2. DecodesOwnGuid'
    BY <2>1 DEF DecodesOwnGuid
  <2> QED  BY <1>1, <1>2, <2>2, ClosedIInv
<1> QED  BY <1>3, <1>4

-----------------------------------------------------------------------------

\* Every step keeps the invariant.
LEMMA NextIInv == IInv /\ [Next]_vars => IInv'
<1> SUFFICES ASSUME IInv, [Next]_vars PROVE IInv'
  OBVIOUS
<1>1. ASSUME NEW n \in Names, NEW list \in Lists[n], RegionsChange(n, list) PROVE IInv'
  BY <1>1, RegionsIInv
<1>2. CASE Open
  BY <1>2, OpenIInv
<1>3. CASE Discover \/ ReadRegion \/ QuerySize \/ ReadEntry
  BY <1>3, DiscoverIInv, ReadRegionIInv, QuerySizeIInv, ReadEntryIInv
<1>4. CASE OpenFails \/ RequestFails \/ Return
  BY <1>4, FailsIInv, ReturnIInv
<1>5. CASE InitAdds \/ InitNext \/ InitEnds \/ ReadBegins \/ ReadEnds
  BY <1>5, InitAddsIInv, CallerIInv
<1>6. CASE ReadGets \/ ReadRaises
  BY <1>6, ReadIInv
<1>7. CASE UNCHANGED vars
  <2>1. UNCHANGED <<platform, regions, files, at, call, handles, reported>>
    BY <1>7 DEF vars, runVars
  <2> QED  BY <2>1 DEF IInv, TypeInv, CallInv, ReadInv, LabelInv, FreshInv, AtStage, Here,
                      NoHandleLeft, DecodesOwnGuid
<1> QED
  BY <1>1, <1>2, <1>3, <1>4, <1>5, <1>6, <1>7 DEF Next, Agent, Ended

LEMMA SpecIInv == Spec => []IInv
<1> QED  BY InitIInv, NextIInv, PTL DEF Spec

\* For any instances and any changes of their regions, a handle is open exactly
\* while get_telemetry runs (pmt.py:106-109, 230-233).
THEOREM HandlesClosed == Spec => []NoHandleLeft
<1>1. IInv => NoHandleLeft
  BY DEF IInv
<1> QED  BY SpecIInv, <1>1, PTL

\* What is decoded for an endpoint has the endpoint's GUID, but for regions that
\* changed under the call and for GUIDs found in others (pmt.py:218-227, 871-880).
THEOREM OwnGuidDecoded == Spec => []DecodesOwnGuid
<1>1. IInv => DecodesOwnGuid
  BY DEF IInv
<1> QED  BY SpecIInv, <1>1, PTL
=============================================================================
