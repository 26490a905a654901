--------------------------- MODULE LocalDiscovery ---------------------------
(***************************************************************************)
(* Local mode of the Go receiver: discoverLocalAggregator reads the files  *)
(* guid, size and telem of every telem folder of sysfs, one after the      *)
(* other, and getPMTLocal sets up what was discovered (receiver.go:317-455)*)
(* with the lookup map and the caches of AggregatorSetup.  Between any two *)
(* reads a folder may vanish, come back, or belong to another device once  *)
(* the driver numbers its devices anew.                                    *)
(***************************************************************************)
EXTENDS Naturals, Sequences

CONSTANTS
  Sets, Basedir, Wide, Mappings, Versions, Fragile, None,  \* AggregatorSetup
  Folders,     \* the telem folders, in the order of ReadDir
  Devices,     \* telemetry devices
  Identity,    \* [Devices -> [num, size]]: what their guid and size files say
  Malformed,   \* <<device, file>>: files that are empty or cannot be parsed
  Home,        \* [folder names -> the device a folder has at first]
  Stable       \* folders that stay what they are and can always be read

Names == {Folders[i] : i \in 1..Len(Folders)}

ASSUME FoldersAssumption ==
  /\ Folders \in Seq(Names) /\ Stable \subseteq Names /\ Home \in [Names -> Devices]
  /\ None \notin Devices
  /\ Malformed \subseteq Devices \X {"guid", "size"}    \* telem is not parsed

VARIABLES
  lookup, disk, cache, job, xmlSet, step, setup, outcome, decoder, firstRead,
  bound,      \* [Names -> the device whose files the folder has, or None]
  phase,      \* what the goroutine does next
  at,         \* index of the folder being read
  partial,    \* the files of it that were read: [guid, size -> device or None]
  changed,    \* the folder changed since its guid was read
  found,      \* the map of discovered aggregators
  pending,    \* its keys that getPMTLocal has not come to yet
  result      \* what the last scrape returned

setupVars == <<lookup, disk, cache, job, xmlSet, step, setup, outcome, decoder, firstRead>>
readVars == <<at, partial, changed>>
vars == <<setupVars, bound, phase, readVars, found, pending, result>>

\* The GUID is parsed and printed again with %08x.
ReportedKey(guidOf, sizeOf) ==
  <<<<Identity[guidOf].num, "padded">>, Identity[sizeOf].size>>

Keys == {ReportedKey(d, e) : d, e \in Devices}

A == INSTANCE AggregatorSetup WITH Reports <- [n \in Names |-> Keys]

\* What AggregatorSetup asks of pmt.xml.
ASSUME SetupAssumption ==
  /\ Basedir \in [Sets -> {Basedir[s] : s \in Sets}]
  /\ \A s, t \in Sets : Basedir[s] = Basedir[t] => s = t
  /\ Mappings \in Seq(A!Listed) /\ \A m \in A!Listed : m.set \in Sets
  /\ Fragile \subseteq Sets \X A!PartSet
  /\ None \notin Versions \cup Names \cup Sets \cup [name : Names, key : Keys]
  /\ None \notin A!Contents

Nothing == [file \in {"guid", "size"} |-> None]
NoneFound == [n \in {} |-> None]

Init ==
  /\ A!Init
  /\ bound \in [Names -> Devices \cup {None}]
  /\ \A n \in Names : bound[n] \in {Home[n], None}
  /\ \A n \in Stable : bound[n] = Home[n]
  /\ phase = "idle"
  /\ at = 1
  /\ partial = Nothing
  /\ changed = FALSE
  /\ found = NoneFound
  /\ pending = {}
  /\ result = NoneFound

Folder == Folders[at]

\* The driver's devices come, go, or are numbered anew.
FolderChanges(n, d) ==
  /\ n \notin Stable
  /\ bound[n] # d
  /\ bound' = [bound EXCEPT ![n] = d]
  /\ changed' = (changed \/ (phase \in {"size", "telem"} /\ n = Folder))
  /\ UNCHANGED <<setupVars, phase, at, partial, found, pending, result>>

XmlChanges ==
  /\ \E s \in Sets, p \in A!PartSet, v \in Versions \cup {None} : A!FileChanges(s, p, v)
  /\ UNCHANGED <<bound, phase, readVars, found, pending, result>>

-----------------------------------------------------------------------------
(* discoverLocalAggregator.                                                *)

\* The directory cannot be read: the scrape returns an empty map.
ReadDirFails ==
  /\ phase = "idle"
  /\ at' = 1
  /\ result' = NoneFound
  /\ UNCHANGED <<setupVars, bound, phase, partial, changed, found, pending>>

ScrapeBegins ==
  /\ phase = "idle"
  /\ phase' = "guid"
  /\ at' = 1
  /\ found' = NoneFound
  /\ UNCHANGED <<setupVars, bound, partial, changed, pending, result>>

Reading(file) == phase = file /\ at <= Len(Folders)
Readable(file) == bound[Folder] # None /\ <<bound[Folder], file>> \notin Malformed

Forget == partial' = Nothing /\ changed' = FALSE

ReadGuid ==
  /\ Reading("guid") /\ Readable("guid")
  /\ partial' = [partial EXCEPT !.guid = bound[Folder]]
  /\ phase' = "size"
  /\ UNCHANGED <<setupVars, bound, at, changed, found, pending, result>>

ReadSize ==
  /\ Reading("size") /\ Readable("size")
  /\ partial' = [partial EXCEPT !.size = bound[Folder]]
  /\ phase' = "telem"
  /\ UNCHANGED <<setupVars, bound, at, changed, found, pending, result>>

\* Mutation: the aggregator keeps the GUID it had in the scrape before.
ReadTelemKeepsGuid ==
  /\ Reading("telem") /\ bound[Folder] # None
  /\ LET guid == IF Folder \in DOMAIN result THEN result[Folder].guid ELSE partial.guid
         new == [guid |-> guid, size |-> partial.size,
                 telem |-> bound[Folder], changed |-> changed]
     IN  found' = [n \in DOMAIN found \cup {Folder} |-> IF n = Folder THEN new ELSE found[n]]
  /\ phase' = "guid"
  /\ at' = at + 1
  /\ Forget
  /\ UNCHANGED <<setupVars, bound, pending, result>>

ReadTelem ==
  /\ Reading("telem") /\ bound[Folder] # None
  /\ LET new == [guid |-> partial.guid, size |-> partial.size,
                 telem |-> bound[Folder], changed |-> changed]
     IN  found' = [n \in DOMAIN found \cup {Folder} |-> IF n = Folder THEN new ELSE found[n]]
  /\ phase' = "guid"
  /\ at' = at + 1
  /\ Forget
  /\ UNCHANGED <<setupVars, bound, pending, result>>

\* Mutation: what has a fault ends the discovery.
SkipAll ==
  /\ \E file \in {"guid", "size", "telem"} : Reading(file) /\ ~Readable(file)
  /\ phase' = "guid"
  /\ at' = Len(Folders) + 1
  /\ Forget
  /\ UNCHANGED <<setupVars, bound, found, pending, result>>

\* A file cannot be read, is empty, or is not a number: on to the next folder.
Skip ==
  /\ \E file \in {"guid", "size", "telem"} : Reading(file) /\ ~Readable(file)
  /\ phase' = "guid"
  /\ at' = at + 1
  /\ Forget
  /\ UNCHANGED <<setupVars, bound, found, pending, result>>

Discovered ==
  /\ phase = "guid"
  /\ at > Len(Folders)
  /\ phase' = "setup"
  /\ pending' = DOMAIN found
  /\ UNCHANGED <<setupVars, bound, readVars, found, result>>

-----------------------------------------------------------------------------
(* getPMTLocal, which ranges over a map: in any order.                     *)

KeyOf(n) == ReportedKey(found[n].guid, found[n].size)

\* Mutation: a folder is not waited for before the next one is set up.
VisitAtOnce(n) ==
  /\ phase = "setup"
  /\ n \in pending
  /\ KeyOf(n) \in DOMAIN lookup
  /\ job' = [name |-> n, key |-> KeyOf(n)]
  /\ xmlSet' = lookup[KeyOf(n)]
  /\ pending' = pending \ {n}
  /\ UNCHANGED <<lookup, disk, cache, step, setup, outcome, decoder, firstRead>>
  /\ UNCHANGED <<bound, phase, readVars, found, result>>

Visit(n) ==
  /\ phase = "setup"
  /\ n \in pending
  /\ A!LookUp(n, KeyOf(n)) \/ A!LookUpFails(n, KeyOf(n))
  /\ pending' = pending \ {n}
  /\ UNCHANGED <<bound, phase, readVars, found, result>>

SetUp == A!Load /\ UNCHANGED <<bound, phase, readVars, found, pending, result>>

ScrapeEnds ==
  /\ phase = "setup"
  /\ pending = {} /\ job = None
  /\ result' = [n \in {m \in DOMAIN found : outcome[m] = "ok"} |-> found[n]]
  /\ phase' = "idle"
  /\ UNCHANGED <<setupVars, bound, readVars, found, pending>>

Next ==
  \/ \E n \in Names, d \in Devices \cup {None} : FolderChanges(n, d)
  \/ XmlChanges
  \/ ReadDirFails
  \/ ScrapeBegins
  \/ ReadGuid
  \/ ReadSize
  \/ ReadTelem
  \/ Skip
  \/ Discovered
  \/ \E n \in Names : Visit(n)
  \/ SetUp
  \/ ScrapeEnds

Spec == Init /\ [][Next]_vars

-----------------------------------------------------------------------------
(* Properties.                                                             *)

\* Nothing makes the three reads of a folder one read, but nothing outlives a
\* scrape either: data is decoded by the GUID and size of another device only if
\* the folder changed hands between those very reads, and the next scrape is
\* right again (receiver.go:403-449).  The agent, which remembers, is worse off:
\* MisreadOnlyIfRenumbered of PmtAgent.
MixedOnlyIfChanged ==
  \A n \in DOMAIN result :
    ~result[n].changed => result[n].guid = result[n].telem /\ result[n].size = result[n].telem

Listed(d) == ReportedKey(d, d) \in DOMAIN lookup
WellFormed(d) == \A file \in {"guid", "size"} : <<d, file>> \notin Malformed
FirstSet(d) == A!FirstListed(ReportedKey(d, d))

\* Whatever the other folders do, and whatever becomes of their XML sets, every
\* scrape returns the data of a stable folder whose device pmt.xml lists, unless
\* its own set has a file that may change (receiver.go:317-377, 395-449).
StableFolderReturned ==
  phase = "idle" /\ at > 1 =>
    \A n \in Stable :
      /\ WellFormed(Home[n]) /\ Listed(Home[n])
      /\ \A p \in A!PartSet : <<FirstSet(Home[n]), p>> \notin Fragile
      => n \in DOMAIN result /\ result[n].telem = Home[n]

\* Folders that come and go between the reads, and a map in any order, are set up
\* with the lookup map and the caches just as the resources of a Redfish scrape
\* are: what is true of AggregatorSetup is true here (receiver.go:271-377).
ImplementsSetup == A!Spec

\* "Using _guid_ and _size_ information, the associated Intel PMT XML files
\* set can be identified using repository metadata at _xml/pmt.xml_"
\* (Readme.md): a folder whose GUID and size pmt.xml lists is not unknown.
ListedDeviceIsKnown ==
  \A n \in Stable :
    outcome[n] = "unknown" =>
      ~\E m \in A!Listed : A!Usable(m) /\ m.guid[1] = Identity[Home[n]].num
                             /\ m.size = Identity[Home[n]].size
=============================================================================
