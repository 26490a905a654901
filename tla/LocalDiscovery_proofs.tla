------------------------ MODULE LocalDiscovery_proofs ------------------------
(***************************************************************************)
(* What a scrape of the local mode may mix up and what it always returns,  *)
(* for any folders, devices, changes of sysfs and changes of the XML tree; *)
(* and that it sets up what it finds as AggregatorSetup says.              *)
(***************************************************************************)
EXTENDS LocalDiscovery, TLAPS

\* What is proved of AggregatorSetup, for the resources that are discovered here.
AP == INSTANCE AggregatorSetup_proofs WITH Reports <- [n \in Names |-> Keys]

\* Where the loop over the folders is.
LoopInv ==
  /\ bound \in [Names -> Devices \cup {None}]
  /\ at \in Nat \ {0}
  /\ phase \in {"idle", "guid", "size", "telem", "setup"}
  /\ phase \in {"size", "telem"} => at <= Len(Folders)
  /\ partial \in [{"guid", "size"} -> Devices \cup {None}]

\* What was read of a folder that has not changed since is its device's.
PartialInv ==
  /\ phase \notin {"size", "telem"} => ~changed
  /\ phase \in {"size", "telem"} /\ ~changed => partial.guid = bound[Folder]
  /\ phase = "telem" /\ ~changed => partial.size = bound[Folder]

Pure(aggregator) ==
  ~aggregator.changed =>
    aggregator.guid = aggregator.telem /\ aggregator.size = aggregator.telem

IInv ==
  /\ LoopInv
  /\ PartialInv
  /\ \A n \in DOMAIN found : Pure(found[n])
  /\ MixedOnlyIfChanged

LEMMA InitIInv == Init => IInv
<1> SUFFICES ASSUME Init PROVE IInv
  OBVIOUS
<1>1. LoopInv
  BY DEF Init, LoopInv, Nothing
<1>3. PartialInv
  <2>1. phase = "idle" /\ ~changed
    BY DEF Init
  <2> QED  BY <2>1 DEF PartialInv
<1>2. (\A n \in DOMAIN found : Pure(found[n])) /\ MixedOnlyIfChanged
  BY DEF Init, NoneFound, MixedOnlyIfChanged
<1> QED  BY <1>1, <1>2, <1>3 DEF IInv

\* The folder that the loop is at has a name.
LEMMA FolderFact == at \in 1..Len(Folders) => Folder \in Names
  BY FoldersAssumption DEF Folder, Names

\* Every step keeps the invariant.
LEMMA NextIInv == IInv /\ [Next]_vars => IInv'
<1> SUFFICES ASSUME IInv, [Next]_vars PROVE IInv'
  OBVIOUS
<1> USE DEF IInv
<1>1. Len(Folders) \in Nat
  BY FoldersAssumption
<1>2. ASSUME NEW n \in Names, NEW d \in Devices \cup {None}, FolderChanges(n, d)
      PROVE  IInv'
  <2>1. UNCHANGED <<phase, at, partial, found, result>>
    BY <1>2 DEF FolderChanges
  <2>2. LoopInv'
    BY <1>2, <2>1 DEF LoopInv, FolderChanges
  <2>3. PartialInv'
    <3>1. CASE phase \in {"size", "telem"}
      <4>1. at \in 1..Len(Folders)
        BY <3>1, <1>1 DEF LoopInv
      <4>2. Folder \in Names /\ Folder' = Folder
        BY <4>1, <2>1, FolderFact DEF Folder
      <4>3. ~changed' => ~changed /\ n # Folder
        BY <3>1, <1>2 DEF FolderChanges
      <4>4. ~changed' => bound'[Folder] = bound[Folder]
        BY <4>2, <4>3, <1>2 DEF FolderChanges, LoopInv
      <4> QED  BY <3>1, <2>1, <4>2, <4>3, <4>4 DEF PartialInv
    <3>2. CASE phase \notin {"size", "telem"}
      BY <3>2, <1>2, <2>1 DEF PartialInv, FolderChanges
    <3> QED  BY <3>1, <3>2
  <2> QED  BY <2>1, <2>2, <2>3 DEF MixedOnlyIfChanged, Pure
<1>3. CASE XmlChanges \/ SetUp \/ (\E n \in Names : Visit(n)) \/ UNCHANGED vars
  <2>1. UNCHANGED <<bound, phase, at, partial, changed, found, result>>
    BY <1>3 DEF XmlChanges, SetUp, Visit, vars, readVars
  <2> QED  BY <2>1 DEF LoopInv, PartialInv, Folder, MixedOnlyIfChanged, Pure
<1>4. CASE ReadDirFails \/ ScrapeBegins \/ Discovered
  <2>1. /\ UNCHANGED <<bound, partial, changed>>
        /\ phase \in {"idle", "guid"} /\ phase' \in {"idle", "guid", "setup"}
        /\ at' \in {1, at}
        /\ found' \in {NoneFound, found} /\ result' \in {NoneFound, result}
    BY <1>4 DEF ReadDirFails, ScrapeBegins, Discovered, readVars
  <2>2. LoopInv' /\ PartialInv'
    BY <2>1 DEF LoopInv, PartialInv
  <2>3. (\A n \in DOMAIN found' : Pure(found'[n])) /\ MixedOnlyIfChanged'
    BY <2>1 DEF MixedOnlyIfChanged, NoneFound
  <2> QED  BY <2>2, <2>3 DEF Pure
<1>5. CASE ReadGuid
  <2>1. /\ phase = "guid" /\ phase' = "size" /\ at <= Len(Folders)
        /\ partial' = [partial EXCEPT !.guid = bound[Folder]]
        /\ UNCHANGED <<bound, at, changed, found, result>>
    BY <1>5 DEF ReadGuid, Reading
  <2>2. Folder \in Names
    BY <2>1, <1>1, FolderFact DEF LoopInv
  <2>3. LoopInv' /\ PartialInv'
    BY <2>1, <2>2 DEF LoopInv, PartialInv, Folder
  <2> QED  BY <2>1, <2>3 DEF MixedOnlyIfChanged, Pure
<1>6. CASE ReadSize
  <2>1. /\ phase = "size" /\ phase' = "telem" /\ at <= Len(Folders)
        /\ partial' = [partial EXCEPT !.size = bound[Folder]]
        /\ UNCHANGED <<bound, at, changed, found, result>>
    BY <1>6 DEF ReadSize, Reading
  <2>2. Folder \in Names
    BY <2>1, <1>1, FolderFact DEF LoopInv
  <2>3. LoopInv' /\ PartialInv'
    BY <2>1, <2>2 DEF LoopInv, PartialInv, Folder
  <2> QED  BY <2>1, <2>3 DEF MixedOnlyIfChanged, Pure
<1>7. CASE ReadTelem
  <2> DEFINE new == [guid |-> partial.guid, size |-> partial.size,
                     telem |-> bound[Folder], changed |-> changed]
  <2>1. /\ phase = "telem" /\ phase' = "guid" /\ at' = at + 1
        /\ found' = [n \in DOMAIN found \cup {Folder} |-> IF n = Folder THEN new ELSE found[n]]
        /\ partial' = Nothing /\ changed' = FALSE
        /\ UNCHANGED <<bound, result>>
    BY <1>7 DEF ReadTelem, Reading, Forget
  <2>2. Pure(new)
    BY <2>1 DEF PartialInv, Pure
  <2> HIDE DEF new
  <2>3. \A n \in DOMAIN found' : Pure(found'[n])
    BY <2>1, <2>2
  <2>4. LoopInv' /\ PartialInv'
    <3>1. ~changed'
      BY <2>1
    <3>2. LoopInv'
      BY <2>1 DEF LoopInv, Nothing
    <3> QED  BY <2>1, <3>1, <3>2 DEF PartialInv
  <2>5. MixedOnlyIfChanged'
    BY <2>1 DEF MixedOnlyIfChanged
  <2> QED  BY <2>3, <2>4, <2>5 DEF Pure
<1>8. CASE Skip
  <2>1. /\ phase' = "guid" /\ at' = at + 1
        /\ partial' = Nothing /\ changed' = FALSE
        /\ UNCHANGED <<bound, found, result>>
    BY <1>8 DEF Skip, Forget
  <2>2. ~changed'
    BY <2>1
  <2>3. LoopInv'
    BY <2>1 DEF LoopInv, Nothing
  <2>4. PartialInv'
    BY <2>1, <2>2 DEF PartialInv
  <2> QED  BY <2>1, <2>3, <2>4 DEF MixedOnlyIfChanged, Pure
<1>9. CASE ScrapeEnds
  <2>1. /\ phase = "setup" /\ phase' = "idle"
        /\ result' = [n \in {m \in DOMAIN found : outcome[m] = "ok"} |-> found[n]]
        /\ UNCHANGED <<bound, at, partial, changed, found>>
    BY <1>9 DEF ScrapeEnds, readVars
  <2>2. MixedOnlyIfChanged'
    BY <2>1 DEF MixedOnlyIfChanged, Pure
  <2> QED  BY <2>1, <2>2 DEF LoopInv, PartialInv, Pure
<1> QED  BY <1>2, <1>3, <1>4, <1>5, <1>6, <1>7, <1>8, <1>9 DEF Next

\* A scrape returns data under another device's GUID or size only if the folder
\* changed hands between the reads of its three files.
THEOREM NothingMixedUp == Spec => []MixedOnlyIfChanged
<1>1. IInv => MixedOnlyIfChanged
  BY DEF IInv
<1> QED  BY <1>1, InitIInv, NextIInv, PTL DEF Spec

-----------------------------------------------------------------------------
(* The set-up is AggregatorSetup's.                                        *)

LEMMA SameParts ==
  /\ A!PartSet = AP!PartSet /\ A!Parts = AP!Parts /\ A!Bases = AP!Bases
  /\ A!Empty = AP!Empty /\ A!Listed = AP!Listed
  /\ A!BuildLookupMap(Mappings) = AP!BuildLookupMap(Mappings)
  /\ \A key : A!FirstListed(key) = AP!FirstListed(key)
BY DEF A!Listed, AP!Listed, A!PartSet, AP!PartSet, A!Parts, AP!Parts, A!Bases, AP!Bases,
       A!Empty, AP!Empty, A!BuildLookupMap, AP!BuildLookupMap, A!Usable, AP!Usable,
       A!KeyOf, AP!KeyOf, A!FirstListed, AP!FirstListed

LEMMA SameInit == A!Init <=> AP!Init
BY SameParts DEF A!Init, AP!Init

LEMMA SameNext == [A!Next]_(A!vars) <=> [AP!Next]_(AP!vars)
<1>1. A!Next <=> AP!Next
  BY SameParts DEF A!Next, AP!Next, A!FileChanges, AP!FileChanges, A!Scrape, AP!Scrape,
     A!LookUp, AP!LookUp, A!LookUpFails, AP!LookUpFails, A!Finish, AP!Finish, A!Load, AP!Load,
     A!TakeCached, AP!TakeCached, A!LoadFile, AP!LoadFile, A!LoadFails, AP!LoadFails,
     A!SetupReturns, AP!SetupReturns, A!Take, AP!Take, A!Cached, AP!Cached,
     A!OnDisk, AP!OnDisk, A!Keeps, AP!Keeps, A!Reads, AP!Reads, A!cacheVars, AP!cacheVars
<1> QED
  BY <1>1 DEF A!vars, AP!vars, A!cacheVars, AP!cacheVars

\* The assumptions of AggregatorSetup, as its theorems ask for them.
LEMMA SetupAssumptions ==
  /\ Basedir \in [Sets -> {Basedir[s] : s \in Sets}]
  /\ \A s, t \in Sets : Basedir[s] = Basedir[t] => s = t
  /\ Mappings \in Seq(AP!Listed)
  /\ \A m \in AP!Listed : m.set \in Sets
  /\ Fragile \subseteq Sets \X AP!PartSet
  /\ None \notin Versions /\ None \notin Names /\ None \notin Sets
  /\ None \notin [set : Sets, part : AP!PartSet, version : Versions]
BY SetupAssumption, SameParts DEF A!Contents

LEMMA SetupInit == A!Init => AP!IInv
BY SameInit, SetupAssumptions, AP!InitIInv

LEMMA SetupNext == AP!IInv /\ [A!Next]_(A!vars) => AP!IInv'
BY SameNext, SetupAssumptions, AP!NextIInv

LEMMA SetupFirst ==
  ASSUME NEW key \in DOMAIN A!BuildLookupMap(Mappings)
  PROVE  A!BuildLookupMap(Mappings)[key] = A!FirstListed(key)
BY SameParts, SetupAssumptions, AP!LookupIsFirst

\* What is needed of the invariant of the set-up.
LEMMA SetupFacts ==
  ASSUME AP!IInv
  PROVE  /\ lookup = A!BuildLookupMap(Mappings)
         /\ DOMAIN outcome = Names
         /\ disk \in [Sets \X A!PartSet -> Versions \cup {None}]
         /\ job # None => /\ job.name \in Names /\ job.key \in DOMAIN lookup
                          /\ xmlSet = lookup[job.key] /\ xmlSet \in Sets
                          /\ step <= 3 => A!Parts[step] \in A!PartSet
<1>1. /\ lookup = AP!BuildLookupMap(Mappings)
      /\ DOMAIN outcome = Names
      /\ disk \in [Sets \X AP!PartSet -> Versions \cup {None}]
      /\ step \in 1..4
  BY DEF AP!IInv, AP!TypeOK
<1>2. job # None => /\ job.name \in Names /\ job.key \in DOMAIN lookup
                    /\ xmlSet = lookup[job.key] /\ xmlSet \in Sets
  BY DEF AP!IInv, AP!TypeOK, AP!JobInv
<1>3. \A i \in 1..3 : AP!Parts[i] \in AP!PartSet
  BY SetupAssumptions, AP!PartsAreThree
<1>4. step <= 3 => step \in 1..3
  BY <1>1
<1> QED
  BY <1>1, <1>2, <1>3, <1>4, SameParts

-----------------------------------------------------------------------------
(* What a scrape finds, and what becomes of it.                            *)

Own(aggregator, d) == aggregator.guid = d /\ aggregator.size = d /\ aggregator.telem = d

\* What StableFolderReturned asks of a folder.
Good(n) ==
  /\ n \in Stable /\ WellFormed(Home[n]) /\ Listed(Home[n])
  /\ \A p \in A!PartSet : <<FirstSet(Home[n]), p>> \notin Fragile

\* Files that do not change can be read.
DiskInv == \A f \in (Sets \X A!PartSet) \ Fragile : disk[f] # None

\* A stable folder has its own device's files, and what was read of any folder is
\* some device's.
ReadInv ==
  /\ \A n \in Stable : bound[n] = Home[n]
  /\ phase \in {"size", "telem"} =>
       partial.guid \in Devices /\ (Folder \in Stable => partial.guid = Home[Folder])
  /\ phase = "telem" =>
       partial.size \in Devices /\ (Folder \in Stable => partial.size = Home[Folder])

\* The stable folders that the loop has passed are found.
FoundInv ==
  /\ \A n \in DOMAIN found :
       n \in Names /\ found[n].guid \in Devices /\ found[n].size \in Devices
  /\ \A n \in DOMAIN found : n \in Stable => Own(found[n], Home[n])
  /\ phase # "idle" => \A i \in 1..Len(Folders) :
       i < at /\ Folders[i] \in Stable /\ WellFormed(Home[Folders[i]]) => Folders[i] \in DOMAIN found
  /\ phase = "setup" => at > Len(Folders)

\* What was found waits to be set up, or is being set up, or has been.
VisitInv ==
  /\ pending \subseteq DOMAIN found
  /\ phase # "setup" => pending = {} /\ job = None
  /\ job # None => job.name \in DOMAIN found /\ job.key = KeyOf(job.name)
  /\ phase = "setup" => \A n \in DOMAIN found :
       Good(n) /\ n \notin pending /\ (job # None => job.name # n) => outcome[n] = "ok"

ScrapeInv ==
  /\ ReadInv
  /\ FoundInv
  /\ VisitInv
  /\ StableFolderReturned

StableInv ==
  /\ IInv
  /\ AP!IInv
  /\ DiskInv
  /\ ScrapeInv

LEMMA ReportedKeyType ==
  ASSUME FoundInv, NEW n \in DOMAIN found PROVE KeyOf(n) \in Keys
BY DEF FoundInv, KeyOf, Keys

LEMMA GoodKey ==
  ASSUME FoundInv, NEW n \in DOMAIN found, Good(n)
  PROVE  KeyOf(n) = ReportedKey(Home[n], Home[n]) /\ KeyOf(n) \in DOMAIN lookup
BY DEF FoundInv, Good, Own, KeyOf, Listed

\* Every step of a scrape is a step of the set-up, or none of it.
LEMMA SetupStep ==
  ASSUME FoundInv, VisitInv, [Next]_vars PROVE [A!Next]_(A!vars)
<1>1. CASE XmlChanges
  BY <1>1 DEF XmlChanges, A!Next
<1>2. ASSUME NEW n \in Names, Visit(n) PROVE A!Next
  <2>1. n \in DOMAIN found
    BY <1>2 DEF Visit, VisitInv
  <2>2. KeyOf(n) \in [m \in Names |-> Keys][n]
    BY <2>1, ReportedKeyType
  <2>3. A!LookUp(n, KeyOf(n)) \/ A!LookUpFails(n, KeyOf(n))
    BY <1>2 DEF Visit
  <2>4. A!Scrape(n)
    BY <2>2, <2>3 DEF A!Scrape
  <2> QED
    BY <2>4 DEF A!Next
<1>3. CASE SetUp
  BY <1>3 DEF SetUp, A!Next
<1>4. CASE ~(XmlChanges \/ SetUp \/ \E n \in Names : Visit(n))
  BY <1>4 DEF Next, vars, setupVars, A!vars, A!cacheVars, FolderChanges, ReadDirFails, ScrapeBegins, ReadGuid,
     ReadSize, ReadTelem, Skip, Discovered, ScrapeEnds
<1> QED
  BY <1>1, <1>2, <1>3, <1>4

LEMMA InitStable == Init => StableInv
<1> SUFFICES ASSUME Init PROVE StableInv
  OBVIOUS
<1>1. /\ phase = "idle" /\ at = 1 /\ found = NoneFound /\ pending = {}
      /\ \A n \in Stable : bound[n] = Home[n]
      /\ A!Init
  BY DEF Init
<1>2. job = None /\ \A f \in (Sets \X A!PartSet) \ Fragile : disk[f] # None
  BY <1>1 DEF A!Init
<1>3. IInv /\ AP!IInv
  BY <1>1, InitIInv, SetupInit
<1>4. DiskInv /\ ReadInv
  BY <1>1, <1>2 DEF DiskInv, ReadInv
<1>5. FoundInv /\ VisitInv /\ StableFolderReturned
  BY <1>1, <1>2 DEF FoundInv, VisitInv, StableFolderReturned, NoneFound
<1> QED
  BY <1>3, <1>4, <1>5 DEF StableInv, ScrapeInv

\* Listed, Good and what they are built of change with the lookup map only.
LEMMA GoodStays == ASSUME lookup' = lookup, NEW n PROVE Good(n)' = Good(n)
BY DEF Good, Listed, WellFormed, FirstSet

\* The map is made once, and only files that may change do.
LEMMA SetupKeeps ==
  ASSUME DiskInv, AP!IInv, [A!Next]_(A!vars) PROVE lookup' = lookup /\ DiskInv'
<1>1. CASE \E s \in Sets, p \in A!PartSet, v \in Versions \cup {None} : A!FileChanges(s, p, v)
  <2>1. PICK s \in Sets, p \in A!PartSet, v \in Versions \cup {None} : A!FileChanges(s, p, v)
    BY <1>1
  <2>2. /\ lookup' = lookup /\ disk' = [disk EXCEPT ![<<s, p>>] = v] /\ <<s, p>> \in Fragile
    BY <2>1 DEF A!FileChanges
  <2>3. \A f \in (Sets \X A!PartSet) \ Fragile : f \in DOMAIN disk /\ f # <<s, p>>
    BY <2>2, SetupFacts
  <2> QED
    BY <2>2, <2>3 DEF DiskInv
<1>2. CASE ~ \E s \in Sets, p \in A!PartSet, v \in Versions \cup {None} : A!FileChanges(s, p, v)
  <2>1. lookup' = lookup /\ disk' = disk
    BY <1>2 DEF A!Next, A!vars, A!cacheVars, A!Scrape, A!LookUp, A!LookUpFails, A!Load, A!TakeCached, A!LoadFile,
       A!LoadFails, A!SetupReturns, A!Take
  <2> QED
    BY <2>1 DEF DiskInv
<1> QED
  BY <1>1, <1>2

\* A set-up ends well if none of its files may change.
LEMMA GoodLoads ==
  ASSUME StableInv, job # None, Good(job.name) PROVE ~A!LoadFails
<1> SUFFICES ASSUME A!LoadFails PROVE FALSE
  OBVIOUS
<1> DEFINE key == ReportedKey(Home[job.name], Home[job.name])
<1>1. /\ job.name \in DOMAIN found /\ job.key = key /\ key \in DOMAIN lookup
  BY GoodKey DEF StableInv, ScrapeInv, VisitInv
<1>2. /\ xmlSet = lookup[key] /\ xmlSet \in Sets /\ lookup = A!BuildLookupMap(Mappings)
      /\ step <= 3 => A!Parts[step] \in A!PartSet
  BY <1>1, SetupFacts DEF StableInv, ScrapeInv
<1>3. xmlSet = FirstSet(Home[job.name])
  BY <1>1, <1>2, SetupFirst DEF FirstSet
<1>4. A!Parts[step] \in A!PartSet /\ disk[<<xmlSet, A!Parts[step]>>] = None
  BY <1>2 DEF A!LoadFails
<1>5. <<xmlSet, A!Parts[step]>> \in (Sets \X A!PartSet) \ Fragile
  BY <1>2, <1>3, <1>4 DEF Good
<1> QED
  BY <1>4, <1>5 DEF StableInv, ScrapeInv, DiskInv

\* Steps that read the folders leave the set-up alone.
LEMMA LoopVisits ==
  ASSUME VisitInv, UNCHANGED setupVars, pending' = pending, found' = found,
         phase # "setup", phase' # "setup"
  PROVE  VisitInv'
BY DEF VisitInv, setupVars, KeyOf

\* Nothing is said of what a scrape returns while it is under way.
LEMMA ScrapingSaysNothing == phase' # "idle" => StableFolderReturned'
BY DEF StableFolderReturned

\* Other folders may change as they like.
LEMMA FolderChangesStable ==
  ASSUME StableInv,
         NEW n \in Names, NEW d \in Devices \cup {None}, FolderChanges(n, d)
  PROVE  ScrapeInv'
<1> USE DEF StableInv, ScrapeInv
<1>1. /\ n \notin Stable /\ bound' = [bound EXCEPT ![n] = d]
      /\ UNCHANGED <<setupVars, phase, at, partial, found, pending, result>>
  BY DEF FolderChanges
<1>2. lookup' = lookup /\ job' = job /\ outcome' = outcome
  BY <1>1 DEF setupVars
<1>3. \A m : Good(m)' = Good(m)
  BY <1>2, GoodStays
<1>4. \A m \in Stable : bound'[m] = bound[m]
  BY <1>1, FoldersAssumption DEF IInv, LoopInv
<1>5. ReadInv'
  BY <1>1, <1>4 DEF ReadInv, Folder
<1>6. FoundInv'
  BY <1>1 DEF FoundInv, Own, WellFormed
<1>7. VisitInv'
  BY <1>1, <1>2, <1>3 DEF VisitInv, KeyOf
<1>8. StableFolderReturned'
  BY <1>1, <1>2 DEF StableFolderReturned, WellFormed, Listed, FirstSet
<1> QED
  BY <1>5, <1>6, <1>7, <1>8

LEMMA XmlChangesStable == ASSUME StableInv, XmlChanges PROVE ScrapeInv'
<1> USE DEF StableInv, ScrapeInv
<1>1. /\ lookup' = lookup /\ job' = job /\ outcome' = outcome
      /\ UNCHANGED <<bound, phase, at, partial, found, pending, result>>
  BY DEF XmlChanges, A!FileChanges, readVars
<1>2. \A m : Good(m)' = Good(m)
  BY <1>1, GoodStays
<1>3. ReadInv' /\ FoundInv'
  BY <1>1 DEF ReadInv, FoundInv, Folder, Own, WellFormed
<1>4. VisitInv'
  BY <1>1, <1>2 DEF VisitInv, KeyOf
<1>5. StableFolderReturned'
  BY <1>1 DEF StableFolderReturned, WellFormed, Listed, FirstSet
<1> QED
  BY <1>3, <1>4, <1>5

LEMMA ScrapeBeginsStable == ASSUME StableInv, ReadDirFails \/ ScrapeBegins PROVE ScrapeInv'
<1> USE DEF StableInv, ScrapeInv
<1>1. /\ UNCHANGED <<setupVars, bound, partial, pending>> /\ phase = "idle" /\ at' = 1
      /\ phase' \in {"idle", "guid"} /\ pending = {} /\ job = None
  BY DEF ReadDirFails, ScrapeBegins, VisitInv
<1>2. job' = job
  BY <1>1 DEF setupVars
<1>3. ReadInv'
  BY <1>1 DEF ReadInv
<1>4. found' \in {found, NoneFound} /\ (phase' = "guid" => found' = NoneFound)
  BY DEF ReadDirFails, ScrapeBegins
<1>5. FoundInv'
  BY <1>1, <1>4 DEF FoundInv, Own, WellFormed, NoneFound
<1>6. VisitInv'
  BY <1>1, <1>2, <1>4 DEF VisitInv
<1>7. StableFolderReturned'
  BY <1>1 DEF StableFolderReturned
<1> QED
  BY <1>3, <1>5, <1>6, <1>7

LEMMA ReadStable == ASSUME StableInv, ReadGuid \/ ReadSize PROVE ScrapeInv'
<1> USE DEF StableInv, ScrapeInv
<1>1. /\ UNCHANGED <<setupVars, bound, at, found, pending>>
      /\ at \in 1..Len(Folders) /\ bound[Folder] # None
  BY FoldersAssumption DEF ReadGuid, ReadSize, Reading, Readable, IInv, LoopInv
<1>2. Folder' = Folder /\ Folder \in Names /\ bound[Folder] \in Devices
  BY <1>1, FolderFact DEF Folder, IInv, LoopInv
<1>3. Folder \in Stable => bound[Folder] = Home[Folder]
  BY DEF ReadInv
<1>4. CASE ReadGuid
  <2>1. phase = "guid" /\ phase' = "size" /\ partial' = [partial EXCEPT !.guid = bound[Folder]]
    BY <1>4 DEF ReadGuid, Reading
  <2>2. partial'.guid = bound[Folder]
    BY <2>1 DEF IInv, LoopInv
  <2>3. ReadInv'
    BY <1>1, <1>2, <1>3, <2>1, <2>2 DEF ReadInv
  <2>4. FoundInv'
    BY <1>1, <2>1 DEF FoundInv, Own, WellFormed
  <2> QED
    BY <1>1, <2>1, <2>3, <2>4, LoopVisits, ScrapingSaysNothing
<1>5. CASE ReadSize
  <2>1. phase = "size" /\ phase' = "telem" /\ partial' = [partial EXCEPT !.size = bound[Folder]]
    BY <1>5 DEF ReadSize, Reading
  <2>2. partial'.guid = partial.guid /\ partial'.size = bound[Folder]
    BY <2>1 DEF IInv, LoopInv
  <2>3. ReadInv'
    BY <1>1, <1>2, <1>3, <2>1, <2>2 DEF ReadInv
  <2>4. FoundInv'
    BY <1>1, <2>1 DEF FoundInv, Own, WellFormed
  <2> QED
    BY <1>1, <2>1, <2>3, <2>4, LoopVisits, ScrapingSaysNothing
<1> QED
  BY <1>4, <1>5

LEMMA ReadTelemStable == ASSUME StableInv, ReadTelem PROVE ScrapeInv'
<1> USE DEF StableInv, ScrapeInv
<1> DEFINE new == [guid |-> partial.guid, size |-> partial.size,
                   telem |-> bound[Folder], changed |-> changed]
<1>1. /\ phase = "telem" /\ phase' = "guid" /\ at' = at + 1
      /\ found' = [n \in DOMAIN found \cup {Folder} |-> IF n = Folder THEN new ELSE found[n]]
      /\ UNCHANGED <<setupVars, bound, pending>>
  BY DEF ReadTelem, Reading
<1>2. at \in 1..Len(Folders) /\ Len(Folders) \in Nat /\ Folder \in Names
  <2>1. at \in 1..Len(Folders) /\ Len(Folders) \in Nat
    BY <1>1, FoldersAssumption DEF IInv, LoopInv
  <2> QED
    BY <2>1, FolderFact
<1>3. new.guid \in Devices /\ new.size \in Devices /\ (Folder \in Stable => Own(new, Home[Folder]))
  BY <1>1 DEF ReadInv, Own
<1> HIDE DEF new
<1>4. ReadInv'
  BY <1>1 DEF ReadInv
<1>5. pending = {} /\ job = None
  BY <1>1 DEF VisitInv
<1>6. FoundInv'
  <2>1. \A n \in DOMAIN found' :
          n \in Names /\ found'[n].guid \in Devices /\ found'[n].size \in Devices
    BY <1>1, <1>2, <1>3 DEF FoundInv
  <2>2. \A n \in DOMAIN found' : n \in Stable => Own(found'[n], Home[n])
    BY <1>1, <1>3 DEF FoundInv
  <2>3. \A i \in 1..Len(Folders) :
          i < at + 1 /\ Folders[i] \in Stable /\ WellFormed(Home[Folders[i]])
            => Folders[i] \in DOMAIN found'
    <3> SUFFICES ASSUME NEW i \in 1..Len(Folders), i < at + 1,
                        Folders[i] \in Stable, WellFormed(Home[Folders[i]])
                 PROVE  Folders[i] \in DOMAIN found'
      OBVIOUS
    <3>1. CASE i = at
      BY <1>1, <3>1 DEF Folder
    <3>2. CASE i < at
      BY <1>1, <3>2 DEF FoundInv
    <3> QED
      BY <1>2, <3>1, <3>2
  <2> QED
    BY <1>1, <2>1, <2>2, <2>3 DEF FoundInv, Own, WellFormed
<1>7. VisitInv'
  BY <1>1, <1>5 DEF VisitInv, setupVars
<1> QED
  BY <1>1, <1>4, <1>6, <1>7, ScrapingSaysNothing

\* No file of a stable folder whose files are well formed is skipped.
LEMMA SkipStable == ASSUME StableInv, Skip PROVE ScrapeInv'
<1> USE DEF StableInv, ScrapeInv
<1>1. /\ phase \in {"guid", "size", "telem"} /\ phase' = "guid" /\ at' = at + 1
      /\ UNCHANGED <<setupVars, bound, found, pending>>
      /\ at \in 1..Len(Folders) /\ Len(Folders) \in Nat
  BY FoldersAssumption DEF Skip, Reading, IInv, LoopInv
<1>2. ~(Folder \in Stable /\ WellFormed(Home[Folder]))
  <2> SUFFICES ASSUME Folder \in Stable, WellFormed(Home[Folder]) PROVE FALSE
    OBVIOUS
  <2>1. bound[Folder] = Home[Folder] /\ bound[Folder] \in Devices /\ bound[Folder] # None
    BY FoldersAssumption DEF ReadInv
  <2>2. \A file \in {"guid", "size", "telem"} : Readable(file)
    BY <2>1, FoldersAssumption DEF Readable, WellFormed
  <2> QED
    BY <2>2 DEF Skip
<1>3. ReadInv'
  BY <1>1 DEF ReadInv
<1>4. \A i \in 1..Len(Folders) :
        i < at + 1 /\ Folders[i] \in Stable /\ WellFormed(Home[Folders[i]])
          => Folders[i] \in DOMAIN found
  <2> SUFFICES ASSUME NEW i \in 1..Len(Folders), i < at + 1,
                      Folders[i] \in Stable, WellFormed(Home[Folders[i]])
               PROVE  Folders[i] \in DOMAIN found
    OBVIOUS
  <2>1. i # at
    BY <1>2 DEF Folder
  <2>2. i < at
    BY <1>1, <2>1
  <2> QED
    BY <1>1, <2>2 DEF FoundInv
<1>5. FoundInv'
  BY <1>1, <1>4 DEF FoundInv, Own, WellFormed
<1> QED
  BY <1>1, <1>3, <1>5, LoopVisits, ScrapingSaysNothing

LEMMA DiscoveredStable == ASSUME StableInv, Discovered PROVE ScrapeInv'
<1> USE DEF StableInv, ScrapeInv
<1>1. /\ phase = "guid" /\ phase' = "setup" /\ at > Len(Folders) /\ pending' = DOMAIN found
      /\ UNCHANGED <<setupVars, bound, at, found>>
  BY DEF Discovered, readVars
<1>2. ReadInv' /\ FoundInv'
  BY <1>1 DEF ReadInv, FoundInv, Own, WellFormed
<1>3. job' = None
  BY <1>1 DEF VisitInv, setupVars
<1>4. VisitInv'
  BY <1>1, <1>3 DEF VisitInv
<1> QED
  BY <1>1, <1>2, <1>4, ScrapingSaysNothing

LEMMA VisitStable == ASSUME StableInv, NEW n \in Names, Visit(n) PROVE ScrapeInv'
<1> USE DEF StableInv, ScrapeInv
<1>1. /\ phase = "setup" /\ n \in pending /\ pending' = pending \ {n} /\ job = None
      /\ UNCHANGED <<bound, phase, at, partial, found, result>>
      /\ n \in DOMAIN found /\ lookup' = lookup
  BY DEF Visit, VisitInv, readVars, A!LookUp, A!LookUpFails
<1>2. \A m : Good(m)' = Good(m)
  BY <1>1, GoodStays
<1>3. ReadInv' /\ FoundInv'
  BY <1>1 DEF ReadInv, FoundInv, Folder, Own, WellFormed
<1>4. \A m \in DOMAIN found : Good(m) /\ m \notin pending => outcome[m] = "ok"
  BY <1>1 DEF VisitInv
<1>5. CASE A!LookUp(n, KeyOf(n))
  <2>1. job' = [name |-> n, key |-> KeyOf(n)] /\ outcome' = outcome
    BY <1>5 DEF A!LookUp
  <2>2. job'.name = n /\ job'.key = KeyOf(n) /\ KeyOf(n)' = KeyOf(n)
    BY <1>1, <2>1 DEF KeyOf
  <2>3. job' # None
    <3>1. [name |-> n, key |-> KeyOf(n)] \in [name : Names, key : Keys]
      BY <1>1, ReportedKeyType
    <3> QED
      BY <2>1, <3>1, SetupAssumption
  <2> QED
    BY <1>1, <1>2, <1>3, <1>4, <2>1, <2>2, <2>3, ScrapingSaysNothing DEF VisitInv
<1>6. CASE A!LookUpFails(n, KeyOf(n))
  <2>1. job' = None /\ outcome' = [outcome EXCEPT ![n] = "unknown"] /\ ~Good(n)
    BY <1>1, <1>6, GoodKey DEF A!LookUpFails, A!Finish
  <2>2. \A m \in DOMAIN found : Good(m) /\ m # n => outcome'[m] = outcome[m]
    BY <2>1, SetupFacts DEF FoundInv
  <2> QED
    BY <1>1, <1>2, <1>3, <1>4, <2>1, <2>2, ScrapingSaysNothing DEF VisitInv
<1> QED
  BY <1>5, <1>6 DEF Visit

LEMMA SetUpStable == ASSUME StableInv, SetUp PROVE ScrapeInv'
<1> USE DEF StableInv, ScrapeInv
<1>1. /\ A!Load
      /\ UNCHANGED <<bound, phase, at, partial, found, pending, result>>
      /\ job # None /\ phase = "setup" /\ job.name \in DOMAIN found
  BY DEF SetUp, readVars, A!Load, A!TakeCached, A!LoadFile, A!LoadFails, A!SetupReturns, VisitInv
<1>2. lookup' = lookup
  BY <1>1 DEF A!Load, A!TakeCached, A!LoadFile, A!LoadFails, A!SetupReturns, A!Take
<1>3. \A m : Good(m)' = Good(m)
  BY <1>2, GoodStays
<1>4. ReadInv' /\ FoundInv'
  BY <1>1 DEF ReadInv, FoundInv, Folder, Own, WellFormed
<1>5. \A m \in DOMAIN found : Good(m) /\ m \notin pending /\ job.name # m => outcome[m] = "ok"
  BY <1>1 DEF VisitInv
<1>6. CASE A!TakeCached \/ A!LoadFile
  <2>1. job' = job /\ outcome' = outcome
    BY <1>6 DEF A!TakeCached, A!LoadFile, A!Take
  <2> QED
    BY <1>1, <1>3, <1>4, <1>5, <2>1, ScrapingSaysNothing DEF VisitInv, KeyOf
<1>7. ASSUME NEW how, job' = None, outcome' = [outcome EXCEPT ![job.name] = how],
             Good(job.name) => how = "ok"
      PROVE  ScrapeInv'
  <2>1. \A m \in DOMAIN found : m \in DOMAIN outcome
    BY SetupFacts DEF FoundInv
  <2>2. \A m \in DOMAIN found : Good(m) /\ m \notin pending => outcome'[m] = "ok"
    BY <1>5, <1>7, <2>1
  <2> QED
    BY <1>1, <1>3, <1>4, <1>7, <2>2, ScrapingSaysNothing DEF VisitInv
<1>8. CASE A!LoadFails
  BY <1>1, <1>7, <1>8, GoodLoads DEF A!LoadFails, A!Finish
<1>9. CASE A!SetupReturns
  BY <1>7, <1>9 DEF A!SetupReturns, A!Finish
<1> QED
  BY <1>1, <1>6, <1>8, <1>9 DEF A!Load

LEMMA ScrapeEndsStable == ASSUME StableInv, ScrapeEnds PROVE ScrapeInv'
<1> USE DEF StableInv, ScrapeInv
<1>1. /\ phase = "setup" /\ phase' = "idle" /\ pending = {} /\ job = None
      /\ result' = [n \in {m \in DOMAIN found : outcome[m] = "ok"} |-> found[n]]
      /\ UNCHANGED <<setupVars, bound, at, found, pending>>
  BY DEF ScrapeEnds, readVars
<1>2. lookup' = lookup /\ job' = job
  BY <1>1 DEF setupVars
<1>3. ReadInv' /\ FoundInv' /\ VisitInv'
  BY <1>1, <1>2 DEF ReadInv, FoundInv, VisitInv, Own
<1>4. ASSUME NEW n, Good(n) PROVE n \in DOMAIN result' /\ result'[n].telem = Home[n]
  <2>1. PICK i \in 1..Len(Folders) : n = Folders[i]
    BY <1>4, FoldersAssumption DEF Good, Names
  <2>2. at > Len(Folders) /\ at \in Nat /\ Len(Folders) \in Nat
    BY <1>1, FoldersAssumption DEF FoundInv, IInv, LoopInv
  <2>3. i < at
    BY <2>2
  <2>4. n \in DOMAIN found
    BY <1>1, <1>4, <2>1, <2>3 DEF FoundInv, Good
  <2>5. outcome[n] = "ok" /\ found[n].telem = Home[n]
    BY <1>1, <1>4, <2>4 DEF VisitInv, FoundInv, Good, Own
  <2> QED
    BY <1>1, <2>4, <2>5
<1>5. StableFolderReturned'
  BY <1>2, <1>4 DEF StableFolderReturned, Good, WellFormed, Listed, FirstSet
<1> QED
  BY <1>3, <1>5

LEMMA StutterStable == ASSUME StableInv, UNCHANGED vars PROVE ScrapeInv'
<1> USE DEF StableInv, ScrapeInv
<1>1. /\ lookup' = lookup /\ job' = job /\ outcome' = outcome
      /\ UNCHANGED <<bound, phase, at, partial, found, pending, result>>
  BY DEF vars, setupVars, readVars
<1>2. \A m : Good(m)' = Good(m)
  BY <1>1, GoodStays
<1>3. ReadInv' /\ FoundInv'
  BY <1>1 DEF ReadInv, FoundInv, Folder, Own, WellFormed
<1>4. VisitInv'
  BY <1>1, <1>2 DEF VisitInv, KeyOf
<1>5. StableFolderReturned'
  BY <1>1 DEF StableFolderReturned, WellFormed, Listed, FirstSet
<1> QED
  BY <1>3, <1>4, <1>5

LEMMA NextStable == StableInv /\ [Next]_vars => StableInv'
<1> SUFFICES ASSUME StableInv, [Next]_vars PROVE StableInv'
  OBVIOUS
<1>1. IInv'
  BY NextIInv DEF StableInv
<1>2. [A!Next]_(A!vars)
  BY SetupStep DEF StableInv, ScrapeInv
<1>3. AP!IInv' /\ DiskInv'
  BY <1>2, SetupNext, SetupKeeps DEF StableInv
<1>4. ScrapeInv'
  BY FolderChangesStable, XmlChangesStable, ScrapeBeginsStable, ReadStable, ReadTelemStable,
     SkipStable, DiscoveredStable, VisitStable, SetUpStable, ScrapeEndsStable, StutterStable
     DEF Next
<1> QED
  BY <1>1, <1>3, <1>4 DEF StableInv

\* Every scrape returns the data of a stable folder whose device pmt.xml lists,
\* whatever the other folders and their XML sets do, unless its own set has a file
\* that may change (receiver.go:317-377, 395-449).
THEOREM StableReturned == Spec => []StableFolderReturned
<1>1. StableInv => StableFolderReturned
  BY DEF StableInv, ScrapeInv
<1> QED
  BY <1>1, InitStable, NextStable, PTL DEF Spec

\* The local mode uses the lookup map and the caches as AggregatorSetup says: each
\* of its steps is one of a set-up or leaves the set-up alone (receiver.go:317-377).
THEOREM UsesSetup == Spec => ImplementsSetup
<1>1. Init => A!Init
  BY DEF Init
<1>2. StableInv /\ [Next]_vars => [A!Next]_(A!vars)
  BY SetupStep DEF StableInv, ScrapeInv
<1> QED
  BY <1>1, <1>2, InitStable, NextStable, PTL DEF Spec, A!Spec, ImplementsSetup

\* So it decodes a folder with the files of the set that pmt.xml lists first for
\* its key, as the Redfish mode does.
THEOREM DecodesWithOwnFiles == Spec => []A!DecodedWithOwnFiles
<1>1. AP!IInv => AP!DecodedWithOwnFiles
  <2>1. AP!IInv => \A n \in Names : decoder[n] # None =>
          \A p \in AP!PartSet :
            /\ decoder[n].files[p].set = lookup[decoder[n].key]
            /\ decoder[n].files[p].part = p
            /\ decoder[n].key \in DOMAIN lookup /\ lookup = AP!BuildLookupMap(Mappings)
    BY DEF AP!IInv, AP!DecoderInv
  <2> QED
    BY <2>1, SetupFirst, SameParts DEF AP!DecodedWithOwnFiles
<1>2. StableInv => A!DecodedWithOwnFiles
  BY <1>1, SameParts DEF StableInv, A!DecodedWithOwnFiles, AP!DecodedWithOwnFiles
<1> QED
  BY <1>2, InitStable, NextStable, PTL DEF Spec

\* And a folder's set-up ends with what was read of its three files first, or it
\* fails because one of them was never read, although the set-ups of folders that
\* come, go and are renumbered fill the caches in any order (receiver.go:275-377).
THEOREM FirstReadsCountHere == Spec => A!FirstReadCounts
<1>1. A!Spec <=> AP!Spec
  BY SameInit, SameNext, PTL DEF A!Spec, AP!Spec
<1>2. AP!FirstReadCounts => A!FirstReadCounts
  <2>1. [job # None /\ job' = None =>
           LET set == AP!FirstListed(job.key)
           IN  \/ /\ outcome'[job.name] = "failed"
                  /\ \E p \in AP!PartSet : firstRead[<<set, p>>] = None
               \/ /\ outcome'[job.name] = "ok"
                  /\ \A p \in AP!PartSet :
                       decoder'[job.name].files[p].version = firstRead[<<set, p>>]]_(AP!vars)
        => [job # None /\ job' = None =>
              LET set == A!FirstListed(job.key)
              IN  \/ /\ outcome'[job.name] = "failed"
                     /\ \E p \in A!PartSet : firstRead[<<set, p>>] = None
                  \/ /\ outcome'[job.name] = "ok"
                     /\ \A p \in A!PartSet :
                          decoder'[job.name].files[p].version = firstRead[<<set, p>>]]_(A!vars)
    BY SameParts DEF A!vars, AP!vars, A!cacheVars, AP!cacheVars
  <2> QED  BY <2>1, PTL DEF AP!FirstReadCounts, A!FirstReadCounts
<1> QED
  BY UsesSetup, SetupAssumptions, <1>1, <1>2, AP!FirstReadsCount, PTL DEF ImplementsSetup
=============================================================================
