-------------------------- MODULE AggregatorSetup --------------------------
(***************************************************************************)
(* How the Go receiver finds the XML files of a telemetry device:          *)
(* BuildLookupMap turns pmt.xml into a map from (GUID text, size) to an    *)
(* XML set (xml-parser.go:305-347), a scrape discovers resources with a    *)
(* GUID text and a size each, and setupAggregatorComponents loads the      *)
(* three files of the set, each kept in a cache of its own whose key is    *)
(* the set's base directory (receiver.go:271-315).  Between two reads the  *)
(* files may become unreadable, come back, or be replaced.                 *)
(*                                                                         *)
(* By itself the module is the set-up of what Redfish discovers, where a   *)
(* resource is a place in the BMC's answer and may be another device in    *)
(* the next one; LocalDiscovery uses it for the folders of sysfs.          *)
(*                                                                         *)
(* A GUID text is the number it spells and how it spells it: with 8 hex    *)
(* digits, or with fewer when its leading digits are zero.  The map        *)
(* compares texts, so the spelling matters.                                *)
(***************************************************************************)
EXTENDS Naturals, Sequences

CONSTANTS
  Sets,       \* the XML sets named by pmt.xml
  Basedir,    \* [Sets -> base directories]
  Wide,       \* GUID numbers that need all 8 hex digits
  Mappings,   \* pmt.xml in document order: [guid, size, valid, set] records
  Names,      \* names of the resources of a scrape
  Reports,    \* [Names -> the keys <<GUID text, size>> each may come with]
  Versions,   \* contents of a file before and after an update
  Fragile,    \* <<set, part>> files that may change or be unreadable
  None

Parts == <<"common", "aggregator", "interface">>
PartSet == {Parts[i] : i \in 1..Len(Parts)}

\* Text of a number; only short numbers have two spellings.
Text(n, spelling) == <<n, IF n \in Wide THEN "padded" ELSE spelling>>
Listed == {Mappings[i] : i \in 1..Len(Mappings)}

\* Every base directory of pmt.xml holds one XML set.  The cache is right
\* because of it.
ASSUME OneSetPerBasedir ==
  /\ Basedir \in [Sets -> {Basedir[s] : s \in Sets}]
  /\ \A s, t \in Sets : Basedir[s] = Basedir[t] => s = t
ASSUME ListedSetsExist ==
  /\ Mappings \in Seq(Listed)
  /\ \A m \in Listed : m.set \in Sets
ASSUME FilesAssumption ==
  /\ Fragile \subseteq Sets \X PartSet
  /\ None \notin Versions /\ None \notin Names /\ None \notin Sets
  /\ None \notin [set : Sets, part : PartSet, version : Versions]

VARIABLES
  lookup,     \* ipr.lookupMap, a function from <<text, size>> to a set
  disk,       \* [Sets \X PartSet -> Versions or None when unreadable]
  cache,      \* the three caches: [PartSet -> [base directories -> content]]
  job,        \* the resource [name, key] being set up, or None
  xmlSet,     \* its XML set
  step,       \* index in Parts of the file to load next
  setup,      \* the commonAggregatorSetup under construction
  outcome,    \* [Names -> how its last set-up ended]
  decoder,    \* [Names -> the key it had and the set-up it is decoded with]
  firstRead   \* history: what each file held when it was first read, or None

cacheVars == <<cache, firstRead>>
vars == <<lookup, disk, cacheVars, job, xmlSet, step, setup, outcome, decoder>>

Bases == {Basedir[s] : s \in Sets}
Contents == [set : Sets, part : PartSet, version : Versions]
Empty == [p \in PartSet |-> None]

-----------------------------------------------------------------------------
(* The lookup map.                                                         *)

\* A GUID that is not "0x" and hex digits, or a size that is not a number, is
\* warned about and skipped.
Usable(m) == m.valid
KeyOf(m) == <<m.guid, m.size>>

\* Mutation: a later mapping replaces an earlier one.
LookupMapLastWins(seq) ==
  LET good == {i \in 1..Len(seq) : Usable(seq[i])}
  IN  [k \in {KeyOf(seq[i]) : i \in good} |->
         seq[CHOOSE i \in good : KeyOf(seq[i]) = k
               /\ \A j \in good : KeyOf(seq[j]) = k => j <= i].set]

\* A repeated (GUID, size) is skipped: the first mapping wins.
BuildLookupMap(seq) ==
  LET good == {i \in 1..Len(seq) : Usable(seq[i])}
  IN  [k \in {KeyOf(seq[i]) : i \in good} |->
         seq[CHOOSE i \in good : KeyOf(seq[i]) = k
               /\ \A j \in good : KeyOf(seq[j]) = k => i <= j].set]

-----------------------------------------------------------------------------

TypeOK ==
  /\ \A k \in DOMAIN lookup : lookup[k] \in Sets
  /\ disk \in [Sets \X PartSet -> Versions \cup {None}]
  /\ cache \in [PartSet -> [Bases -> Contents \cup {None}]]
  /\ job # None => job.name \in Names /\ job.key \in DOMAIN lookup
  /\ xmlSet \in Sets \cup {None}
  /\ step \in 1..4
  /\ setup \in [PartSet -> Contents \cup {None}]
  /\ outcome \in [Names -> {"none", "ok", "unknown", "failed"}]
  /\ DOMAIN decoder = Names
  /\ \A n \in Names : decoder[n] # None => decoder[n].files \in [PartSet -> Contents]
  /\ firstRead \in [Sets \X PartSet -> Versions \cup {None}]

Init ==
  /\ lookup = BuildLookupMap(Mappings)
  /\ disk \in [Sets \X PartSet -> Versions \cup {None}]
  /\ \A f \in (Sets \X PartSet) \ Fragile : disk[f] # None
  /\ cache = [p \in PartSet |-> [b \in Bases |-> None]]
  /\ job = None
  /\ xmlSet = None
  /\ step = 1
  /\ setup = Empty
  /\ outcome = [n \in Names |-> "none"]
  /\ decoder = [n \in Names |-> None]
  /\ firstRead = [f \in Sets \X PartSet |-> None]

\* Someone updates, removes or restores a file of the XML tree.
FileChanges(s, p, v) ==
  /\ <<s, p>> \in Fragile
  /\ disk[<<s, p>>] # v
  /\ disk' = [disk EXCEPT ![<<s, p>>] = v]
  /\ UNCHANGED <<lookup, cacheVars, job, xmlSet, step, setup, outcome, decoder>>

Finish(n, how, with) ==
  /\ job' = None
  /\ xmlSet' = None
  /\ step' = 1
  /\ setup' = Empty
  /\ outcome' = [outcome EXCEPT ![n] = how]
  /\ decoder' = [decoder EXCEPT ![n] = with]

\* The scrape comes to resource n, and FindXMLSetForGUIDSize knows its key
\* not ...
LookUpFails(n, key) ==
  /\ job = None
  /\ key \notin DOMAIN lookup
  /\ Finish(n, "unknown", None)
  /\ UNCHANGED <<lookup, disk, cacheVars>>

\* ... or names its XML set.
LookUp(n, key) ==
  /\ job = None
  /\ key \in DOMAIN lookup
  /\ job' = [name |-> n, key |-> key]
  /\ xmlSet' = lookup[key]
  /\ UNCHANGED <<lookup, disk, cacheVars, step, setup, outcome, decoder>>

Cached(p) == cache[p][Basedir[xmlSet]]

Take(content) ==
  /\ setup' = [setup EXCEPT ![Parts[step]] = content]
  /\ step' = step + 1
  /\ UNCHANGED <<lookup, disk, job, xmlSet, outcome, decoder>>

TakeCached ==
  /\ job # None /\ step <= 3
  /\ Cached(Parts[step]) # None
  /\ Take(Cached(Parts[step]))
  /\ UNCHANGED cacheVars

OnDisk ==
  [set |-> xmlSet, part |-> Parts[step],
   version |-> disk[<<xmlSet, Parts[step]>>]]

Reads ==
  firstRead' = [firstRead EXCEPT ![<<xmlSet, Parts[step]>>] =
                  IF @ = None THEN disk[<<xmlSet, Parts[step]>>] ELSE @]

Keeps(p, content) == cache' = [cache EXCEPT ![p][Basedir[xmlSet]] = content]

\* Mutation: the error of the read is not looked at.
LoadFileUnread ==
  /\ job # None /\ step <= 3
  /\ Cached(Parts[step]) = None
  /\ Take(OnDisk)
  /\ Keeps(Parts[step], OnDisk)
  /\ Reads

\* Mutation: what was read is used, but not put into the cache.
LoadFileNotKept ==
  /\ job # None /\ step <= 3
  /\ Cached(Parts[step]) = None
  /\ disk[<<xmlSet, Parts[step]>>] # None
  /\ Take(OnDisk)
  /\ Reads
  /\ UNCHANGED cache

\* A file that is read is kept for the life of the receiver.
LoadFile ==
  /\ job # None /\ step <= 3
  /\ Cached(Parts[step]) = None
  /\ disk[<<xmlSet, Parts[step]>>] # None
  /\ Take(OnDisk)
  /\ Keeps(Parts[step], OnDisk)
  /\ Reads

\* Mutation: the empty value of a failed read is kept as if it were loaded.
LoadFailsRemembered ==
  /\ job # None /\ step <= 3
  /\ Cached(Parts[step]) = None
  /\ disk[<<xmlSet, Parts[step]>>] = None
  /\ Finish(job.name, "failed", None)
  /\ lookup' = [k \in DOMAIN lookup \ {job.key} |-> lookup[k]]
  /\ UNCHANGED <<disk, cacheVars>>

\* The file cannot be read: this scrape goes without the device, the parts
\* already read stay cached.
LoadFails ==
  /\ job # None /\ step <= 3
  /\ Cached(Parts[step]) = None
  /\ disk[<<xmlSet, Parts[step]>>] = None
  /\ Finish(job.name, "failed", None)
  /\ UNCHANGED <<lookup, disk, cacheVars>>

SetupReturns ==
  /\ job # None /\ step = 4
  /\ Finish(job.name, "ok", [key |-> job.key, files |-> setup])
  /\ UNCHANGED <<lookup, disk, cacheVars>>

Scrape(n) == \E key \in Reports[n] : LookUp(n, key) \/ LookUpFails(n, key)
Load == TakeCached \/ LoadFile \/ LoadFails \/ SetupReturns

Next ==
  \/ \E s \in Sets, p \in PartSet, v \in Versions \cup {None} : FileChanges(s, p, v)
  \/ \E n \in Names : Scrape(n)
  \/ Load

Spec == Init /\ [][Next]_vars

\* Every scrape walks over all resources, one after the other.
FairSpec ==
  /\ Spec
  /\ WF_vars(Load)
  /\ \A n \in Names : SF_vars(Scrape(n))

-----------------------------------------------------------------------------
(* Properties.                                                             *)

\* The set pmt.xml lists first for a text and a size.
FirstListed(key) ==
  LET i == CHOOSE j \in 1..Len(Mappings) :
             /\ Usable(Mappings[j]) /\ KeyOf(Mappings[j]) = key
             /\ \A k \in 1..(j - 1) : Usable(Mappings[k]) => KeyOf(Mappings[k]) # key
  IN  Mappings[i].set

\* A resource is decoded with the three files of the set that pmt.xml lists
\* first for its key, never with a file of another set or another part, although
\* the caches are shared by all resources and know only base directories
\* (receiver.go:275-310, xml-parser.go:332-343).
DecodedWithOwnFiles ==
  \A n \in Names : decoder[n] # None =>
    \A p \in PartSet :
      /\ decoder[n].files[p].set = FirstListed(decoder[n].key)
      /\ decoder[n].files[p].part = p

\* A file of the XML tree is read once in the receiver's life: every set-up of a
\* set uses what was read of its files first, although they change on disk, come
\* and go, and the loads of several resources and of several scrapes fill the
\* three caches between them.  So a set-up fails only while some file of its set
\* has never been read (receiver.go:275-312).
FirstReadCounts ==
  [][job # None /\ job' = None =>
       LET set == FirstListed(job.key)
       IN  \/ /\ outcome'[job.name] = "failed"
              /\ \E p \in PartSet : firstRead[<<set, p>>] = None
           \/ /\ outcome'[job.name] = "ok"
              /\ \A p \in PartSet :
                   decoder'[job.name].files[p].version = firstRead[<<set, p>>]]_vars

\* A failed read is not remembered: if the files become readable for good, a
\* resource whose keys are all listed is decoded in every scrape from some time
\* on.
RecoversFromFailedReads ==
  \A n \in Names :
    Reports[n] \subseteq DOMAIN BuildLookupMap(Mappings) =>
      (<>[](\A s \in Sets, p \in PartSet : disk[<<s, p>>] # None)
         => <>[](outcome[n] = "ok"))
=============================================================================
