------------------------------ MODULE PmtAgent ------------------------------
(***************************************************************************)
(* The Python agent and collectd plugin on Linux                           *)
(* (src/tools/collectd-agent/pmt.py, class PmtPlugin).                     *)
(*                                                                         *)
(* init runs once: it loads pmt.xml, walks over the telem folders of       *)
(* sysfs and reads guid, size and telem of each one after the other,       *)
(* groups their files by UID (GUID_size), then loads one XML set per UID.  *)
(* Every read walks over the same files again.  Between any two steps a    *)
(* folder may disappear, come back, or, after the driver numbers its       *)
(* devices anew, belong to another device.  collectd only logs what init   *)
(* and read raise, ignores what init returns, and calls read again;        *)
(* stand-alone, an exception ends the agent.                               *)
(*                                                                         *)
(* A metric's value is left out, and a formula that fails leaves out its   *)
(* metric and nothing else: an endpoint is reported, unless one of the     *)
(* look-ups on the way to its values raises.                               *)
(***************************************************************************)
EXTENDS Naturals, Sequences

CONSTANTS
  Modes,       \* some of "agent", "once" (the option -r) and "collectd"
  MetaKinds,   \* what PMT_URL names: some of "xml", "json" and "other"
  Mapped,      \* the UIDs of pmt.xml [guid, size], in document order
  PrefixOf,    \* <<g, h>>: the text of GUID g is a prefix of that of h
  Sound,       \* UIDs whose XML set has the GUID and the size pmt.xml says
  Loadable,    \* UIDs whose XML set can always be fetched and parsed
  SamplesIn,   \* [UIDs of pmt.xml -> samples of its aggregator XML: their id, and
               \*  whether lsb and msb are given]
  MetricsIn,   \* [UIDs of pmt.xml -> metrics of its interface XML: name; whether
               \*  transformREF and datatypeIDREF name a transformation and a data
               \*  type; inputs, or None without TransFormInputs; whether a
               \*  SampleType is given]
  Allowlist,   \* per pattern, the names it matches
  Folders,     \* the telem folders in numeric order
  Devices, UidOf,   \* [Devices -> what their guid and size files say]
  Home,        \* [Folders -> the device a folder has before any renumbering]
  Stable,      \* folders that stay what they are
  None

Paths == {Folders[i] : i \in 1..Len(Folders)}
Uid(guidOf, sizeOf) == [guid |-> UidOf[guidOf].guid, size |-> UidOf[sizeOf].size]
Uids == {Uid(d, e) : d, e \in Devices}
Keys == {Mapped[i] : i \in 1..Len(Mapped)}

ASSUME ModeAssumption ==
  Modes \subseteq {"agent", "once", "collectd"} /\ MetaKinds \subseteq {"xml", "json", "other"}
ASSUME WorldAssumption ==
  /\ Folders \in Seq(Paths) /\ Mapped \in Seq(Keys)
  /\ \A n, k \in 1..Len(Folders) : Folders[n] = Folders[k] => n = k
  /\ Home \in [Paths -> Devices]
  /\ \A d \in Devices : UidOf[d] = Uid(d, d)
  /\ Stable \subseteq Paths
  /\ Sound \subseteq Keys /\ Loadable \subseteq Keys
  /\ \A key \in Keys : <<key.guid, key.guid>> \in PrefixOf
  /\ None \notin Devices /\ None \notin Keys

VARIABLES
  mode,       \* how the plugin is run
  meta,       \* the kind of its metadata
  bound,      \* [Paths -> the device whose data the folder has, or None]
  phase,      \* where the plugin is
  inited,     \* how init ended
  at,         \* the folder init looks at
  partial,    \* the files of it that were read: [guid, size -> device or None]
  uids,       \* keys of pmt_files in insertion order
  files,      \* values of pmt_files: [key -> paths]
  left,       \* keys of tmp_pmt_files that init has still to load
  pmt,        \* self.pmt: [some UIDs -> UID of the XML set, or None when {}]
  u, i,       \* indices of the read loops
  batch,      \* what this read has so far
  published,  \* what was dispatched or printed last
  last,       \* how the last read ended
  seen,       \* history: [Paths -> the device it had when init read its guid, or None]
  torn        \* history: folders that were another's before init read their size

runVars == <<mode, meta>>
history == <<seen, torn>>
worldVars == <<runVars, bound, history>>
dictVars == <<uids, files, pmt>>
loopVars == <<at, partial, left, u, i>>
outVars == <<batch, published, last>>
vars == <<worldVars, phase, inited, dictVars, loopVars, outVars>>

Entry == [uid : Uids, idx : Nat, path : Paths, device : Devices, spec : Keys]

TypeOK ==
  /\ mode \in Modes
  /\ meta \in MetaKinds
  /\ bound \in [Paths -> Devices \cup {None}]
  /\ phase \in {"boot", "guid", "size", "telem", "load", "idle", "read", "exit0", "exit1",
                "crashed"}
  /\ inited \in {"no", "true", "false", "raised"}
  /\ at \in 1..(Len(Folders) + 1)
  /\ partial \in [{"guid", "size"} -> Devices \cup {None}]
  /\ uids \in Seq(Uids)
  /\ files \in [Uids -> Seq(Paths)]
  /\ left \in Seq(Uids)
  /\ \A uid \in DOMAIN pmt : uid \in Uids /\ pmt[uid] \in Keys \cup {None}
  /\ u \in 1..(Len(uids) + 1)
  /\ i \in Nat \ {0}
  /\ batch \subseteq Entry
  /\ published \subseteq Entry
  /\ last \in {"none", "ok", "raised"}
  /\ seen \in [Paths -> Devices \cup {None}]
  /\ torn \subseteq Paths

Nothing == [file \in {"guid", "size"} |-> None]

Init ==
  /\ mode \in Modes
  /\ meta \in MetaKinds
  /\ bound \in [Paths -> Devices \cup {None}]
  /\ \A p \in Paths : bound[p] \in {Home[p], None}
  /\ \A p \in Stable : bound[p] = Home[p]
  /\ phase = "boot"
  /\ inited = "no"
  /\ at = 1
  /\ partial = Nothing
  /\ uids = <<>>
  /\ files = [uid \in Uids |-> <<>>]
  /\ left = <<>>
  /\ pmt = [uid \in {} |-> None]
  /\ u = 1
  /\ i = 1
  /\ batch = {}
  /\ published = {}
  /\ last = "none"
  /\ seen = [p \in Paths |-> None]
  /\ torn = {}

Listed(uid) == \E n \in 1..Len(uids) : uids[n] = uid

-----------------------------------------------------------------------------
(* Sysfs.                                                                  *)

FolderChanges(p, d) ==
  /\ p \notin Stable
  /\ bound[p] # d
  /\ bound' = [bound EXCEPT ![p] = d]
  /\ torn' = IF phase = "size" /\ p = Folders[at] /\ d \notin {seen[p], None}
             THEN torn \cup {p} ELSE torn
  /\ UNCHANGED <<runVars, seen, phase, inited, dictVars, loopVars, outVars>>

-----------------------------------------------------------------------------
(* init.                                                                   *)

\* collectd ignores the result of init, stand-alone it is exit status 1.
InitReturnsFalse ==
  /\ inited' = "false"
  /\ phase' = IF mode = "collectd" THEN "idle" ELSE "exit1"
  /\ UNCHANGED <<worldVars, dictVars, loopVars, outVars>>

InitRaises ==
  /\ inited' = "raised"
  /\ phase' = IF mode = "collectd" THEN "idle" ELSE "crashed"
  /\ UNCHANGED <<worldVars, dictVars, loopVars, outVars>>

\* pmt.xml cannot be parsed, PMT_URL is neither XML nor JSON, or there is no
\* /sys/class/intel_pmt.
NoMetadata == phase = "boot" /\ InitReturnsFalse

\* There is no PMT_URL, or the JSON cannot be fetched or parsed.
MetadataRaises == phase = "boot" /\ meta # "other" /\ InitRaises

Metadata ==
  /\ phase = "boot"
  /\ meta # "other"
  /\ phase' = "guid"
  /\ UNCHANGED <<worldVars, inited, dictVars, loopVars, outVars>>

\* Mutation: the file goes to the first UID's list.
AddFileToFirst(uid, p) ==
  /\ uids' = IF Listed(uid) THEN uids ELSE Append(uids, uid)
  /\ files' = [files EXCEPT ![IF uids = <<>> THEN uid ELSE uids[1]] = Append(@, p)]

AddFile(uid, p) ==
  /\ uids' = IF Listed(uid) THEN uids ELSE Append(uids, uid)
  /\ files' = [files EXCEPT ![uid] = Append(@, p)]

Reading(file) == phase = file /\ at <= Len(Folders)
Folder == Folders[at]

ReadGuid ==
  /\ Reading("guid") /\ bound[Folder] # None
  /\ partial' = [partial EXCEPT !.guid = bound[Folder]]
  /\ seen' = [seen EXCEPT ![Folder] = bound[Folder]]
  /\ phase' = "size"
  /\ UNCHANGED <<runVars, bound, torn, inited, dictVars, at, left, u, i, outVars>>

ReadSize ==
  /\ Reading("size") /\ bound[Folder] # None
  /\ partial' = [partial EXCEPT !.size = bound[Folder]]
  /\ phase' = "telem"
  /\ UNCHANGED <<worldVars, inited, dictVars, at, left, u, i, outVars>>

\* The telem file is there, whoever's it is now.
TelemIsFile ==
  /\ Reading("telem") /\ bound[Folder] # None
  /\ AddFile(Uid(partial.guid, partial.size), Folder)
  /\ phase' = "guid"
  /\ at' = at + 1
  /\ partial' = Nothing
  /\ UNCHANGED <<worldVars, inited, pmt, left, u, i, outVars>>

\* A folder whose guid or size cannot be read, or whose telem is not a file, is
\* passed over: with no size read, the path is still "" and no file.
SkipFolder ==
  /\ \E file \in {"guid", "size", "telem"} : Reading(file)
  /\ bound[Folder] = None
  /\ phase' = "guid"
  /\ at' = at + 1
  /\ partial' = Nothing
  /\ UNCHANGED <<worldVars, inited, dictVars, left, u, i, outVars>>

\* tmp_pmt_files is a copy: the loop pops from pmt_files.
Discovered ==
  /\ phase = "guid"
  /\ at = Len(Folders) + 1
  /\ phase' = "load"
  /\ left' = uids
  /\ UNCHANGED <<worldVars, inited, dictVars, at, partial, u, i, outVars>>

\* Where pmt.xml lists UIDs whose text starts with the GUID.
Candidates(uid) ==
  {n \in 1..Len(Mapped) : <<uid.guid, Mapped[n].guid>> \in PrefixOf}

\* Mutation: the size is not looked at.
ChoosesFirst(uid, key) ==
  \E n \in Candidates(uid) : key = Mapped[n] /\ \A k \in Candidates(uid) : n <= k

\* The same UID if there are several candidates, or else the first of them.
Chooses(uid, key) ==
  IF uid \in Keys /\ \E n, k \in Candidates(uid) : n # k
  THEN key = uid
  ELSE \E n \in Candidates(uid) : key = Mapped[n] /\ \A k \in Candidates(uid) : n <= k

\* get_pmt_dict: a set that is not what pmt.xml says gives an empty dictionary.
LoadSpec ==
  /\ phase = "load"
  /\ left # <<>>
  /\ Candidates(Head(left)) # {}
  /\ meta = "xml"
  /\ LET uid == Head(left)
     IN  \E key \in Keys :
           /\ Chooses(uid, key)
           /\ LET spec == IF key \in Sound THEN key ELSE None
              IN  pmt' = [x \in DOMAIN pmt \cup {uid} |-> IF x = uid THEN spec ELSE pmt[x]]
  /\ left' = Tail(left)
  /\ UNCHANGED <<worldVars, phase, inited, uids, files, at, partial, u, i, outVars>>

\* A file cannot be fetched or parsed, or a formula is refused; with JSON
\* metadata there is no xmlbaseurl.
LoadRaises ==
  /\ phase = "load"
  /\ left # <<>>
  /\ Candidates(Head(left)) # {}
  /\ meta = "json" \/ \E key \in Keys : Chooses(Head(left), key) /\ key \notin Loadable
  /\ InitRaises

\* Mutation: an unknown UID stays in pmt_files.
LoadUnknownKept ==
  /\ phase = "load"
  /\ left # <<>>
  /\ Candidates(Head(left)) = {}
  /\ left' = Tail(left)
  /\ UNCHANGED <<worldVars, phase, inited, dictVars, at, partial, u, i, outVars>>

\* pmt.xml does not know the GUID: its files are dropped.
LoadUnknown ==
  /\ phase = "load"
  /\ left # <<>>
  /\ Candidates(Head(left)) = {}
  /\ LET n == CHOOSE k \in 1..Len(uids) : uids[k] = Head(left)
     IN  uids' = SubSeq(uids, 1, n - 1) \o SubSeq(uids, n + 1, Len(uids))
  /\ files' = [files EXCEPT ![Head(left)] = <<>>]
  /\ left' = Tail(left)
  /\ UNCHANGED <<worldVars, phase, inited, pmt, at, partial, u, i, outVars>>

InitReturnsTrue ==
  /\ phase = "load"
  /\ left = <<>>
  /\ inited' = "true"
  /\ phase' = "idle"
  /\ UNCHANGED <<worldVars, dictVars, loopVars, outVars>>

-----------------------------------------------------------------------------
(* read and periodic_readsamples.                                          *)

\* The scheduler or collectd calls; collectd's read dispatches as it goes.
ReadBegins ==
  /\ phase = "idle"
  /\ phase' = "read"
  /\ u' = 1
  /\ i' = 1
  /\ batch' = {}
  /\ published' = IF mode = "collectd" THEN {} ELSE published
  /\ UNCHANGED <<worldVars, inited, dictVars, at, partial, left, last>>

AtFile == phase = "read" /\ u <= Len(uids) /\ i <= Len(files[uids[u]])
Path == files[uids[u]][i]

Allowed(name) == \E n \in 1..Len(Allowlist) : name \in Allowlist[n]

\* An aggregator's samples are filtered by their IDs ...
SamplesKept(key) == {s \in SamplesIn[key] : Allowed(s.id)}
ParsedSamples(key) == {s.id : s \in SamplesKept(key)}

\* ... its metrics by their names, unless the list is empty.
MetricsRead(key) ==
  {m \in MetricsIn[key] : Allowlist = <<>> \/ Allowed(m.name)}

\* read_samples finds whatever it looks up: the UID's dictionary with its samples,
\* the bits of each of them, and for each metric the transformation, the data type,
\* the inputs and the sample that each of these names.
Decodable(uid) ==
  /\ uid \in DOMAIN pmt
  /\ pmt[uid] # None
  /\ \A s \in SamplesKept(pmt[uid]) : s.bits
  /\ \A m \in MetricsRead(pmt[uid]) :
       m.refs /\ m.inputs # None /\ m.inputs \subseteq ParsedSamples(pmt[uid])

\* collectd's read looks up the SampleType of every metric that has a value.
Untyped(uid) == mode = "collectd" /\ \E m \in MetricsRead(pmt[uid]) : ~m.typed

ThisEntry ==
  [uid |-> uids[u], idx |-> i, path |-> Path, device |-> bound[Path],
   spec |-> pmt[uids[u]]]

\* A metric without SampleType does no harm if its formula fails.
ReadFile ==
  /\ AtFile
  /\ bound[Path] # None
  /\ Decodable(uids[u])
  /\ batch' = batch \cup {ThisEntry}
  /\ published' = IF mode = "collectd" THEN batch' ELSE published
  /\ i' = i + 1
  /\ UNCHANGED <<worldVars, phase, inited, dictVars, at, partial, left, u, last>>

\* Mutation: a file that cannot be read ends the loop over its UID's files.
SkipFileEndsLoop ==
  /\ AtFile
  /\ bound[Path] = None
  /\ u' = u + 1
  /\ i' = 1
  /\ UNCHANGED <<worldVars, phase, inited, dictVars, at, partial, left, outVars>>

\* Mutation: it is tried again.
SkipFileRetried ==
  /\ AtFile
  /\ bound[Path] = None
  /\ i' = i
  /\ UNCHANGED <<worldVars, phase, inited, dictVars, at, partial, left, u, outVars>>

\* An IOError is logged, the endpoint has no samples this time.
SkipFile ==
  /\ AtFile
  /\ bound[Path] = None
  /\ i' = i + 1
  /\ UNCHANGED <<worldVars, phase, inited, dictVars, at, partial, left, u, outVars>>

NextUid ==
  /\ phase = "read"
  /\ u <= Len(uids)
  /\ i > Len(files[uids[u]])
  /\ u' = u + 1
  /\ i' = 1
  /\ UNCHANGED <<worldVars, phase, inited, dictVars, at, partial, left, outVars>>

\* A look-up that raises ends the read: what follows is not read, and stand-alone
\* nothing is printed and the agent ends.  In collectd a part of the endpoint's
\* metrics may be out; it does not count as reported.
ReadRaises ==
  /\ AtFile
  /\ bound[Path] # None
  /\ Decodable(uids[u]) => Untyped(uids[u])
  /\ last' = "raised"
  /\ phase' = IF mode = "collectd" THEN "idle" ELSE "crashed"
  /\ UNCHANGED <<worldVars, inited, dictVars, loopVars, batch, published>>

ReadEnds ==
  /\ phase = "read"
  /\ u > Len(uids)
  /\ published' = batch
  /\ last' = "ok"
  /\ phase' = IF mode = "once" THEN "exit0" ELSE "idle"
  /\ UNCHANGED <<worldVars, inited, dictVars, loopVars, batch>>

\* SIGINT: the handler cancels the next event and leaves, whatever is going on.
Interrupt ==
  /\ mode = "agent"
  /\ phase \in {"idle", "read"}
  /\ phase' = "exit0"
  /\ UNCHANGED <<worldVars, inited, dictVars, loopVars, outVars>>

Ended == phase \in {"exit0", "exit1", "crashed"} /\ UNCHANGED vars

-----------------------------------------------------------------------------

Load == LoadSpec \/ LoadRaises \/ LoadUnknown \/ InitReturnsTrue

InitStep ==
  \/ NoMetadata
  \/ MetadataRaises
  \/ Metadata
  \/ ReadGuid
  \/ ReadSize
  \/ TelemIsFile
  \/ SkipFolder
  \/ Discovered
  \/ Load

ReadStep == ReadFile \/ SkipFile \/ NextUid \/ ReadRaises \/ ReadEnds

Next ==
  \/ \E p \in Paths, d \in Devices \cup {None} : FolderChanges(p, d)
  \/ InitStep
  \/ ReadBegins
  \/ ReadStep
  \/ Interrupt
  \/ Ended

Spec == Init /\ [][Next]_vars

\* The one thread of the agent runs; collectd and sched call read again.
FairSpec == Spec /\ WF_vars(InitStep) /\ WF_vars(ReadBegins) /\ WF_vars(ReadStep)

-----------------------------------------------------------------------------
(* Properties.                                                             *)

\* The XML set lacks what a metric or sample that is allowed refers to.
Incomplete(key) ==
  \/ \E s \in SamplesKept(key) : ~s.bits
  \/ \E m \in MetricsRead(key) :
       ~m.refs \/ m.inputs = None \/ (mode = "collectd" /\ ~m.typed)

\* The allowlist admits a metric but not one of its inputs.
Hides(key) ==
  \E m \in MetricsRead(key) :
    m.inputs # None /\ ~(m.inputs \subseteq ParsedSamples(key))

Misconfigured(uid) == pmt[uid] = None \/ Incomplete(pmt[uid]) \/ Hides(pmt[uid])

\* A read fails only if init was cut short by an exception, or if the XML set of
\* an endpoint that init found is not the one pmt.xml says, is incomplete, or is
\* torn apart by the allowlist: whatever happens to the folders during discovery
\* and afterwards, an unknown, vanished or renumbered endpoint cannot end a read
\* (pmt.py:690-697, 732-762, 862-884, 896-917, 940).
ReadFailsOnlyIfMisconfigured ==
  last = "raised" => inited = "raised" \/ \E uid \in DOMAIN pmt : Misconfigured(uid)

\* If init succeeded, then after a read that did not fail, every stable folder
\* that pmt.xml knows is reported, whatever became of the other files of its UID
\* (pmt.py:864-870, 932-936, 969-972).
StableReported ==
  phase = "idle" /\ last = "ok" /\ inited = "true" =>
    \A p \in Stable : LET uid == UidOf[Home[p]] IN
      Candidates(uid) # {} =>
        \E e \in published : e.path = p /\ e.uid = uid /\ e.device = Home[p]

\* If pmt.xml lists the very UID of an endpoint, no other entry is used for it,
\* however many entries start with its GUID (pmt.py:735-760).
ExactMatchWins ==
  \A uid \in DOMAIN pmt : uid \in Keys => pmt[uid] \in {uid, None}

\* An endpoint is decoded as another device's only if its folder now has another
\* device than when init read its guid, or was another's already before init read
\* its size: discovery never mixes up the files of two UIDs, and what init found
\* in one piece is decoded rightly whenever the folder has that device
\* (pmt.py:687-704, 862-870).  The agent never looks at guid and size again.
MisreadOnlyIfRenumbered ==
  \A e \in batch \cup published :
    e.uid # UidOf[e.device] => e.path \in torn \/ e.device # seen[e.path]

\* If init succeeds and no dictionary is defective, incomplete or torn apart by
\* the allowlist, a stable folder that pmt.xml knows is reported again and again,
\* until a signal ends the agent (pmt.py:862-936, 969-988).
StableReportedAgain ==
  \A p \in Stable :
    Candidates(UidOf[Home[p]]) # {} =>
      (phase = "read" /\ u = 1 /\ i = 1 /\ inited = "true"
         /\ (\A uid \in DOMAIN pmt : ~Misconfigured(uid))
       ~> \/ phase = "exit0"
          \/ phase = "idle" /\ \E e \in published : e.path = p)

\* The help of option -w, "Path to file containing allowed metrics": to allow a
\* metric of a complete XML set is enough to have it read.
AllowedMetricsAreRead ==
  last = "raised" =>
    inited = "raised"
      \/ \E uid \in DOMAIN pmt : pmt[uid] = None \/ Incomplete(pmt[uid])
=============================================================================
