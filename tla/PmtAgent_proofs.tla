--------------------------- MODULE PmtAgent_proofs ---------------------------
(***************************************************************************)
(* Proofs about PmtAgent, for any pmt.xml, any folders and any devices.    *)
(***************************************************************************)
EXTENDS PmtAgent, SequenceTheorems, TLAPS

Distinct(s) == \A n, k \in 1..Len(s) : s[n] = s[k] => n = k

\* A stable folder has the device it had at first.
WorldInv == \A p \in Stable : bound[p] = Home[p]

\* What init has done, phase by phase.
PhaseInv ==
  /\ phase \in {"boot", "guid", "size", "telem", "load"} =>
       /\ inited = "no" /\ u = 1 /\ i = 1 /\ last = "none"
       /\ batch = {} /\ published = {}
  /\ phase = "boot" => uids = <<>> /\ at = 1
  /\ phase \in {"idle", "read"} => inited # "no"
  /\ inited = "true" \/ phase = "load" => at = Len(Folders) + 1

\* pmt_files and tmp_pmt_files are dictionaries: no key comes twice, and init
\* has still to load only what is in pmt_files.
KeysInv ==
  /\ Distinct(uids)
  /\ Distinct(left)
  /\ phase = "load" => \A k \in 1..Len(left) : Listed(left[k])

\* What init has read of the folder it is at.
PartialInv ==
  /\ phase \in {"size", "telem"} =>
       /\ at <= Len(Folders)
       /\ partial.guid \in Devices /\ seen[Folder] = partial.guid
       /\ Folder \in Stable => partial.guid = Home[Folder]
  /\ phase = "size" => bound[Folder] \in {partial.guid, None} \/ Folder \in torn
  /\ phase = "telem" =>
       /\ partial.size \in Devices
       /\ partial.size = partial.guid \/ Folder \in torn
       /\ Folder \in Stable => partial.size = Home[Folder]

\* A file is of a folder that discovery has passed, and under the UID of the device
\* it had then, unless the folder was torn.
FilesInv ==
  \A uid \in Uids : \A k \in 1..Len(files[uid]) :
    /\ \E n \in 1..(at - 1) : files[uid][k] = Folders[n]
    /\ files[uid][k] \in torn \/ UidOf[seen[files[uid][k]]] = uid

\* Every stable folder that discovery has passed, and that pmt.xml knows, is in
\* pmt_files.
Found(p, uid) ==
  p \in Stable /\ Candidates(uid) # {} =>
    Listed(uid) /\ \E k \in 1..Len(files[uid]) : files[uid][k] = p

FoundInv == \A n \in 1..(at - 1) : Found(Folders[n], UidOf[Home[Folders[n]]])

\* Once init has succeeded, what is in pmt_files has a dictionary.
PmtInv ==
  /\ inited = "false" => uids = <<>>
  /\ phase = "load" => \A n \in 1..Len(uids) :
       uids[n] \in DOMAIN pmt \/ \E k \in 1..Len(left) : left[k] = uids[n]
  /\ inited = "true" => \A n \in 1..Len(uids) : uids[n] \in DOMAIN pmt

Reported(e, uid, p) == e.path = p /\ e.uid = uid /\ e.device = Home[p]

\* Every stable file that this read has passed is in its batch.
ReadInv ==
  phase = "read" =>
    \A n \in 1..Len(uids) : \A k \in 1..Len(files[uids[n]]) :
      /\ n < u \/ (n = u /\ k < i)
      /\ files[uids[n]][k] \in Stable
      => \E e \in batch : Reported(e, uids[n], files[uids[n]][k])

IInv ==
  /\ TypeOK
  /\ WorldInv
  /\ PhaseInv
  /\ KeysInv
  /\ PartialInv
  /\ FilesInv
  /\ FoundInv
  /\ PmtInv
  /\ ReadInv
  /\ ExactMatchWins
  /\ MisreadOnlyIfRenumbered
  /\ ReadFailsOnlyIfMisconfigured
  /\ StableReported

-----------------------------------------------------------------------------

\* The entry that init chooses for a UID is the UID itself if pmt.xml lists it
\* (pmt.py:735-758).
LEMMA ChoiceFact ==
  ASSUME NEW uid, NEW key \in Keys, Chooses(uid, key), uid \in Keys
  PROVE  key = uid
<1>1. CASE \E n, k \in Candidates(uid) : n # k
  BY <1>1 DEF Chooses
<1>2. CASE \A n, k \in Candidates(uid) : n = k
  <2>1. PICK m \in 1..Len(Mapped) : Mapped[m] = uid
    BY DEF Keys
  <2>2. m \in Candidates(uid)
    BY <2>1, WorldAssumption DEF Candidates
  <2> QED  BY <1>2, <2>1, <2>2 DEF Chooses
<1> QED  BY <1>1, <1>2

\* The plugin's state before init.
LEMMA InitIInv == Init => IInv
<1> SUFFICES ASSUME Init PROVE IInv
  OBVIOUS
<1> USE DEF Init
<1>1. TypeOK /\ WorldInv
  BY WorldAssumption, ModeAssumption DEF TypeOK, WorldInv, Nothing
<1>2. PhaseInv /\ KeysInv /\ PartialInv /\ FilesInv /\ FoundInv /\ PmtInv /\ ReadInv
  BY DEF PhaseInv, KeysInv, PartialInv, FilesInv, FoundInv, PmtInv, ReadInv, Distinct
<1>3. ExactMatchWins /\ MisreadOnlyIfRenumbered /\ ReadFailsOnlyIfMisconfigured /\ StableReported
  BY DEF ExactMatchWins, MisreadOnlyIfRenumbered, ReadFailsOnlyIfMisconfigured, StableReported
<1> QED  BY <1>1, <1>2, <1>3 DEF IInv

-----------------------------------------------------------------------------
(* The steps of init.                                                      *)

\* Where the loop over the folders is.
LEMMA AtFolder ==
  ASSUME TypeOK, at <= Len(Folders)
  PROVE  /\ at \in 1..Len(Folders) /\ Len(Folders) \in Nat /\ Folder \in Paths
         /\ at + 1 \in 1..(Len(Folders) + 1)
         /\ \A n \in 1..(at - 1) : Folders[n] # Folder
<1>1. at \in 1..Len(Folders) /\ Len(Folders) \in Nat
  BY WorldAssumption DEF TypeOK
<1>2. \A n \in 1..(at - 1) : n \in 1..Len(Folders) /\ n # at
  BY <1>1
<1>3. at + 1 \in 1..(Len(Folders) + 1) /\ Folder \in Paths
  BY <1>1 DEF Folder, Paths
<1>4. \A n \in 1..(at - 1) : Folders[n] # Folder
  BY <1>1, <1>2, WorldAssumption DEF Folder
<1> QED  BY <1>1, <1>3, <1>4

\* The UID that is read from the files of one device is that device's.
LEMMA UidFact ==
  /\ \A d, e \in Devices : Uid(d, e) \in Uids
  /\ \A d \in Devices : UidOf[d] = Uid(d, d) /\ UidOf[d] \in Uids
BY WorldAssumption DEF Uids

\* A telem folder changes hands.
LEMMA FolderIInv ==
  ASSUME IInv, NEW p \in Paths, NEW d \in Devices \cup {None}, FolderChanges(p, d)
  PROVE  IInv'
<1> USE DEF IInv, runVars, dictVars, loopVars, outVars
<1>1. /\ p \notin Stable /\ bound' = [bound EXCEPT ![p] = d]
      /\ torn' = IF phase = "size" /\ p = Folders[at] /\ d \notin {seen[p], None}
                 THEN torn \cup {p} ELSE torn
      /\ UNCHANGED <<mode, meta, seen, phase, inited, uids, files, pmt, at, partial, left, u, i,
                     batch, published, last>>
  BY DEF FolderChanges
<1>2. torn \subseteq torn' /\ torn' \subseteq Paths
  BY <1>1 DEF TypeOK
<1>3. TypeOK' /\ WorldInv'
  BY <1>1, <1>2, WorldAssumption DEF TypeOK, WorldInv
<1>4. PhaseInv' /\ KeysInv' /\ PmtInv' /\ ReadInv'
  BY <1>1 DEF PhaseInv, KeysInv, PmtInv, ReadInv, Listed, Reported
<1>5. PartialInv'
  <2>1. Folder' = Folder
    BY <1>1 DEF Folder
  <2>2. CASE phase = "size"
    <3>1. Folder \in Paths
      BY <2>2, AtFolder DEF PartialInv
    <3>2. bound'[Folder] \in {partial.guid, None} \/ Folder \in torn'
      <4>1. CASE p = Folder
        BY <2>2, <3>1, <4>1, <1>1 DEF PartialInv, Folder, TypeOK
      <4>2. CASE p # Folder
        BY <2>2, <3>1, <4>2, <1>1, <1>2 DEF PartialInv, TypeOK
      <4> QED  BY <4>1, <4>2
    <3> QED  BY <2>1, <2>2, <3>2, <1>1 DEF PartialInv
  <2>3. CASE phase # "size"
    BY <2>1, <2>3, <1>1 DEF PartialInv
  <2> QED  BY <2>2, <2>3
<1>6. FoundInv'
  BY <1>1 DEF FoundInv, Found, Listed
<1>7. FilesInv' /\ MisreadOnlyIfRenumbered'
  BY <1>1, <1>2 DEF FilesInv, MisreadOnlyIfRenumbered
<1>8. ExactMatchWins' /\ ReadFailsOnlyIfMisconfigured' /\ StableReported'
  BY <1>1 DEF ExactMatchWins, ReadFailsOnlyIfMisconfigured, StableReported, Misconfigured,
              Incomplete, Hides, MetricsRead, SamplesKept, ParsedSamples, Allowed
<1> QED  BY <1>3, <1>4, <1>5, <1>6, <1>7, <1>8

\* The steps of init that fail, and those that only change the phase.
LEMMA InitStepIInv ==
  ASSUME IInv,
         NoMetadata \/ MetadataRaises \/ Metadata \/ Discovered \/ LoadRaises
           \/ InitReturnsTrue
  PROVE  IInv'
<1> USE DEF IInv, NoMetadata, MetadataRaises, Metadata, Discovered, LoadRaises,
            InitReturnsTrue, InitReturnsFalse, InitRaises, runVars, history, worldVars,
            dictVars, loopVars, outVars
<1>1. TypeOK' /\ WorldInv'
  BY DEF TypeOK, WorldInv
<1>2. PhaseInv' /\ KeysInv' /\ PmtInv'
  <2>1. CASE NoMetadata \/ MetadataRaises \/ LoadRaises
    BY <2>1 DEF PhaseInv, KeysInv, PmtInv, Listed
  <2>2. CASE Metadata \/ InitReturnsTrue
    BY <2>2 DEF PhaseInv, KeysInv, PmtInv, Listed
  <2>3. CASE Discovered
    BY <2>3 DEF PhaseInv, KeysInv, PmtInv, Listed, TypeOK, Distinct
  <2> QED  BY <2>1, <2>2, <2>3
<1>3. FilesInv' /\ FoundInv' /\ ReadInv' /\ PartialInv'
  <2>1. /\ UNCHANGED <<uids, files, seen, torn, at>>
        /\ phase' \notin {"size", "telem", "read"}
    BY DEF PhaseInv
  <2> QED  BY <2>1 DEF FilesInv, FoundInv, Found, ReadInv, Listed, PartialInv
<1>4. ExactMatchWins' /\ MisreadOnlyIfRenumbered'
  BY DEF ExactMatchWins, MisreadOnlyIfRenumbered
<1>5. ReadFailsOnlyIfMisconfigured' /\ StableReported'
  BY DEF ReadFailsOnlyIfMisconfigured, StableReported, PhaseInv
<1> QED  BY <1>1, <1>2, <1>3, <1>4, <1>5

\* pmt_files[uid].append(path), with a new key if need be (pmt.py:698-702).
LEMMA AddFileFact ==
  ASSUME TypeOK, Distinct(uids), NEW uid \in Uids, NEW p \in Paths, AddFile(uid, p)
  PROVE  /\ uids' \in Seq(Uids) /\ files' \in [Uids -> Seq(Paths)]
         /\ Distinct(uids')
         /\ \E n \in 1..Len(uids') : uids'[n] = uid
         /\ \A n \in 1..Len(uids) : n \in 1..Len(uids') /\ uids'[n] = uids[n]
         /\ files' = [files EXCEPT ![uid] = Append(@, p)]
<1>1. uids \in Seq(Uids) /\ files \in [Uids -> Seq(Paths)]
  BY DEF TypeOK
<1>2. files' = [files EXCEPT ![uid] = Append(@, p)]
  BY DEF AddFile
<1>3. files' \in [Uids -> Seq(Paths)]
  BY <1>1, <1>2
<1>4. CASE Listed(uid)
  BY <1>1, <1>2, <1>3, <1>4 DEF AddFile, Listed
<1>5. CASE ~ Listed(uid)
  <2>1. uids' = Append(uids, uid) /\ \A n \in 1..Len(uids) : uids[n] # uid
    BY <1>5 DEF AddFile, Listed
  <2>2. /\ uids' \in Seq(Uids) /\ Len(uids') = Len(uids) + 1
        /\ uids'[Len(uids) + 1] = uid
        /\ Len(uids) \in Nat
        /\ \A n \in 1..Len(uids) : uids'[n] = uids[n]
    BY <1>1, <2>1
  <2>3. Distinct(uids')
    BY <1>1, <2>1, <2>2 DEF Distinct
  <2>4. Len(uids) + 1 \in 1..Len(uids')
        /\ \A n \in 1..Len(uids) : n \in 1..Len(uids')
    BY <2>2
  <2>5. \E n \in 1..Len(uids') : uids'[n] = uid
    BY <2>2, <2>4
  <2> QED  BY <1>2, <1>3, <2>2, <2>3, <2>4, <2>5
<1> QED  BY <1>4, <1>5

\* What the reads of a folder's guid and size do not touch.
LEMMA PartlyReadIInv ==
  ASSUME IInv, phase \in {"guid", "size"}, phase' \in {"size", "telem"},
         UNCHANGED <<runVars, bound, torn, inited, dictVars, at, left, u, i, outVars>>
  PROVE  /\ WorldInv' /\ PhaseInv' /\ KeysInv' /\ FoundInv' /\ PmtInv' /\ ReadInv'
         /\ ExactMatchWins' /\ MisreadOnlyIfRenumbered' /\ ReadFailsOnlyIfMisconfigured'
         /\ StableReported'
<1> USE DEF IInv
<1>1. UNCHANGED <<mode, meta, bound, torn, inited, uids, files, pmt, at, left, u, i, batch,
                  published, last>>
  BY DEF runVars, dictVars, outVars
<1>2. WorldInv' /\ PhaseInv' /\ KeysInv' /\ FoundInv'
  BY <1>1 DEF WorldInv, PhaseInv, KeysInv, FoundInv, Found, Listed
<1>3. PmtInv' /\ ReadInv' /\ ExactMatchWins' /\ MisreadOnlyIfRenumbered'
  BY <1>1 DEF PmtInv, ReadInv, ExactMatchWins, MisreadOnlyIfRenumbered, PhaseInv
<1>4. ReadFailsOnlyIfMisconfigured' /\ StableReported'
  BY <1>1 DEF ReadFailsOnlyIfMisconfigured, StableReported, PhaseInv
<1> QED  BY <1>2, <1>3, <1>4

\* The guid of a folder is read: from now on the folder is that device's.
LEMMA ReadGuidIInv == ASSUME IInv, ReadGuid PROVE IInv'
<1> USE DEF IInv
<1>1. /\ phase = "guid" /\ phase' = "size" /\ at <= Len(Folders) /\ bound[Folder] # None
      /\ partial' = [partial EXCEPT !.guid = bound[Folder]]
      /\ seen' = [seen EXCEPT ![Folder] = bound[Folder]]
      /\ UNCHANGED <<runVars, bound, torn, inited, dictVars, at, left, u, i, outVars>>
  BY DEF ReadGuid, Reading
<1>2. UNCHANGED <<mode, meta, bound, torn, inited, uids, files, pmt, at, left, u, i, batch,
                  published, last>> /\ Folder' = Folder
  BY <1>1 DEF runVars, dictVars, outVars, Folder
<1>3. Folder \in Paths /\ (\A n \in 1..(at - 1) : Folders[n] # Folder)
  BY <1>1, AtFolder
<1>4. bound[Folder] \in Devices /\ partial'.guid = bound[Folder] /\ seen'[Folder] = bound[Folder]
  BY <1>1, <1>3 DEF TypeOK
<1>5. PartialInv'
  BY <1>1, <1>2, <1>3, <1>4 DEF PartialInv, WorldInv
<1>6. FilesInv'
  <2> SUFFICES ASSUME NEW uid \in Uids, NEW k \in 1..Len(files[uid])
               PROVE  /\ \E n \in 1..(at - 1) : files[uid][k] = Folders[n]
                      /\ files[uid][k] \in torn \/ UidOf[seen'[files[uid][k]]] = uid
    BY <1>2 DEF FilesInv
  <2>1. files[uid][k] # Folder
    BY <1>3 DEF FilesInv
  <2>2. seen'[files[uid][k]] = seen[files[uid][k]]
    BY <1>1, <2>1 DEF TypeOK
  <2> QED  BY <2>2 DEF FilesInv
<1>7. TypeOK'
  BY <1>1, <1>2, <1>3, <1>4 DEF TypeOK
<1> QED  BY <1>1, <1>5, <1>6, <1>7, PartlyReadIInv

\* The size of a folder is read: it is the same device's, unless the folder is torn.
LEMMA ReadSizeIInv == ASSUME IInv, ReadSize PROVE IInv'
<1> USE DEF IInv
<1>1. /\ phase = "size" /\ phase' = "telem" /\ at <= Len(Folders) /\ bound[Folder] # None
      /\ partial' = [partial EXCEPT !.size = bound[Folder]]
      /\ UNCHANGED <<worldVars, inited, dictVars, at, left, u, i, outVars>>
  BY DEF ReadSize, Reading
<1>2. /\ UNCHANGED <<mode, meta, bound, seen, torn, inited, uids, files, pmt, at, left, u, i,
                     batch, published, last>>
      /\ Folder' = Folder
  BY <1>1 DEF worldVars, history, runVars, dictVars, outVars, Folder
<1>3. Folder \in Paths
  BY <1>1, AtFolder
<1>4. /\ bound[Folder] \in Devices /\ partial'.size = bound[Folder]
      /\ partial'.guid = partial.guid
  BY <1>1, <1>3 DEF TypeOK
<1>5. PartialInv'
  BY <1>1, <1>2, <1>3, <1>4 DEF PartialInv, WorldInv
<1>6. FilesInv'
  BY <1>2 DEF FilesInv
<1>7. partial' \in [{"guid", "size"} -> Devices \cup {None}]
  BY <1>1, <1>4 DEF TypeOK
<1>8. TypeOK'
  BY <1>1, <1>2, <1>7 DEF TypeOK
<1>9. UNCHANGED <<runVars, bound, torn, inited, dictVars, at, left, u, i, outVars>>
  BY <1>1 DEF worldVars, history
<1> QED  BY <1>1, <1>5, <1>6, <1>8, <1>9, PartlyReadIInv

\* A folder is passed over: no stable folder is.
LEMMA SkipFolderIInv == ASSUME IInv, SkipFolder PROVE IInv'
<1> USE DEF IInv
<1>1. /\ phase \in {"guid", "size", "telem"} /\ phase' = "guid" /\ at <= Len(Folders)
      /\ at' = at + 1 /\ partial' = Nothing /\ bound[Folder] = None
      /\ UNCHANGED <<mode, meta, bound, seen, torn, inited, uids, files, pmt, left, u, i, batch,
                     published, last>>
  BY DEF SkipFolder, Reading, worldVars, runVars, history, dictVars, outVars
<1>2. at \in 1..Len(Folders) /\ Len(Folders) \in Nat /\ Folder \in Paths /\ at + 1 \in 1..(Len(Folders) + 1)
  BY <1>1, AtFolder
<1>3. u = 1 /\ i = 1 /\ inited = "no" /\ last = "none" /\ batch = {} /\ published = {}
  BY <1>1 DEF PhaseInv
<1>4. Folder \notin Stable
  BY <1>1, <1>2, WorldAssumption DEF WorldInv
<1>5. TypeOK' /\ WorldInv' /\ PhaseInv'
  BY <1>1, <1>2, <1>3 DEF TypeOK, WorldInv, PhaseInv, Nothing
<1>6. KeysInv' /\ PartialInv' /\ FilesInv'
  BY <1>1, <1>2 DEF KeysInv, PartialInv, FilesInv, Listed
<1>7. FoundInv'
  <2> SUFFICES ASSUME NEW n \in 1..at PROVE Found(Folders[n], UidOf[Home[Folders[n]]])'
    BY <1>1, <1>2 DEF FoundInv
  <2>1. CASE n = at
    BY <2>1, <1>4 DEF Found, Folder
  <2>2. CASE n # at
    <3>1. Found(Folders[n], UidOf[Home[Folders[n]]])
      BY <2>2, <1>2 DEF FoundInv
    <3> QED  BY <3>1, <1>1 DEF Found, Listed
  <2> QED  BY <2>1, <2>2
<1>8. PmtInv' /\ ReadInv' /\ ExactMatchWins' /\ MisreadOnlyIfRenumbered'
  BY <1>1, <1>3 DEF PmtInv, ReadInv, ExactMatchWins, MisreadOnlyIfRenumbered
<1>9. ReadFailsOnlyIfMisconfigured' /\ StableReported'
  BY <1>1, <1>3 DEF ReadFailsOnlyIfMisconfigured, StableReported
<1> QED  BY <1>5, <1>6, <1>7, <1>8, <1>9

\* Discovery puts a folder's file under the UID that it read there.
LEMMA TelemIInv == ASSUME IInv, TelemIsFile PROVE IInv'
<1> USE DEF IInv
<1> DEFINE p == Folder
           uid == Uid(partial.guid, partial.size)
<1>1. /\ phase = "telem" /\ phase' = "guid" /\ at <= Len(Folders) /\ at' = at + 1
      /\ partial' = Nothing /\ AddFile(uid, p)
      /\ UNCHANGED <<mode, meta, bound, seen, torn, inited, left, pmt, u, i, batch,
                     published, last>>
  BY DEF TelemIsFile, Reading, worldVars, runVars, history, outVars
<1>2. /\ at \in 1..Len(Folders) /\ Len(Folders) \in Nat /\ p \in Paths
      /\ at + 1 \in 1..(Len(Folders) + 1)
  BY <1>1, AtFolder
<1>3. /\ u = 1 /\ i = 1 /\ inited = "no" /\ last = "none" /\ batch = {} /\ published = {}
  BY <1>1 DEF PhaseInv
<1>4. /\ uid \in Uids
      /\ p \in torn \/ UidOf[seen[p]] = uid
      /\ p \in Stable => uid = UidOf[Home[p]]
  BY <1>1, UidFact DEF PartialInv
<1> HIDE DEF uid, p
<1>5. /\ uids' \in Seq(Uids) /\ files' \in [Uids -> Seq(Paths)]
      /\ Distinct(uids')
      /\ \E n \in 1..Len(uids') : uids'[n] = uid
      /\ \A n \in 1..Len(uids) : n \in 1..Len(uids') /\ uids'[n] = uids[n]
      /\ files' = [files EXCEPT ![uid] = Append(@, p)]
  BY <1>1, <1>2, <1>4, AddFileFact DEF KeysInv
<1>6. /\ \A x \in Uids : \A k \in 1..Len(files[x]) :
           k \in 1..Len(files'[x]) /\ files'[x][k] = files[x][k]
      /\ \A x \in Uids : \A k \in 1..Len(files'[x]) :
           k \in 1..Len(files[x]) \/ (x = uid /\ files'[x][k] = p)
      /\ Len(files'[uid]) \in 1..Len(files'[uid]) /\ files'[uid][Len(files'[uid])] = p
  <2>1. files \in [Uids -> Seq(Paths)]
    BY DEF TypeOK
  <2>2. /\ files'[uid] = Append(files[uid], p)
        /\ \A x \in Uids \ {uid} : files'[x] = files[x]
        /\ \A x \in Uids : files[x] \in Seq(Paths)
    BY <2>1, <1>4, <1>5
  <2>3. ASSUME NEW x \in Uids, x # uid
        PROVE  files'[x] = files[x]
    BY <2>2, <2>3
  <2>4. /\ Len(files'[uid]) = Len(files[uid]) + 1
        /\ files'[uid][Len(files[uid]) + 1] = p
        /\ \A k \in 1..Len(files[uid]) : files'[uid][k] = files[uid][k]
        /\ Len(files[uid]) \in Nat
    BY <2>2, <1>4
  <2> QED  BY <2>3, <2>4
<1>7. TypeOK' /\ WorldInv' /\ PhaseInv'
  BY SMTT(30), <1>1, <1>2, <1>3, <1>5 DEF TypeOK, WorldInv, PhaseInv, Nothing
<1>8. KeysInv' /\ PartialInv'
  BY <1>1, <1>5 DEF KeysInv, PartialInv
<1>9. FilesInv'
  <2> SUFFICES ASSUME NEW x \in Uids, NEW k \in 1..Len(files'[x])
               PROVE  /\ \E n \in 1..at : files'[x][k] = Folders[n]
                      /\ files'[x][k] \in torn \/ UidOf[seen[files'[x][k]]] = x
    BY <1>1, <1>2 DEF FilesInv
  <2>1. CASE k \in 1..Len(files[x])
    <3>1. files'[x][k] = files[x][k]
      BY <2>1, <1>6
    <3>2. 1..(at - 1) \subseteq 1..at
      BY <1>2
    <3> QED  BY <2>1, <3>1, <3>2 DEF FilesInv
  <2>2. CASE x = uid /\ files'[x][k] = p
    <3>1. at \in 1..at /\ p = Folders[at]
      BY <1>2 DEF p, Folder
    <3> QED  BY <2>2, <3>1, <1>4
  <2> QED  BY <2>1, <2>2, <1>6
<1>10. FoundInv'
  <2> SUFFICES ASSUME NEW n \in 1..at PROVE Found(Folders[n], UidOf[Home[Folders[n]]])'
    BY <1>1, <1>2 DEF FoundInv
  <2>1. CASE n = at
    <3>1. (\E k \in 1..Len(uids') : uids'[k] = uid)
            /\ \E k \in 1..Len(files'[uid]) : files'[uid][k] = p
      BY <1>5, <1>6
    <3>2. Folders[n] = p
      BY <2>1 DEF p, Folder
    <3> QED  BY <3>1, <3>2, <1>4 DEF Found, Listed
  <2>2. CASE n # at
    <3> DEFINE x == UidOf[Home[Folders[n]]]
    <3>1. n \in 1..(at - 1) /\ Folders[n] \in Paths
      BY <2>2, <1>2, WorldAssumption DEF Paths
    <3>2. x \in Uids
      BY <3>1, WorldAssumption, UidFact
    <3>3. Found(Folders[n], x)
      BY <3>1 DEF FoundInv
    <3> HIDE DEF x
    <3>4. Found(Folders[n], x)'
      BY <3>2, <3>3, <1>5, <1>6 DEF Found, Listed
    <3> QED  BY <3>4 DEF x
  <2> QED  BY <2>1, <2>2
<1>11. PmtInv' /\ ReadInv' /\ ExactMatchWins' /\ MisreadOnlyIfRenumbered'
  BY <1>1, <1>3 DEF PmtInv, ReadInv, ExactMatchWins, MisreadOnlyIfRenumbered
<1>12. ReadFailsOnlyIfMisconfigured' /\ StableReported'
  BY <1>1, <1>3 DEF ReadFailsOnlyIfMisconfigured, StableReported
<1> QED  BY <1>7, <1>8, <1>9, <1>10, <1>11, <1>12

\* A dictionary is loaded for the first UID of tmp_pmt_files.
LEMMA LoadSpecIInv ==
  ASSUME IInv, LoadSpec PROVE IInv'
<1> USE DEF IInv
<1> DEFINE uid == Head(left)
<1>0. PICK key \in Keys :
        /\ Chooses(uid, key)
        /\ pmt' = [x \in DOMAIN pmt \cup {uid} |->
                    IF x = uid THEN IF key \in Sound THEN key ELSE None ELSE pmt[x]]
  BY DEF LoadSpec
<1> DEFINE spec == IF key \in Sound THEN key ELSE None
<1>1. /\ phase = "load" /\ left # <<>> /\ left' = Tail(left) /\ Candidates(uid) # {}
      /\ pmt' = [x \in DOMAIN pmt \cup {uid} |-> IF x = uid THEN spec ELSE pmt[x]]
      /\ UNCHANGED <<mode, meta, bound, seen, torn, partial, phase, inited, uids, files, at, u, i,
                     batch, published, last>>
  BY <1>0 DEF LoadSpec, worldVars, history, runVars, outVars
<1>2. left \in Seq(Uids) /\ uid \in Uids /\ left' \in Seq(Uids)
  BY <1>1 DEF TypeOK
<1>3. /\ Len(left) \in Nat \ {0} /\ Len(left') = Len(left) - 1 /\ uid = left[1]
      /\ \A k \in 1..Len(left') : k + 1 \in 1..Len(left) /\ left'[k] = left[k + 1]
  BY <1>1, <1>2
<1>4. key \in Keys /\ (uid \in Keys => key = uid)
  BY <1>0, ChoiceFact
<1> HIDE DEF uid
<1>5. TypeOK'
  BY <1>1, <1>2, <1>4 DEF TypeOK
<1>6. WorldInv' /\ PhaseInv' /\ PartialInv' /\ FilesInv' /\ ReadInv' /\ MisreadOnlyIfRenumbered'
  BY <1>1 DEF WorldInv, PhaseInv, PartialInv, FilesInv, ReadInv, MisreadOnlyIfRenumbered
<1>7. KeysInv'
  <2>1. Distinct(left')
    BY <1>3 DEF KeysInv, Distinct
  <2>2. \A k \in 1..Len(left') : \E n \in 1..Len(uids) : uids[n] = left'[k]
    BY <1>1, <1>3 DEF KeysInv, Listed
  <2> QED  BY <1>1, <2>1, <2>2 DEF KeysInv, Listed
<1>8. FoundInv'
  BY <1>1 DEF FoundInv, Found, Listed
<1>9. PmtInv'
  <2> SUFFICES ASSUME NEW n \in 1..Len(uids)
               PROVE  uids[n] \in DOMAIN pmt' \/ \E k \in 1..Len(left') : left'[k] = uids[n]
    BY <1>1 DEF PmtInv, PhaseInv
  <2>1. CASE uids[n] \in DOMAIN pmt
    BY <2>1, <1>1
  <2>2. CASE \E k \in 1..Len(left) : left[k] = uids[n]
    <3>1. PICK k \in 1..Len(left) : left[k] = uids[n]
      BY <2>2
    <3>2. CASE k = 1
      BY <3>1, <3>2, <1>1, <1>3
    <3>3. CASE k # 1
      <4>1. k - 1 \in 1..Len(left') /\ (k - 1) + 1 = k
        BY <3>3, <1>3
      <4> QED  BY <4>1, <3>1, <1>3
    <3> QED  BY <3>2, <3>3
  <2> QED  BY <2>1, <2>2, <1>1 DEF PmtInv
<1>10. ExactMatchWins'
  BY <1>1, <1>4 DEF ExactMatchWins
<1>11. ReadFailsOnlyIfMisconfigured' /\ StableReported'
  BY <1>1 DEF ReadFailsOnlyIfMisconfigured, StableReported, PhaseInv
<1> QED  BY <1>5, <1>6, <1>7, <1>8, <1>9, <1>10, <1>11

\* A sequence without its n-th element, as pieces.
LEMMA SpliceFact ==
  ASSUME NEW S, NEW s \in Seq(S), NEW n \in 1..Len(s), NEW a \in Seq(S), NEW b \in Seq(S),
         Len(a) = n - 1, \A k \in 1..(n - 1) : a[k] = s[k],
         Len(b) = Len(s) - n, \A k \in 1..(Len(s) - n) : b[k] = s[n + k]
  PROVE  /\ a \o b \in Seq(S) /\ Len(a \o b) = Len(s) - 1
         /\ \A k \in 1..(Len(s) - 1) : (a \o b)[k] = IF k < n THEN s[k] ELSE s[k + 1]
<1>1. Len(s) \in Nat /\ n \in Nat /\ 1 <= n /\ n <= Len(s)
  OBVIOUS
<1>2. /\ a \o b \in Seq(S) /\ Len(a \o b) = Len(a) + Len(b)
      /\ \A k \in 1..(Len(a) + Len(b)) :
           (a \o b)[k] = IF k <= Len(a) THEN a[k] ELSE b[k - Len(a)]
  BY ConcatProperties
<1>3. Len(a) + Len(b) = Len(s) - 1
  BY <1>1
<1>4. ASSUME NEW k \in 1..(Len(s) - 1)
      PROVE  (a \o b)[k] = IF k < n THEN s[k] ELSE s[k + 1]
  <2>1. (a \o b)[k] = IF k <= n - 1 THEN a[k] ELSE b[k - (n - 1)]
    BY <1>2, <1>3
  <2>2. CASE k < n
    BY <2>1, <2>2, <1>1
  <2>3. CASE ~(k < n)
    <3>1. k - (n - 1) \in 1..(Len(s) - n) /\ n + (k - (n - 1)) = k + 1
      BY <2>3, <1>1
    <3>2. b[k - (n - 1)] = s[k + 1]
      BY <3>1
    <3> QED  BY <2>1, <2>3, <3>2, <1>1
  <2> QED  BY <2>2, <2>3
<1> QED  BY <1>2, <1>3, <1>4

\* The two pieces that pop leaves of a sequence.
LEMMA CutFact ==
  ASSUME NEW S, NEW s \in Seq(S), NEW n \in 1..Len(s)
  PROVE  LET t == SubSeq(s, 1, n - 1) \o SubSeq(s, n + 1, Len(s))
         IN  /\ t \in Seq(S) /\ Len(t) = Len(s) - 1
             /\ \A k \in 1..(Len(s) - 1) : t[k] = IF k < n THEN s[k] ELSE s[k + 1]
<1>1. Len(s) \in Nat /\ n \in Nat /\ 1 <= n /\ n <= Len(s)
  OBVIOUS
<1>2. PICK a : a = SubSeq(s, 1, n - 1)
  OBVIOUS
<1>3. PICK b : b = SubSeq(s, n + 1, Len(s))
  OBVIOUS
<1>4. /\ a \in Seq(S) /\ Len(a) = n - 1
      /\ \A k \in 1..(n - 1) : a[k] = s[k]
  BY <1>1, <1>2, SubSeqProperties
<1>5. /\ b \in Seq(S) /\ Len(b) = Len(s) - n
      /\ \A k \in 1..(Len(s) - n) : b[k] = s[n + k]
  BY <1>1, <1>3, SubSeqProperties
<1>6. /\ a \o b \in Seq(S) /\ Len(a \o b) = Len(s) - 1
      /\ \A k \in 1..(Len(s) - 1) : (a \o b)[k] = IF k < n THEN s[k] ELSE s[k + 1]
  BY SMTT(30), <1>4, <1>5, SpliceFact
<1> QED  BY <1>2, <1>3, <1>6, Zenon

\* Without its n-th element, a sequence of distinct elements is as distinct, and
\* every other element stays.
LEMMA DroppedFact ==
  ASSUME NEW S, NEW s \in Seq(S), Distinct(s), NEW n \in 1..Len(s),
         NEW t \in Seq(S), Len(t) = Len(s) - 1,
         \A k \in 1..(Len(s) - 1) : t[k] = IF k < n THEN s[k] ELSE s[k + 1]
  PROVE  /\ Distinct(t)
         /\ \A k \in 1..Len(t) : t[k] # s[n] /\ \E m \in 1..Len(s) : t[k] = s[m]
         /\ \A m \in 1..Len(s) : s[m] # s[n] => \E k \in 1..Len(t) : t[k] = s[m]
<1> DEFINE From(k) == IF k < n THEN k ELSE k + 1
<1>1. Len(s) \in Nat /\ n \in Nat /\ 1 <= n /\ n <= Len(s)
  OBVIOUS
<1>2. ASSUME NEW k \in 1..Len(t)
      PROVE  From(k) \in 1..Len(s) /\ From(k) # n /\ t[k] = s[From(k)]
  BY <1>1
<1>3. \A k \in 1..Len(t) : t[k] # s[n] /\ \E m \in 1..Len(s) : t[k] = s[m]
  <2> SUFFICES ASSUME NEW k \in 1..Len(t)
               PROVE  t[k] # s[n] /\ \E m \in 1..Len(s) : t[k] = s[m]
    OBVIOUS
  <2> HIDE DEF From
  <2> QED  BY <1>2 DEF Distinct
<1>4. Distinct(t)
  <2> SUFFICES ASSUME NEW k \in 1..Len(t), NEW j \in 1..Len(t), t[k] = t[j]
               PROVE  k = j
    BY DEF Distinct
  <2>1. From(k) = From(j)
    <3> HIDE DEF From
    <3> QED  BY <1>2 DEF Distinct
  <2> QED  BY <2>1, <1>1
<1>5. ASSUME NEW m \in 1..Len(s), s[m] # s[n]
      PROVE  \E k \in 1..Len(t) : t[k] = s[m]
  <2>1. CASE m < n
    <3>1. m \in 1..Len(t) /\ m \in 1..(Len(s) - 1)
      BY <1>1, <2>1
    <3> QED  BY <2>1, <3>1
  <2>2. CASE m > n
    <3>1. m - 1 \in 1..Len(t) /\ m - 1 \in 1..(Len(s) - 1) /\ ~(m - 1 < n) /\ (m - 1) + 1 = m
      BY <1>1, <2>2
    <3>2. t[m - 1] = s[m]
      BY <3>1
    <3> QED  BY <3>1, <3>2
  <2> QED  BY <2>1, <2>2, <1>1, <1>5
<1> QED  BY <1>3, <1>4, <1>5

\* A UID that pmt.xml does not know is dropped.
LEMMA LoadUnknownIInv ==
  ASSUME IInv, LoadUnknown PROVE IInv'
<1> USE DEF IInv
<1> DEFINE x == Head(left)
<1>1. /\ phase = "load" /\ left # <<>> /\ left' = Tail(left) /\ Candidates(x) = {}
      /\ files' = [files EXCEPT ![x] = <<>>]
      /\ UNCHANGED <<mode, meta, bound, seen, torn, partial, phase, inited, pmt, at, u, i,
                     batch, published, last>>
  BY DEF LoadUnknown, worldVars, history, runVars, outVars
<1>2. left \in Seq(Uids) /\ x \in Uids /\ left' \in Seq(Uids) /\ uids \in Seq(Uids)
  BY <1>1 DEF TypeOK
<1>3. /\ Len(left) \in Nat \ {0} /\ Len(left') = Len(left) - 1 /\ x = left[1]
      /\ \A k \in 1..Len(left') : k + 1 \in 1..Len(left) /\ left'[k] = left[k + 1]
  BY <1>1, <1>2
<1> HIDE DEF x
<1>4. PICK n \in 1..Len(uids) :
        uids[n] = x /\ uids' = SubSeq(uids, 1, n - 1) \o SubSeq(uids, n + 1, Len(uids))
  <2>1. \E k \in 1..Len(uids) : uids[k] = x
    BY <1>1, <1>3 DEF KeysInv, Listed
  <2> QED  BY <2>1 DEF LoadUnknown, x
<1>5. /\ uids' \in Seq(Uids) /\ Distinct(uids')
      /\ \A k \in 1..Len(uids') : uids'[k] # x /\ \E m \in 1..Len(uids) : uids'[k] = uids[m]
      /\ \A m \in 1..Len(uids) : uids[m] # x => \E k \in 1..Len(uids') : uids'[k] = uids[m]
  <2>1. PICK t : t = SubSeq(uids, 1, n - 1) \o SubSeq(uids, n + 1, Len(uids))
    OBVIOUS
  <2>2. /\ t \in Seq(Uids) /\ Len(t) = Len(uids) - 1
        /\ \A k \in 1..(Len(uids) - 1) : t[k] = IF k < n THEN uids[k] ELSE uids[k + 1]
    BY <1>2, <2>1, CutFact, Zenon
  <2>3. /\ Distinct(t)
        /\ \A k \in 1..Len(t) : t[k] # uids[n] /\ \E m \in 1..Len(uids) : t[k] = uids[m]
        /\ \A m \in 1..Len(uids) : uids[m] # uids[n] => \E k \in 1..Len(t) : t[k] = uids[m]
    BY <1>2, <2>2, DroppedFact DEF KeysInv
  <2>4. uids' = t
    BY <1>4, <2>1
  <2> QED  BY ZenonT(30), <1>4, <2>2, <2>3, <2>4
<1>6. u = 1 /\ i = 1 /\ inited = "no" /\ last = "none"
  BY <1>1 DEF PhaseInv
<1>7. TypeOK'
  BY <1>1, <1>2, <1>5, <1>6 DEF TypeOK
<1>8. \A y \in Uids : y # x => files'[y] = files[y]
  BY <1>1 DEF TypeOK
<1>9. Len(files'[x]) = 0
  BY <1>1, <1>2 DEF TypeOK
<1>10. /\ WorldInv' /\ PhaseInv' /\ PartialInv' /\ ReadInv' /\ MisreadOnlyIfRenumbered'
       /\ ExactMatchWins'
  BY <1>1 DEF WorldInv, PhaseInv, PartialInv, ReadInv, MisreadOnlyIfRenumbered, ExactMatchWins
<1>11. KeysInv'
  <2>1. Distinct(left')
    BY <1>3 DEF KeysInv, Distinct
  <2>2. ASSUME NEW k \in 1..Len(left')
        PROVE  \E j \in 1..Len(uids') : uids'[j] = left'[k]
    <3>1. k + 1 \in 1..Len(left) /\ left'[k] = left[k + 1] /\ 1 \in 1..Len(left) /\ k + 1 # 1
      BY <1>3
    <3>2. PICK m \in 1..Len(uids) : uids[m] = left'[k]
      BY <3>1, <1>1 DEF KeysInv, Listed
    <3>3. left'[k] # x
      BY <3>1, <1>3 DEF KeysInv, Distinct
    <3> QED  BY <3>2, <3>3, <1>5
  <2> QED  BY <1>1, <1>5, <2>1, <2>2 DEF KeysInv, Listed
<1>12. FilesInv'
  BY <1>1, <1>8, <1>9 DEF FilesInv
<1>13. FoundInv'
  <2> SUFFICES ASSUME NEW k \in 1..(at - 1) PROVE Found(Folders[k], UidOf[Home[Folders[k]]])'
    BY <1>1 DEF FoundInv
  <2> DEFINE y == UidOf[Home[Folders[k]]]
  <2>1. Found(Folders[k], y)
    BY DEF FoundInv
  <2>2. y \in Uids
    <3>1. Folders[k] \in Paths
      BY WorldAssumption DEF TypeOK, Paths
    <3> QED  BY <3>1, WorldAssumption, UidFact
  <2> HIDE DEF y
  <2>3. Found(Folders[k], y)'
    BY <2>1, <2>2, <1>1, <1>5, <1>8 DEF Found, Listed
  <2> QED  BY <2>3 DEF y
<1>14. PmtInv'
  <2> SUFFICES ASSUME NEW k \in 1..Len(uids')
               PROVE  uids'[k] \in DOMAIN pmt \/ \E j \in 1..Len(left') : left'[j] = uids'[k]
    BY <1>1, <1>6 DEF PmtInv
  <2>1. PICK m \in 1..Len(uids) : uids'[k] = uids[m]
    BY <1>5
  <2>2. ASSUME NEW j \in 1..Len(left), left[j] = uids[m]
        PROVE  \E l \in 1..Len(left') : left'[l] = uids'[k]
    <3>1. j # 1
      BY <2>1, <2>2, <1>3, <1>5
    <3>2. j - 1 \in 1..Len(left') /\ (j - 1) + 1 = j
      BY <3>1, <1>3
    <3> QED  BY <3>2, <2>1, <2>2, <1>3
  <2> QED  BY <2>1, <2>2, <1>1 DEF PmtInv
<1>15. ReadFailsOnlyIfMisconfigured' /\ StableReported'
  BY <1>1, <1>6 DEF ReadFailsOnlyIfMisconfigured, StableReported
<1> QED  BY <1>7, <1>10, <1>11, <1>12, <1>13, <1>14, <1>15

-----------------------------------------------------------------------------
(* The steps of read.                                                      *)

\* A read starts with nothing.
LEMMA ReadBeginsIInv ==
  ASSUME IInv, ReadBegins PROVE IInv'
<1> USE DEF IInv
<1>1. /\ phase = "idle" /\ phase' = "read" /\ u' = 1 /\ i' = 1 /\ batch' = {}
      /\ published' \in {{}, published}
      /\ UNCHANGED <<mode, meta, bound, seen, torn, partial, inited, uids, files, pmt, at, left, last>>
  BY DEF ReadBegins, worldVars, history, runVars, dictVars
<1>2. TypeOK' /\ WorldInv' /\ PhaseInv'
  <2>1. Len(uids) \in Nat /\ u' \in 1..(Len(uids) + 1)
    BY <1>1 DEF TypeOK
  <2> QED  BY <1>1, <2>1 DEF TypeOK, WorldInv, PhaseInv
<1>3. KeysInv' /\ FilesInv' /\ FoundInv' /\ PmtInv' /\ PartialInv'
  BY SMTT(30), <1>1 DEF KeysInv, PartialInv, FilesInv, FoundInv, Found, PmtInv, Listed
<1>4. ReadInv'
  BY <1>1 DEF ReadInv
<1>5. ExactMatchWins' /\ MisreadOnlyIfRenumbered' /\ StableReported'
  BY <1>1 DEF ExactMatchWins, MisreadOnlyIfRenumbered, StableReported
<1>6. ReadFailsOnlyIfMisconfigured'
  BY SMTT(30), <1>1 DEF ReadFailsOnlyIfMisconfigured, Misconfigured, Incomplete, Hides, MetricsRead,
                        SamplesKept, ParsedSamples, Allowed
<1> QED  BY <1>2, <1>3, <1>4, <1>5, <1>6

\* What the loops of read never change.
LEMMA LoopIInv ==
  ASSUME IInv, phase = "read", phase' = "read", u' \in 1..(Len(uids) + 1), i' \in Nat \ {0},
         UNCHANGED <<worldVars, inited, dictVars, at, partial, left, last>>
  PROVE  /\ WorldInv' /\ PhaseInv' /\ KeysInv' /\ PartialInv' /\ FilesInv' /\ FoundInv' /\ PmtInv'
         /\ ExactMatchWins' /\ ReadFailsOnlyIfMisconfigured' /\ StableReported'
         /\ batch' \subseteq Entry /\ published' \subseteq Entry => TypeOK'
<1> USE DEF IInv, worldVars, history, runVars, dictVars
<1>1. WorldInv' /\ PhaseInv' /\ PartialInv'
  BY DEF WorldInv, PhaseInv, PartialInv
<1>2. KeysInv' /\ FoundInv' /\ PmtInv'
  BY ZenonT(30) DEF KeysInv, FoundInv, Found, PmtInv, Listed
<1>3. FilesInv'
  BY DEF FilesInv
<1>4. ExactMatchWins' /\ StableReported'
  BY DEF ExactMatchWins, StableReported
<1>5. ReadFailsOnlyIfMisconfigured'
  BY SMTT(30) DEF ReadFailsOnlyIfMisconfigured, Misconfigured, Incomplete, Hides, MetricsRead,
                  SamplesKept, ParsedSamples, Allowed
<1>6. batch' \subseteq Entry /\ published' \subseteq Entry => TypeOK'
  BY DEF TypeOK
<1> QED  BY <1>1, <1>2, <1>3, <1>4, <1>5, <1>6

\* Where the loops of read are.
LEMMA AtFileFact ==
  ASSUME IInv, AtFile
  PROVE  /\ phase = "read" /\ u \in 1..Len(uids) /\ Len(uids) \in Nat /\ u + 1 \in 1..(Len(uids) + 1)
         /\ uids[u] \in Uids /\ i \in 1..Len(files[uids[u]]) /\ i + 1 \in Nat \ {0}
         /\ Path \in Paths /\ Path = files[uids[u]][i]
         /\ Path \in torn \/ UidOf[seen[Path]] = uids[u]
<1>1. /\ phase = "read" /\ u \in 1..Len(uids) /\ Len(uids) \in Nat /\ u + 1 \in 1..(Len(uids) + 1)
      /\ uids[u] \in Uids
  BY DEF IInv, TypeOK, AtFile
<1>2. files[uids[u]] \in Seq(Paths)
  BY <1>1 DEF IInv, TypeOK
<1>3. i \in 1..Len(files[uids[u]]) /\ i + 1 \in Nat \ {0}
  BY <1>2 DEF IInv, TypeOK, AtFile
<1>4. Path \in Paths
  BY <1>2, <1>3 DEF Path
<1> QED  BY <1>1, <1>3, <1>4 DEF IInv, FilesInv, Path

\* A file is read: its data is its folder's device's.
LEMMA ReadFileIInv ==
  ASSUME IInv, ReadFile PROVE IInv'
<1>1. /\ AtFile /\ bound[Path] # None /\ Decodable(uids[u])
      /\ batch' = batch \cup {ThisEntry} /\ published' \in {batch', published}
      /\ i' = i + 1
      /\ UNCHANGED <<worldVars, phase, inited, dictVars, at, partial, left, u, last>>
  BY DEF ReadFile
<1>2. UNCHANGED <<mode, meta, bound, seen, torn, partial, phase, inited, uids, files, pmt, at, left, u, last>>
  BY <1>1 DEF worldVars, history, runVars, dictVars
<1>3. /\ phase = "read" /\ u \in 1..Len(uids) /\ Len(uids) \in Nat
      /\ uids[u] \in Uids /\ i \in 1..Len(files[uids[u]]) /\ i + 1 \in Nat \ {0}
      /\ Path \in Paths /\ Path = files[uids[u]][i]
      /\ Path \in torn \/ UidOf[seen[Path]] = uids[u]
  BY <1>1, AtFileFact
<1>4. bound[Path] \in Devices /\ pmt[uids[u]] \in Keys /\ uids[u] \in DOMAIN pmt
  BY <1>1, <1>3 DEF IInv, TypeOK, Decodable
<1>6. ThisEntry \in Entry
  BY <1>3, <1>4 DEF ThisEntry, Entry
<1>7. /\ ThisEntry.uid = uids[u] /\ ThisEntry.path = Path /\ ThisEntry.device = bound[Path]
  BY DEF ThisEntry
<1>8. /\ WorldInv' /\ PhaseInv' /\ KeysInv' /\ PartialInv' /\ FilesInv' /\ FoundInv' /\ PmtInv'
      /\ ExactMatchWins' /\ ReadFailsOnlyIfMisconfigured' /\ StableReported'
      /\ batch' \subseteq Entry /\ published' \subseteq Entry => TypeOK'
  <2>1. phase' = "read" /\ u' \in 1..(Len(uids) + 1) /\ i' \in Nat \ {0}
    BY <1>1, <1>2, <1>3
  <2> QED  BY <1>1, <1>3, <2>1, LoopIInv
<1>9. TypeOK'
  BY <1>1, <1>6, <1>8 DEF IInv, TypeOK
<1>10. MisreadOnlyIfRenumbered'
  <2>1. ThisEntry.uid # UidOf[ThisEntry.device] =>
          ThisEntry.path \in torn \/ ThisEntry.device # seen[ThisEntry.path]
    BY <1>3, <1>7
  <2>2. \A e \in batch' \cup published' : e \in batch \cup published \/ e = ThisEntry
    BY <1>1
  <2>3. \A e \in batch \cup published : e.uid # UidOf[e.device] =>
          e.path \in torn \/ e.device # seen[e.path]
    BY DEF IInv, MisreadOnlyIfRenumbered
  <2>4. \A e \in batch' \cup published' : e.uid # UidOf[e.device] =>
          e.path \in torn \/ e.device # seen[e.path]
    BY <2>1, <2>2, <2>3
  <2> QED  BY <1>2, <2>4 DEF MisreadOnlyIfRenumbered
<1>11. ASSUME NEW n \in 1..Len(uids), NEW k \in 1..Len(files[uids[n]]),
              n < u \/ (n = u /\ k < i + 1), files[uids[n]][k] \in Stable
       PROVE  \E e \in batch' : Reported(e, uids[n], files[uids[n]][k])
  <2>1. CASE n < u \/ (n = u /\ k < i)
    <3>1. \E e \in batch : Reported(e, uids[n], files[uids[n]][k])
      BY <1>3, <1>11, <2>1 DEF IInv, ReadInv
    <3> QED  BY <3>1, <1>1
  <2>2. CASE n = u /\ k = i
    <3>1. Path \in Stable /\ bound[Path] = Home[Path]
      BY <2>2, <1>3, <1>11 DEF IInv, WorldInv
    <3>2. Reported(ThisEntry, uids[n], files[uids[n]][k])
      BY <2>2, <3>1, <1>3, <1>7 DEF Reported
    <3> QED  BY <3>2, <1>1
  <2>3. k < i + 1 => k < i \/ k = i
    BY <1>3
  <2> QED  BY <2>1, <2>2, <2>3, <1>11
<1>12. ReadInv'
  <2>1. uids' = uids /\ files' = files /\ u' = u /\ i' = i + 1
    BY <1>1, <1>2
  <2>2. ASSUME NEW n \in 1..Len(uids'), NEW k \in 1..Len(files'[uids'[n]]),
               n < u' \/ (n = u' /\ k < i'), files'[uids'[n]][k] \in Stable
        PROVE  \E e \in batch' : Reported(e, uids'[n], files'[uids'[n]][k])
    BY <1>11, <2>1, <2>2
  <2> QED  BY <2>2 DEF ReadInv, Reported
<1> QED  BY <1>8, <1>9, <1>10, <1>12 DEF IInv

\* A file is passed over, or the next UID begins: no stable file is missed.
LEMMA PassIInv ==
  ASSUME IInv, SkipFile \/ NextUid PROVE IInv'
<1>1. /\ phase = "read" /\ UNCHANGED <<worldVars, phase, inited, dictVars, at, partial, left, outVars>>
  BY DEF SkipFile, NextUid, AtFile
<1>2. UNCHANGED <<mode, meta, bound, seen, torn, partial, phase, inited, uids, files, pmt, at, left,
                  batch, published, last>>
  BY <1>1 DEF worldVars, history, runVars, dictVars, outVars
<1>3. u' \in 1..(Len(uids) + 1) /\ i' \in Nat \ {0}
  <2>1. CASE SkipFile
    BY <2>1 DEF SkipFile, IInv, TypeOK
  <2>2. CASE NextUid
    BY <2>2 DEF NextUid, IInv, TypeOK
  <2> QED  BY <2>1, <2>2
<1>4. /\ WorldInv' /\ PhaseInv' /\ KeysInv' /\ PartialInv' /\ FilesInv' /\ FoundInv' /\ PmtInv'
      /\ ExactMatchWins' /\ ReadFailsOnlyIfMisconfigured' /\ StableReported'
      /\ batch' \subseteq Entry /\ published' \subseteq Entry => TypeOK'
  BY <1>1, <1>2, <1>3, LoopIInv
<1>5. TypeOK' /\ MisreadOnlyIfRenumbered'
  BY <1>2, <1>4 DEF IInv, TypeOK, MisreadOnlyIfRenumbered
<1>6. ReadInv'
  <2> SUFFICES ASSUME NEW n \in 1..Len(uids), NEW k \in 1..Len(files[uids[n]]),
                      n < u' \/ (n = u' /\ k < i'), files[uids[n]][k] \in Stable
               PROVE  n < u \/ (n = u /\ k < i)
    BY <1>1, <1>2 DEF IInv, ReadInv, Reported
  <2>1. u \in Nat /\ i \in Nat /\ Len(uids) \in Nat /\ n \in Nat
    BY DEF IInv, TypeOK
  <2>2. CASE SkipFile
    <3>1. bound[Path] = None /\ u' = u /\ i' = i + 1 /\ AtFile
      BY <2>2 DEF SkipFile
    <3>2. Path \in Paths /\ Path = files[uids[u]][i]
      BY <3>1, AtFileFact
    <3>3. Path \notin Stable
      BY <3>1, <3>2, WorldAssumption DEF IInv, WorldInv
    <3>4. k \in Nat /\ ~(n = u /\ k = i)
      BY <3>2, <3>3
    <3> QED  BY <2>1, <3>1, <3>4
  <2>3. CASE NextUid
    <3>1. u' = u + 1 /\ i' = 1 /\ i > Len(files[uids[u]])
      BY <2>3 DEF NextUid
    <3>2. k \in Nat /\ k >= 1 /\ k <= Len(files[uids[n]]) /\ Len(files[uids[n]]) \in Nat
      <4>1. files[uids[n]] \in Seq(Paths)
        BY DEF IInv, TypeOK
      <4> QED  BY <4>1
    <3>3. CASE n = u
      BY <3>1, <3>2, <3>3, <2>1
    <3>4. CASE n # u
      BY <3>1, <3>2, <3>4, <2>1
    <3> QED  BY <3>3, <3>4
  <2> QED  BY <2>2, <2>3
<1> QED  BY <1>4, <1>5, <1>6 DEF IInv

\* A read that fails found a UID without a dictionary that fits.
LEMMA ReadRaisesIInv ==
  ASSUME IInv, ReadRaises PROVE IInv'
<1>1. /\ AtFile /\ (Decodable(uids[u]) => Untyped(uids[u])) /\ last' = "raised" /\ phase' \in {"idle", "crashed"}
      /\ UNCHANGED <<mode, meta, bound, seen, torn, partial, inited, uids, files, pmt, at, left, u, i,
                     batch, published>>
  BY DEF ReadRaises, worldVars, history, runVars, dictVars, loopVars
<1>2. phase = "read" /\ u \in 1..Len(uids) /\ Len(uids) \in Nat /\ uids[u] \in Uids
  BY <1>1, AtFileFact
<1>3. inited # "no" /\ inited # "false"
  <2>1. uids # <<>>
    BY <1>2
  <2> QED  BY <2>1, <1>2 DEF IInv, PhaseInv, PmtInv
<1>4. inited = "true" => uids[u] \in DOMAIN pmt
  BY <1>2 DEF IInv, PmtInv
<1>5. TypeOK' /\ WorldInv' /\ PhaseInv'
  BY <1>1, <1>3 DEF IInv, TypeOK, WorldInv, PhaseInv
<1>6. KeysInv' /\ PartialInv' /\ FilesInv' /\ FoundInv' /\ PmtInv' /\ ReadInv'
  <2>1. KeysInv' /\ PmtInv'
    BY <1>1 DEF IInv, KeysInv, PmtInv, Listed
  <2>2. PartialInv' /\ ReadInv'
    BY <1>1 DEF IInv, PartialInv, ReadInv
  <2>3. FilesInv'
    BY <1>1 DEF IInv, FilesInv
  <2>4. FoundInv'
    BY <1>1 DEF IInv, FoundInv, Found, Listed
  <2> QED  BY <2>1, <2>2, <2>3, <2>4
<1>7. ExactMatchWins' /\ MisreadOnlyIfRenumbered' /\ StableReported'
  BY <1>1 DEF IInv, ExactMatchWins, MisreadOnlyIfRenumbered, StableReported
<1>8. ReadFailsOnlyIfMisconfigured'
  <2>1. inited \in {"raised", "true"}
    BY <1>3 DEF IInv, TypeOK
  <2>2. ASSUME inited = "true"
        PROVE  \E uid \in DOMAIN pmt : Misconfigured(uid)
    BY <1>1, <1>4, <2>2 DEF Decodable, Untyped, Misconfigured, Incomplete, Hides
  <2>3. \A uid : Misconfigured(uid)' = Misconfigured(uid)
    BY <1>1 DEF Misconfigured, Incomplete, Hides, MetricsRead, SamplesKept, ParsedSamples,
                Allowed
  <2> QED  BY <1>1, <2>1, <2>2, <2>3 DEF ReadFailsOnlyIfMisconfigured
<1> QED  BY <1>5, <1>6, <1>7, <1>8 DEF IInv

\* A read that ends has reported every stable folder.
LEMMA ReadEndsIInv ==
  ASSUME IInv, ReadEnds PROVE IInv'
<1>1. /\ phase = "read" /\ u > Len(uids) /\ published' = batch /\ last' = "ok"
      /\ phase' \in {"exit0", "idle"}
      /\ UNCHANGED <<mode, meta, bound, seen, torn, partial, inited, uids, files, pmt, at, left, u, i, batch>>
  BY DEF ReadEnds, worldVars, history, runVars, dictVars, loopVars
<1>2. TypeOK' /\ WorldInv' /\ PhaseInv'
  BY <1>1 DEF IInv, TypeOK, WorldInv, PhaseInv
<1>3. KeysInv' /\ PartialInv' /\ FilesInv' /\ FoundInv' /\ PmtInv' /\ ReadInv'
  <2>1. KeysInv' /\ PmtInv'
    BY <1>1 DEF IInv, KeysInv, PmtInv, Listed
  <2>2. PartialInv' /\ ReadInv'
    BY <1>1 DEF IInv, PartialInv, ReadInv
  <2>3. FilesInv'
    BY <1>1 DEF IInv, FilesInv
  <2>4. FoundInv'
    BY <1>1 DEF IInv, FoundInv, Found, Listed
  <2> QED  BY <2>1, <2>2, <2>3, <2>4
<1>4. ExactMatchWins' /\ MisreadOnlyIfRenumbered' /\ ReadFailsOnlyIfMisconfigured'
  BY <1>1 DEF IInv, ExactMatchWins, MisreadOnlyIfRenumbered, ReadFailsOnlyIfMisconfigured
<1>5. StableReported'
  <2> SUFFICES ASSUME inited = "true", NEW p \in Stable, Candidates(UidOf[Home[p]]) # {}
               PROVE  \E e \in batch : Reported(e, UidOf[Home[p]], p)
    BY <1>1 DEF StableReported, Reported
  <2> DEFINE uid == UidOf[Home[p]]
  <2>1. PICK n \in 1..Len(Folders) : Folders[n] = p
    BY WorldAssumption DEF Paths
  <2>2. at = Len(Folders) + 1 /\ Len(Folders) \in Nat
    BY WorldAssumption DEF IInv, PhaseInv
  <2>3. n \in 1..(at - 1)
    BY <2>1, <2>2
  <2>4. Found(p, uid)
    BY <2>1, <2>3 DEF IInv, FoundInv
  <2> HIDE DEF uid
  <2>5. PICK m \in 1..Len(uids) : uids[m] = uid
    BY <2>4 DEF Found, Listed, uid
  <2>6. PICK k \in 1..Len(files[uid]) : files[uid][k] = p
    BY <2>4 DEF Found, uid
  <2>7. m < u
    BY <1>1, <2>5 DEF IInv, TypeOK
  <2>8. \E e \in batch : Reported(e, uids[m], files[uids[m]][k])
    BY <1>1, <2>5, <2>6, <2>7 DEF IInv, ReadInv
  <2> QED  BY <2>5, <2>6, <2>8 DEF uid
<1> QED  BY <1>2, <1>3, <1>4, <1>5 DEF IInv

\* SIGINT, and steps that change nothing.
LEMMA RestIInv ==
  ASSUME IInv, Interrupt \/ UNCHANGED vars PROVE IInv'
<1>1. /\ UNCHANGED <<mode, meta, bound, seen, torn, partial, inited, uids, files, pmt, at, left, u, i,
                     batch, published, last>>
      /\ phase' = phase \/ (phase \in {"idle", "read"} /\ phase' = "exit0")
  BY DEF Interrupt, vars, worldVars, history, runVars, dictVars, loopVars, outVars
<1>2. TypeOK' /\ WorldInv' /\ PhaseInv'
  BY <1>1 DEF IInv, TypeOK, WorldInv, PhaseInv
<1>3. KeysInv' /\ PartialInv' /\ FilesInv'
  BY <1>1 DEF IInv, KeysInv, PartialInv, Folder, FilesInv, Listed
<1>7. FoundInv' /\ PmtInv'
  <2>1. FoundInv'
    BY <1>1 DEF IInv, FoundInv, Found, Listed
  <2>2. PmtInv'
    BY <1>1 DEF IInv, PmtInv
  <2> QED  BY <2>1, <2>2
<1>6. ReadInv'
  BY <1>1 DEF IInv, ReadInv, Reported
<1>4. ExactMatchWins' /\ MisreadOnlyIfRenumbered'
  BY <1>1 DEF IInv, ExactMatchWins, MisreadOnlyIfRenumbered
<1>5. ReadFailsOnlyIfMisconfigured' /\ StableReported'
  BY <1>1 DEF IInv, ReadFailsOnlyIfMisconfigured, StableReported, Misconfigured, Incomplete,
              Hides, MetricsRead, SamplesKept, ParsedSamples, Allowed
<1> QED  BY <1>2, <1>3, <1>4, <1>5, <1>6, <1>7 DEF IInv

-----------------------------------------------------------------------------
(* The theorems.                                                           *)

\* Every step keeps the invariant.
LEMMA NextIInv == IInv /\ [Next]_vars => IInv'
<1> SUFFICES ASSUME IInv, [Next]_vars PROVE IInv'
  OBVIOUS
<1>1. ASSUME NEW p \in Paths, NEW d \in Devices \cup {None}, FolderChanges(p, d) PROVE IInv'
  BY <1>1, FolderIInv
<1>2. CASE InitStep
  <2>1. CASE NoMetadata \/ MetadataRaises \/ Metadata \/ Discovered \/ LoadRaises
               \/ InitReturnsTrue
    BY <2>1, InitStepIInv
  <2>2. CASE ReadGuid \/ ReadSize \/ TelemIsFile \/ SkipFolder
    BY <2>2, ReadGuidIInv, ReadSizeIInv, TelemIInv, SkipFolderIInv
  <2>3. CASE LoadSpec
    BY <2>3, LoadSpecIInv
  <2>4. CASE LoadUnknown
    BY <2>4, LoadUnknownIInv
  <2> QED  BY <1>2, <2>1, <2>2, <2>3, <2>4 DEF InitStep, Load
<1>3. CASE ReadStep
  BY <1>3, ReadFileIInv, PassIInv, ReadRaisesIInv, ReadEndsIInv DEF ReadStep
<1>4. CASE ReadBegins
  BY <1>4, ReadBeginsIInv
<1>5. CASE Interrupt \/ UNCHANGED vars
  BY <1>5, RestIInv
<1> QED  BY <1>1, <1>2, <1>3, <1>4, <1>5 DEF Next, Ended

\* The invariant holds of every run of the agent, fair or not.
THEOREM Invariance == Spec => []IInv
<1> QED  BY InitIInv, NextIInv, PTL DEF Spec

\* The agent's dictionaries, indices and results stay what they should be.
THEOREM TypeCorrect == Spec => []TypeOK
<1>1. IInv => TypeOK
  BY DEF IInv
<1> QED  BY <1>1, Invariance, PTL

\* A telem file that is missing, unreadable or unknown cannot end a read: only an
\* XML set that is missing, incomplete or torn apart by the allowlist does, or an
\* init that was cut short (pmt.py:690-697, 732-762, 862-917, 940).
THEOREM ReadsFailRightly == Spec => []ReadFailsOnlyIfMisconfigured
<1>1. IInv => ReadFailsOnlyIfMisconfigured
  BY DEF IInv
<1> QED  BY <1>1, Invariance, PTL

\* After a read that did not fail, a folder that stays what it is has been
\* reported under its own UID, whatever the others did meanwhile.
THEOREM StableFoldersReported == Spec => []StableReported
<1>1. IInv => StableReported
  BY DEF IInv
<1> QED  BY <1>1, Invariance, PTL

\* A UID that pmt.xml lists is decoded as itself.
THEOREM ExactMatch == Spec => []ExactMatchWins
<1>1. IInv => ExactMatchWins
  BY DEF IInv
<1> QED  BY <1>1, Invariance, PTL

\* Only a folder that is another device's than when init read its guid, or was
\* another's already when init read its size, is decoded as another device's
\* (pmt.py:687-704, 862-870).
THEOREM Misread == Spec => []MisreadOnlyIfRenumbered
<1>1. IInv => MisreadOnlyIfRenumbered
  BY DEF IInv
<1> QED  BY <1>1, Invariance, PTL
=============================================================================
