----------------------- MODULE AggregatorSetup_proofs -----------------------
(***************************************************************************)
(* Proofs about AggregatorSetup, for any pmt.xml whose base directories    *)
(* hold one XML set each, any resources and any XML tree.                  *)
(***************************************************************************)
EXTENDS AggregatorSetup, TLAPS, WellFoundedInduction

\* What a cache keeps for a base directory is a file of its part, of a set with
\* that base directory.
CacheInv ==
  \A p \in PartSet, b \in Bases :
    cache[p][b] # None => cache[p][b].part = p /\ Basedir[cache[p][b].set] = b

\* A file is in its cache once it was read, as it was then.
ReadOnceInv ==
  \A s \in Sets, p \in PartSet :
    LET c == cache[p][Basedir[s]]
    IN  firstRead[<<s, p>>] = IF c = None THEN None ELSE c.version

\* The set-up under way has the set of its key, and the files it has so far are
\* of that set, as they were first read.
JobInv ==
  /\ job = None => step = 1
  /\ job # None => xmlSet = lookup[job.key]
  /\ \A i \in 1..3 :
       i < step => /\ setup[Parts[i]] \in Contents
                   /\ setup[Parts[i]].set = xmlSet
                   /\ setup[Parts[i]].part = Parts[i]
                   /\ setup[Parts[i]].version = firstRead[<<xmlSet, Parts[i]>>]

DecoderInv ==
  \A n \in Names : decoder[n] # None =>
    /\ decoder[n].key \in DOMAIN lookup
    /\ \A p \in PartSet :
         /\ decoder[n].files[p].set = lookup[decoder[n].key]
         /\ decoder[n].files[p].part = p

IInv ==
  /\ TypeOK
  /\ lookup = BuildLookupMap(Mappings)
  /\ CacheInv
  /\ ReadOnceInv
  /\ JobInv
  /\ DecoderInv

-----------------------------------------------------------------------------

\* A set of numbers that is not empty has a least one.
LEMMA LeastExists ==
  ASSUME NEW T \in SUBSET Nat, T # {}
  PROVE  \E x \in T : \A y \in T : x <= y
<1> DEFINE R == {r \in Nat \X Nat : r[1] < r[2]}
<1>1. IsWellFoundedOn(R, Nat)
  BY NatLessThanWellFounded DEF OpToRel
<1>2. PICK x \in T : \A y \in T : <<y, x>> \notin R
  <2>1. T \subseteq Nat /\ T # {}
    OBVIOUS
  <2> HIDE DEF R
  <2>2. \E x \in T : \A y \in T : ~ (<<y, x>> \in R)
    BY <1>1, <2>1, WFMin, ZenonT(30)
  <2> QED  BY <2>2
<1>3. ASSUME NEW y \in T PROVE x <= y
  <2>1. ~ (<<y, x>>[1] < <<y, x>>[2])
    BY <1>2
  <2> QED  BY <2>1
<1> QED  BY <1>3

\* The map built from pmt.xml names, for each of its keys, the set that is
\* listed first for the key (xml-parser.go:305-347).
LEMMA LookupIsFirst ==
  ASSUME NEW key \in DOMAIN BuildLookupMap(Mappings)
  PROVE  BuildLookupMap(Mappings)[key] = FirstListed(key)
<1> DEFINE good == {i \in 1..Len(Mappings) : Usable(Mappings[i])}
           First(i) == /\ i \in good /\ KeyOf(Mappings[i]) = key
                       /\ \A j \in good : KeyOf(Mappings[j]) = key => i <= j
           Lone(j) == /\ j \in 1..Len(Mappings)
                      /\ Usable(Mappings[j]) /\ KeyOf(Mappings[j]) = key
                      /\ \A k \in 1..(j - 1) :
                           Usable(Mappings[k]) => KeyOf(Mappings[k]) # key
<1>1. Len(Mappings) \in Nat
  BY ListedSetsExist
<1>2. ASSUME NEW i PROVE First(i) <=> Lone(i)
  BY <1>1
<1>3. (CHOOSE i : First(i)) = (CHOOSE j : Lone(j))
  <2> HIDE DEF First, Lone
  <2> QED  BY <1>2
<1>4. BuildLookupMap(Mappings)[key] = Mappings[CHOOSE i : First(i)].set
  BY DEF BuildLookupMap
<1>5. FirstListed(key) = Mappings[CHOOSE j : Lone(j)].set
  BY DEF FirstListed
<1> QED  BY <1>3, <1>4, <1>5

LEMMA PartsAreThree ==
  /\ Parts[1] = "common" /\ Parts[2] = "aggregator" /\ Parts[3] = "interface"
  /\ PartSet = {"common", "aggregator", "interface"}
  /\ \A i \in 1..3 : Parts[i] \in PartSet
<1>1. \A i : i \in 1..Len(Parts) <=> i = 1 \/ i = 2 \/ i = 3
  BY DEF Parts
<1> QED  BY <1>1 DEF Parts, PartSet

\* The values of the map are sets of pmt.xml.
LEMMA LookupType == \A k \in DOMAIN BuildLookupMap(Mappings) : BuildLookupMap(Mappings)[k] \in Sets
<1> SUFFICES ASSUME NEW k \in DOMAIN BuildLookupMap(Mappings)
             PROVE  BuildLookupMap(Mappings)[k] \in Sets
  OBVIOUS
<1> DEFINE good == {i \in 1..Len(Mappings) : Usable(Mappings[i])}
           Same == {i \in good : KeyOf(Mappings[i]) = k}
           First(i) == /\ i \in good /\ KeyOf(Mappings[i]) = k
                       /\ \A j \in good : KeyOf(Mappings[j]) = k => i <= j
<1>1. Len(Mappings) \in Nat
  BY ListedSetsExist
<1>2. Same \in SUBSET Nat /\ Same # {}
  BY <1>1 DEF BuildLookupMap
<1>3. PICK i : First(i)
  <2> HIDE DEF Same
  <2>1. PICK i \in Same : \A j \in Same : i <= j
    BY <1>2, LeastExists
  <2> QED  BY <2>1 DEF Same
<1>4. PICK c : First(c) /\ BuildLookupMap(Mappings)[k] = Mappings[c].set
  <2>1. BuildLookupMap(Mappings)[k] = Mappings[CHOOSE j : First(j)].set
    BY DEF BuildLookupMap
  <2> HIDE DEF First
  <2> QED  BY <1>3, <2>1
<1>5. Mappings[c] \in Listed
  BY <1>4 DEF Listed
<1> QED  BY <1>4, <1>5, ListedSetsExist

\* The invariant holds when the receiver starts (receiver.go:231-269).
LEMMA InitIInv == Init => IInv
<1> SUFFICES ASSUME Init PROVE IInv
  OBVIOUS
<1>1. TypeOK
  BY LookupType DEF Init, TypeOK, Empty
<1>2. CacheInv /\ JobInv /\ DecoderInv
  BY DEF Init, CacheInv, JobInv, DecoderInv
<1>3. ReadOnceInv
  BY DEF Init, ReadOnceInv, Bases
<1> QED  BY <1>1, <1>2, <1>3 DEF IInv, Init

\* A file taken for the part that is next, of the set in use, keeps the set-up
\* under way in order.
LEMMA TakeIInv ==
  ASSUME IInv, job # None, step <= 3,
         NEW content \in Contents, content.set = xmlSet, content.part = Parts[step],
         Take(content),
         firstRead' = [firstRead EXCEPT ![<<xmlSet, Parts[step]>>] = content.version]
  PROVE  JobInv' /\ setup' \in [PartSet -> Contents \cup {None}] /\ step' \in 1..4
<1> USE DEF IInv
<1>1. step \in 1..3 /\ step' = step + 1
  BY DEF TypeOK, Take
<1>2. \A i \in 1..3 : Parts[i] \in PartSet
  BY PartsAreThree
<1>3. \A i, j \in 1..3 : i # j => Parts[i] # Parts[j]
  BY PartsAreThree
<1>4. setup' = [setup EXCEPT ![Parts[step]] = content]
  BY DEF Take
<1>5. setup' \in [PartSet -> Contents \cup {None}]
  BY <1>1, <1>2, <1>4 DEF TypeOK
<1>8. xmlSet \in Sets /\ firstRead \in [Sets \X PartSet -> Versions \cup {None}]
  BY DEF TypeOK, JobInv
<1>6. ASSUME NEW i \in 1..3, i < step'
      PROVE  /\ setup'[Parts[i]] \in Contents
             /\ setup'[Parts[i]].set = xmlSet
             /\ setup'[Parts[i]].part = Parts[i]
             /\ setup'[Parts[i]].version = firstRead'[<<xmlSet, Parts[i]>>]
  <2>1. CASE i = step
    <3>1. setup'[Parts[i]] = content
      BY <2>1, <1>1, <1>2, <1>4 DEF TypeOK
    <3>2. firstRead'[<<xmlSet, Parts[i]>>] = content.version
      BY <2>1, <1>1, <1>2, <1>8
    <3> QED  BY <3>1, <3>2, <2>1
  <2>2. CASE i # step
    <3>1. i < step
      BY <2>2, <1>1, <1>6
    <3>2. setup'[Parts[i]] = setup[Parts[i]]
      BY <2>2, <1>1, <1>2, <1>3, <1>4 DEF TypeOK
    <3>3. firstRead'[<<xmlSet, Parts[i]>>] = firstRead[<<xmlSet, Parts[i]>>]
      BY <2>2, <1>1, <1>2, <1>3, <1>8
    <3> QED  BY <3>1, <3>2, <3>3 DEF JobInv
  <2> QED  BY <2>1, <2>2
<1>7. JobInv'
  BY <1>6 DEF JobInv, Take
<1> QED  BY <1>1, <1>5, <1>7

\* The end of a set-up: nothing is under way, and the resource has what it was
\* given.
LEMMA FinishIInv ==
  ASSUME IInv, NEW n \in Names, NEW how \in {"ok", "unknown", "failed"}, NEW with,
         Finish(n, how, with), UNCHANGED <<lookup, disk, cacheVars>>,
         with # None =>
           /\ with.key \in DOMAIN lookup
           /\ with.files \in [PartSet -> Contents]
           /\ \A p \in PartSet : with.files[p].set = lookup[with.key]
                                   /\ with.files[p].part = p
  PROVE  IInv'
<1> USE DEF IInv, cacheVars
<1>1. decoder' = [decoder EXCEPT ![n] = with] /\ DOMAIN decoder = Names
  BY DEF Finish, TypeOK
<1>2. TypeOK'
  BY <1>1 DEF Finish, TypeOK, Empty
<1>3. CacheInv' /\ ReadOnceInv' /\ JobInv'
  BY DEF Finish, CacheInv, ReadOnceInv, JobInv
<1>4. DecoderInv'
  BY <1>1 DEF DecoderInv
<1> QED  BY <1>2, <1>3, <1>4

\* Every step keeps the invariant.
LEMMA NextIInv == IInv /\ [Next]_vars => IInv'
<1> SUFFICES ASSUME IInv, [Next]_vars PROVE IInv'
  OBVIOUS
<1> USE DEF IInv
<1>1. ASSUME NEW s \in Sets, NEW p \in PartSet, NEW v \in Versions \cup {None},
             FileChanges(s, p, v)
      PROVE  IInv'
  BY <1>1 DEF FileChanges, cacheVars, TypeOK, CacheInv, ReadOnceInv, JobInv, DecoderInv
<1>2. ASSUME NEW n \in Names, NEW key \in Reports[n], LookUp(n, key) PROVE IInv'
  <2>1. lookup[key] \in Sets
    BY <1>2 DEF LookUp, TypeOK
  <2>2. TypeOK'
    BY <1>2, <2>1 DEF LookUp, cacheVars, TypeOK
  <2>3. JobInv'
    BY <1>2 DEF LookUp, JobInv
  <2>4. CacheInv' /\ ReadOnceInv' /\ DecoderInv'
    BY <1>2 DEF LookUp, cacheVars, CacheInv, ReadOnceInv, DecoderInv
  <2> QED  BY <1>2, <2>2, <2>3, <2>4 DEF LookUp
<1>3. ASSUME NEW n \in Names, NEW key \in Reports[n], LookUpFails(n, key) PROVE IInv'
  BY <1>3, FinishIInv DEF LookUpFails
<1>4. ASSUME job # None
      PROVE  /\ xmlSet \in Sets /\ Basedir[xmlSet] \in Bases
             /\ step <= 3 => step \in 1..3 /\ Parts[step] \in PartSet
  BY <1>4, PartsAreThree DEF TypeOK, JobInv, Bases
<1>5. CASE TakeCached
  <2> DEFINE content == Cached(Parts[step])
  <2>1. /\ content # None /\ Take(content) /\ job # None /\ step <= 3
        /\ cache' = cache /\ firstRead' = firstRead
    BY <1>5 DEF TakeCached, cacheVars
  <2>2. content \in Contents
    BY <2>1, <1>4 DEF Cached, TypeOK
  <2>3. content.part = Parts[step] /\ Basedir[content.set] = Basedir[xmlSet]
    BY <2>1, <1>4 DEF Cached, CacheInv
  <2>4. content.set = xmlSet
    BY <2>1, <2>2, <2>3, <1>4, OneSetPerBasedir DEF Contents
  <2>7. firstRead[<<xmlSet, Parts[step]>>] = content.version
    BY <2>1, <1>4 DEF Cached, ReadOnceInv
  <2> HIDE DEF content
  <2>8. firstRead' = [firstRead EXCEPT ![<<xmlSet, Parts[step]>>] = content.version]
    BY <2>1, <2>7 DEF TypeOK
  <2>5. JobInv' /\ setup' \in [PartSet -> Contents \cup {None}] /\ step' \in 1..4
    BY <2>1, <2>2, <2>3, <2>4, <2>8, TakeIInv
  <2>6. TypeOK' /\ CacheInv' /\ ReadOnceInv' /\ DecoderInv'
    BY <2>1, <2>5 DEF Take, TypeOK, CacheInv, ReadOnceInv, DecoderInv
  <2> QED  BY <2>1, <2>5, <2>6 DEF Take
<1>6. CASE LoadFile
  <2> DEFINE q == Parts[step]
             content == [set |-> xmlSet, part |-> q, version |-> disk[<<xmlSet, q>>]]
  <2>1. /\ disk[<<xmlSet, q>>] # None /\ Take(content) /\ job # None /\ step <= 3
        /\ cache[q][Basedir[xmlSet]] = None
        /\ cache' = [cache EXCEPT ![q][Basedir[xmlSet]] = content]
        /\ firstRead' = [firstRead EXCEPT ![<<xmlSet, q>>] =
                           IF @ = None THEN content.version ELSE @]
    BY <1>6 DEF LoadFile, OnDisk, Keeps, Reads, Cached
  <2>2. q \in PartSet /\ xmlSet \in Sets /\ Basedir[xmlSet] \in Bases
    BY <2>1, <1>4
  <2>3. <<xmlSet, q>> \in Sets \X PartSet
    BY <2>2
  <2>4. disk[<<xmlSet, q>>] \in Versions
    BY <2>1, <2>3 DEF TypeOK
  <2>5. content \in Contents /\ content.set = xmlSet /\ content.part = q
    BY <2>2, <2>4 DEF Contents
  <2> HIDE DEF content, q
  <2>11. firstRead' = [firstRead EXCEPT ![<<xmlSet, q>>] = content.version]
    <3>1. firstRead[<<xmlSet, q>>] = None
      BY <2>1, <2>2 DEF ReadOnceInv
    <3> QED  BY <3>1, <2>1
  <2>6. JobInv' /\ setup' \in [PartSet -> Contents \cup {None}] /\ step' \in 1..4
    BY <2>1, <2>5, <2>11, TakeIInv DEF q
  <2>12. content.version \in Versions
    BY <2>5 DEF Contents
  <2>7. cache' \in [PartSet -> [Bases -> Contents \cup {None}]]
    BY <2>1, <2>2, <2>5 DEF TypeOK
  <2>8. TypeOK'
    BY <2>1, <2>3, <2>6, <2>7, <2>11, <2>12 DEF Take, TypeOK
  <2>9. CacheInv'
    <3> SUFFICES ASSUME NEW p \in PartSet, NEW b \in Bases, cache'[p][b] # None
                 PROVE  cache'[p][b].part = p /\ Basedir[cache'[p][b].set] = b
      BY DEF CacheInv
    <3>1. CASE p = q /\ b = Basedir[xmlSet]
      BY <3>1, <2>1, <2>2, <2>5 DEF TypeOK
    <3>2. CASE ~(p = q /\ b = Basedir[xmlSet])
      <4>1. cache'[p][b] = cache[p][b]
        BY <3>2, <2>1, <2>2 DEF TypeOK
      <4> QED  BY <4>1 DEF CacheInv
    <3> QED  BY <3>1, <3>2
  <2>10. DecoderInv'
    BY <2>1 DEF Take, DecoderInv
  <2>13. ReadOnceInv'
    <3> SUFFICES ASSUME NEW s \in Sets, NEW p \in PartSet
                 PROVE  firstRead'[<<s, p>>] =
                          IF cache'[p][Basedir[s]] = None THEN None
                          ELSE cache'[p][Basedir[s]].version
      BY DEF ReadOnceInv
    <3>1. CASE p = q /\ s = xmlSet
      <4>1. cache'[q][Basedir[xmlSet]] = content
        BY <2>1, <2>2 DEF TypeOK
      <4>2. firstRead'[<<xmlSet, q>>] = content.version
        BY <2>3, <2>11 DEF TypeOK
      <4>3. content # None
        BY <2>5, FilesAssumption DEF Contents
      <4> QED  BY <3>1, <4>1, <4>2, <4>3
    <3>2. CASE ~(p = q /\ s = xmlSet)
      <4>1. ~(p = q /\ Basedir[s] = Basedir[xmlSet])
        BY <3>2, <2>2, OneSetPerBasedir
      <4>2. cache'[p][Basedir[s]] = cache[p][Basedir[s]]
        BY <4>1, <2>1, <2>2 DEF TypeOK, Bases
      <4>3. firstRead'[<<s, p>>] = firstRead[<<s, p>>]
        BY <3>2, <2>3, <2>11 DEF TypeOK
      <4> QED  BY <4>2, <4>3 DEF ReadOnceInv
    <3> QED  BY <3>1, <3>2
  <2> QED  BY <2>1, <2>6, <2>8, <2>9, <2>10, <2>13 DEF Take
<1>7. CASE LoadFails
  BY <1>7, FinishIInv DEF LoadFails, TypeOK
<1>8. CASE SetupReturns
  <2> DEFINE with == [key |-> job.key, files |-> setup]
  <2>1. job # None /\ step = 4 /\ Finish(job.name, "ok", with)
        /\ UNCHANGED <<lookup, disk, cacheVars>>
    BY <1>8 DEF SetupReturns
  <2>2. job.name \in Names /\ with.key \in DOMAIN lookup
    BY <2>1 DEF TypeOK
  <2>3. \A i \in 1..3 : /\ setup[Parts[i]] \in Contents
                        /\ setup[Parts[i]].set = lookup[with.key]
                        /\ setup[Parts[i]].part = Parts[i]
    BY <2>1 DEF JobInv
  <2>4. \A p \in PartSet : \E i \in 1..3 : p = Parts[i]
    BY PartsAreThree
  <2>5. /\ with.files \in [PartSet -> Contents]
        /\ \A p \in PartSet : with.files[p].set = lookup[with.key]
                                /\ with.files[p].part = p
    <3>1. with.files = setup /\ DOMAIN setup = PartSet
          /\ setup = [p \in PartSet |-> setup[p]]
      BY DEF TypeOK
    <3>2. \A p \in PartSet : /\ setup[p] \in Contents
                             /\ setup[p].set = lookup[with.key]
                             /\ setup[p].part = p
      <4> HIDE DEF with
      <4> QED  BY <2>3, <2>4
    <3> HIDE DEF with
    <3> QED  BY <3>1, <3>2
  <2> HIDE DEF with
  <2> QED  BY <2>1, <2>2, <2>5, FinishIInv
<1>9. CASE UNCHANGED vars
  BY <1>9 DEF vars, cacheVars, TypeOK, CacheInv, ReadOnceInv, JobInv, DecoderInv
<1> QED
  BY <1>1, <1>2, <1>3, <1>5, <1>6, <1>7, <1>8, <1>9 DEF Next, Scrape, Load

-----------------------------------------------------------------------------

\* Type correctness of the caches, the map and the set-ups (receiver.go:271-315).
THEOREM TypeCorrect == Spec => []TypeOK
<1>1. IInv => TypeOK
  BY DEF IInv
<1> QED  BY InitIInv, NextIInv, <1>1, PTL DEF Spec

\* Every resource is decoded with the three files of the set that pmt.xml lists
\* first for its key, however many resources share the caches and whatever
\* happens to the files.
THEOREM DecodedRight == Spec => []DecodedWithOwnFiles
<1>1. IInv => DecodedWithOwnFiles
  <2> SUFFICES ASSUME IInv, NEW n \in Names, decoder[n] # None, NEW p \in PartSet
               PROVE  /\ decoder[n].files[p].set = FirstListed(decoder[n].key)
                      /\ decoder[n].files[p].part = p
    BY DEF DecodedWithOwnFiles
  <2>1. decoder[n].key \in DOMAIN lookup
    BY DEF IInv, DecoderInv
  <2>2. lookup[decoder[n].key] = FirstListed(decoder[n].key)
    BY <2>1, LookupIsFirst DEF IInv
  <2> QED  BY <2>2 DEF IInv, DecoderInv
<1> QED  BY InitIInv, NextIInv, <1>1, PTL DEF Spec

\* A set-up ends with what was read of its three files first, or it fails because
\* one of them was never read: the caches lose and replace nothing, whichever
\* resources and scrapes filled them and whatever happened to the files since.
THEOREM FirstReadsCount == Spec => FirstReadCounts
<1> DEFINE A ==
      job # None /\ job' = None =>
        LET set == FirstListed(job.key)
        IN  \/ /\ outcome'[job.name] = "failed"
               /\ \E p \in PartSet : firstRead[<<set, p>>] = None
            \/ /\ outcome'[job.name] = "ok"
               /\ \A p \in PartSet :
                    decoder'[job.name].files[p].version = firstRead[<<set, p>>]
<1>1. IInv /\ [Next]_vars => [A]_vars
  <2> SUFFICES ASSUME IInv, Next, job # None, job' = None PROVE A
    OBVIOUS
  <2>1. /\ job.name \in Names /\ xmlSet \in Sets /\ xmlSet = FirstListed(job.key)
        /\ DOMAIN outcome = Names /\ DOMAIN decoder = Names
    BY LookupIsFirst DEF IInv, TypeOK, JobInv
  <2>2. CASE LoadFails
    <3>1. outcome'[job.name] = "failed"
      BY <2>1, <2>2 DEF LoadFails, Finish
    <3>2. Parts[step] \in PartSet /\ cache[Parts[step]][Basedir[xmlSet]] = None
      BY <2>2, PartsAreThree DEF LoadFails, IInv, TypeOK, Cached
    <3>3. firstRead[<<xmlSet, Parts[step]>>] = None
      BY <2>1, <3>2 DEF IInv, ReadOnceInv
    <3> QED  BY <2>1, <3>1, <3>2, <3>3
  <2>3. CASE SetupReturns
    <3>1. outcome'[job.name] = "ok" /\ decoder'[job.name].files = setup
      BY <2>1, <2>3 DEF SetupReturns, Finish
    <3>2. step = 4
      BY <2>3 DEF SetupReturns
    <3>3. \A i \in 1..3 : setup[Parts[i]].version = firstRead[<<xmlSet, Parts[i]>>]
      BY <3>2 DEF IInv, JobInv
    <3>4. \A p \in PartSet : \E i \in 1..3 : p = Parts[i]
      BY PartsAreThree
    <3> QED  BY <2>1, <3>1, <3>3, <3>4
  <2> QED  BY <2>2, <2>3
           DEF Next, Scrape, Load, FileChanges, LookUp, LookUpFails, TakeCached,
               LoadFile, Take
<1> HIDE DEF A
<1>2. Spec => [][A]_vars
  BY InitIInv, NextIInv, <1>1, PTL DEF Spec
<1> QED  BY <1>2 DEF A, FirstReadCounts
=============================================================================
