-------------------------- MODULE Monitoring_proofs --------------------------
(***************************************************************************)
(* Proofs about Monitoring for any ids, URLs and committed targets, with   *)
(* failing writes, crashes and restarts: list() holds no id twice, no page *)
(* is added twice, and an acknowledged site is not lost.                   *)
(***************************************************************************)
EXTENDS Monitoring, TLAPS

Building(url) == [url |-> url, status |-> "building"]

\* A build in flight has its entry, under an id nothing else holds.
BuildsArePending ==
    \A id \in builds : /\ ~Seeded(id)
                       /\ mem.added[id] = NoUrl
                       /\ \E url \in Urls : mem.pending[id] = Building(url)

\* A dead process builds nothing.
DeadIsIdle == ~up => builds = {}

\* What is stored was submitted as a public page, so that a start can read the file.
Public(store, id) ==
    /\ store.added[id] # NoUrl => requirePublicHttpUrl(store.added[id])
    /\ store.pending[id] # NoPending => requirePublicHttpUrl(store.pending[id].url)

SitesArePublic == \A id \in Ids : Public(mem, id) /\ Public(file, id)

IInv == /\ TypeOK
        /\ DeadIsIdle
        /\ ListedIdsAreUnique
        /\ BuildsArePending
        /\ PagesAreDistinct
        /\ SitesArePublic
        /\ AcknowledgedIsDurable
-----------------------------------------------------------------------------
(* The operations of the registry. *)

\* Registering an entry.
LEMMA Adding ==
    ASSUME NEW store \in Store, NEW id \in Ids, NEW url \in Urls
    PROVE  /\ addPending(store, id, url) \in Store
           /\ addPending(store, id, url).added = store.added
           /\ addPending(store, id, url).pending[id] = Building(url)
           /\ \A other \in Ids \ {id} :
                addPending(store, id, url).pending[other] = store.pending[other]
BY DEF Store, Seeds, PendingTarget, PendingStatus, addPending, Building

\* Promoting an entry.
LEMMA Resolving ==
    ASSUME NEW store \in Store, NEW id \in Ids, store.pending[id] # NoPending
    PROVE  /\ resolvePending(store, id) \in Store
           /\ resolvePending(store, id).added[id] = store.pending[id].url
           /\ resolvePending(store, id).pending[id] = NoPending
           /\ \A other \in Ids \ {id} :
                /\ resolvePending(store, id).added[other] = store.added[other]
                /\ resolvePending(store, id).pending[other] = store.pending[other]
BY DEF Store, Seeds, PendingTarget, resolvePending

\* Marking an entry as failed.
LEMMA Failing ==
    ASSUME NEW store \in Store, NEW id \in Ids
    PROVE  /\ failPending(store, id) \in Store
           /\ failPending(store, id).added = store.added
           /\ store.pending[id] = NoPending => failPending(store, id) = store
           /\ store.pending[id] # NoPending =>
                failPending(store, id).pending[id]
                    = [url |-> store.pending[id].url, status |-> "failed"]
           /\ \A other \in Ids \ {id} :
                failPending(store, id).pending[other] = store.pending[other]
BY DEF Store, Seeds, PendingTarget, PendingStatus, failPending

\* Reading the file.
LEMMA Reading ==
    ASSUME NEW store \in Store, NEW found \in Seeds
    PROVE  /\ Read(store, found) \in Store
           /\ Read(store, found).pending = store.pending
           /\ \A id \in Ids : Read(store, found).added[id] =
                                IF found[id] = NoUrl /\ parseTargetsFile(store.added)
                                THEN store.added[id] ELSE NoUrl
BY DEF Store, Seeds, Read

\* A page that may be submitted may be read back.
LEMMA PublicIsValid ==
    ASSUME NEW url, requirePublicHttpUrl(url)
    PROVE  validate(url)
BY DEF requirePublicHttpUrl, validate

\* An empty store.
LEMMA EmptyIsStore == EmptyStore \in Store /\ \A id \in Ids : Monitored(EmptyStore, id) = {}
BY PendingAssumption DEF EmptyStore, Store, Seeds, Monitored, PendingTarget, PendingStatus

\* A store that monitors no more than another keeps its pages distinct.
LEMMA DistinctShrinks ==
    ASSUME NEW store, NEW smaller, Distinct(store),
           \A id \in Ids : Monitored(smaller, id) \subseteq Monitored(store, id)
    PROVE  Distinct(smaller)
BY DEF Distinct

\* A new page under a fresh id keeps the pages distinct.
LEMMA DistinctGrows ==
    ASSUME NEW store \in Store, NEW id \in Ids, NEW url \in Urls, Distinct(store),
           store.added[id] = NoUrl,
           \A other \in Ids : \A u \in Monitored(store, other) : ~SamePage(u, url)
    PROVE  Distinct(addPending(store, id, url))
<1> DEFINE grown == addPending(store, id, url)
<1>0. /\ grown.added = store.added
      /\ grown.pending[id] = Building(url)
      /\ \A other \in Ids \ {id} : grown.pending[other] = store.pending[other]
  BY Adding
<1> HIDE DEF grown
<1>1. \A other \in Ids \ {id} : Monitored(grown, other) = Monitored(store, other)
  BY <1>0 DEF Monitored
<1>2. Monitored(grown, id) \subseteq {url}
  BY <1>0 DEF Monitored, Building
<1>3. \A other \in Ids : \A u \in Monitored(store, other) : ~SamePage(url, u)
  BY DEF SamePage
<1>4. Distinct(grown)
  BY <1>1, <1>2, <1>3 DEF Distinct
<1> QED BY <1>4 DEF grown

\* Promoting a building entry changes no page.
LEMMA DistinctResolved ==
    ASSUME NEW store \in Store, NEW id \in Ids, NEW url \in Urls, Distinct(store),
           store.pending[id] = Building(url)
    PROVE  /\ store.pending[id] # NoPending
           /\ Distinct(resolvePending(store, id))
<1>1. store.pending[id] # NoPending
  BY PendingAssumption DEF Building, PendingTarget, PendingStatus
<1>2. \A other \in Ids \ {id} :
         Monitored(resolvePending(store, id), other) = Monitored(store, other)
  BY <1>1, Resolving DEF Monitored
<1>3. Monitored(resolvePending(store, id), id) \subseteq {url}
  BY <1>1, Resolving, PendingAssumption DEF Monitored, Building, PendingTarget, PendingStatus
<1>4. url \in Monitored(store, id)
  BY DEF Monitored, Building
<1>5. \A other \in Ids : Monitored(resolvePending(store, id), other) \subseteq Monitored(store, other)
  BY <1>2, <1>3, <1>4
<1> QED BY <1>1, <1>5, DistinctShrinks

\* Failing an entry only releases its page.
LEMMA DistinctFailed ==
    ASSUME NEW store \in Store, NEW id \in Ids, Distinct(store)
    PROVE  Distinct(failPending(store, id))
<1>1. CASE store.pending[id] = NoPending
  BY <1>1, Failing
<1>2. CASE store.pending[id] # NoPending
  <2> DEFINE failed == failPending(store, id)
  <2>1. /\ failed.added = store.added
        /\ failed.pending[id] = [url |-> store.pending[id].url, status |-> "failed"]
        /\ \A other \in Ids \ {id} : failed.pending[other] = store.pending[other]
    BY <1>2, Failing
  <2> HIDE DEF failed
  <2>2. \A other \in Ids \ {id} : Monitored(failed, other) = Monitored(store, other)
    BY <2>1 DEF Monitored
  <2>3. \A u \in Urls : failed.pending[id] # [url |-> u, status |-> "building"]
    BY <2>1
  <2>4. Monitored(failed, id) \subseteq Monitored(store, id)
    BY <2>1, <2>3 DEF Monitored
  <2>5. ASSUME NEW other \in Ids PROVE Monitored(failed, other) \subseteq Monitored(store, other)
    <3>1. CASE other = id BY <3>1, <2>4
    <3>2. CASE other # id BY <3>2, <2>2
    <3> QED BY <3>1, <3>2
  <2>6. Distinct(failed)
    BY <2>5, DistinctShrinks
  <2> QED BY <2>6 DEF failed
<1> QED BY <1>1, <1>2

\* Reading the file drops pages and adds none.
LEMMA DistinctRead ==
    ASSUME NEW store \in Store, NEW found \in Seeds, Distinct(store)
    PROVE  Distinct(Read(store, found))
<1>1. \A id \in Ids : Monitored(Read(store, found), id) \subseteq Monitored(store, id)
  BY Reading DEF Monitored
<1> QED BY <1>1, DistinctShrinks
-----------------------------------------------------------------------------
(* Keeping what was acknowledged. *)

\* An entry under a free id takes nothing away.
LEMMA KeptByAdding ==
    ASSUME NEW store \in Store, NEW id \in Ids, NEW url \in Urls,
           NEW site \in [id : Ids, url : Urls], Kept(store, site),
           store.added[id] = NoUrl, store.pending[id] = NoPending
    PROVE  Kept(addPending(store, id, url), site)
<1>1. site.id \in Ids /\ site.url \in Urls
  OBVIOUS
<1>2. \A status \in PendingStatus : [url |-> site.url, status |-> status] # NoPending
  BY <1>1, PendingAssumption DEF PendingTarget
<1>3. site.id # id
  BY <1>1, <1>2, SitesAssumption DEF Kept
<1>4. /\ addPending(store, id, url).added[site.id] = store.added[site.id]
      /\ addPending(store, id, url).pending[site.id] = store.pending[site.id]
  BY <1>1, <1>3, Adding
<1> QED BY <1>4 DEF Kept

\* A promoted site is kept as a target.
LEMMA KeptByResolving ==
    ASSUME NEW store \in Store, NEW id \in Ids, NEW url \in Urls,
           NEW site \in [id : Ids, url : Urls], Kept(store, site),
           store.added[id] = NoUrl, store.pending[id] = Building(url)
    PROVE  Kept(resolvePending(store, id), site)
<1>1. site.id \in Ids /\ site.url \in Urls
  OBVIOUS
<1>2. store.pending[id] # NoPending
  BY PendingAssumption DEF Building, PendingTarget, PendingStatus
<1>3. CASE site.id = id
  <2>0. PICK status \in PendingStatus :
           store.pending[id] = [url |-> site.url, status |-> status]
    BY <1>1, <1>3, SitesAssumption DEF Kept
  <2>1. site.url = url
    BY <2>0 DEF Building
  <2> QED BY <1>2, <1>3, <2>1, Resolving DEF Kept, Building
<1>4. CASE site.id # id
  BY <1>1, <1>2, <1>4, Resolving DEF Kept
<1> QED BY <1>3, <1>4

\* A failed site is kept as failed.
LEMMA KeptByFailing ==
    ASSUME NEW store \in Store, NEW id \in Ids,
           NEW site \in [id : Ids, url : Urls], Kept(store, site)
    PROVE  Kept(failPending(store, id), site)
<1>1. site.id \in Ids
  OBVIOUS
<1>2. CASE store.pending[id] = NoPending
  BY <1>2, Failing
<1>3. CASE store.pending[id] # NoPending
  <2>1. /\ failPending(store, id).added[site.id] = store.added[site.id]
        /\ site.id # id => failPending(store, id).pending[site.id] = store.pending[site.id]
        /\ failPending(store, id).pending[id]
             = [url |-> store.pending[id].url, status |-> "failed"]
    BY <1>1, <1>3, Failing
  <2>2. CASE store.added[site.id] = site.url
    BY <2>1, <2>2 DEF Kept
  <2>3. CASE store.added[site.id] # site.url
    <3>1. PICK status \in PendingStatus :
             store.pending[site.id] = [url |-> site.url, status |-> status]
      BY <2>3 DEF Kept
    <3>2. CASE site.id = id
      <4>1. store.pending[id].url = site.url
        BY <3>1, <3>2
      <4>2. failPending(store, id).pending[site.id] = [url |-> site.url, status |-> "failed"]
        BY <2>1, <3>2, <4>1
      <4> QED BY <4>2 DEF Kept, PendingStatus
    <3>3. CASE site.id # id
      <4>1. failPending(store, id).pending[site.id] = [url |-> site.url, status |-> status]
        BY <2>1, <3>1, <3>3
      <4> QED BY <4>1 DEF Kept
    <3> QED BY <3>2, <3>3
  <2> QED BY <2>2, <2>3
<1> QED BY <1>2, <1>3

\* A start keeps every site whose id is not committed by now.
LEMMA KeptByReading ==
    ASSUME NEW store \in Store, NEW found \in Seeds, \A id \in Ids : Public(store, id),
           NEW site \in [id : Ids, url : Urls], Kept(store, site), found[site.id] = NoUrl
    PROVE  Kept(Read(store, found), site)
<1>1. parseTargetsFile(store.added)
  BY PublicIsValid DEF parseTargetsFile, Public
<1> QED BY <1>1, Reading DEF Kept
-----------------------------------------------------------------------------
(* The inductive invariant. *)

LEMMA InitEstablishes == Init => IInv
<1> SUFFICES ASSUME Init PROVE IInv
  OBVIOUS
<1>1. TypeOK
  BY EmptyIsStore, SitesAssumption DEF Init, TypeOK
<1>2. Distinct(EmptyStore)
  BY EmptyIsStore DEF Distinct
<1>3. ListedIdsAreUnique
  BY DEF Init, ListedIdsAreUnique, EmptyStore
<1>4. DeadIsIdle /\ BuildsArePending /\ AcknowledgedIsDurable
  BY DEF Init, DeadIsIdle, BuildsArePending, AcknowledgedIsDurable
<1>5. SitesArePublic
  BY DEF Init, SitesArePublic, Public, EmptyStore
<1> QED BY <1>1, <1>2, <1>3, <1>4, <1>5 DEF IInv, Init, PagesAreDistinct

\* A new site: its id is free and its page is not monitored.
LEMMA AddTargetKeeps ==
    ASSUME IInv, NEW url \in Urls, AddTarget(url)
    PROVE  IInv'
<1> USE DEF IInv
<1>1. PICK id \in Ids :
        /\ validateSite(id, url)
        /\ mem' = addPending(mem, id, url)
        /\ \/ /\ file' = mem'
              /\ builds' = builds \cup {id}
              /\ accepted' = accepted \cup {[id |-> id, url |-> url]}
           \/ UNCHANGED <<file, builds, accepted>>
  BY DEF AddTarget
<1>2. mem \in Store /\ file \in Store
  BY DEF TypeOK
<1>3. up /\ UNCHANGED <<up, crashes, seeds, active, ticking, awaited>>
  BY DEF AddTarget
<1>4. ~Seeded(id) /\ mem.added[id] = NoUrl /\ mem.pending[id] = NoPending
  BY <1>1 DEF validateSite, IsDerived, isTaken, Listed
<1>5. \A other \in Ids : \A u \in Monitored(mem, other) : ~SamePage(u, url)
  BY DEF AddTarget, hasUrl
<1>6. mem' \in Store
  BY <1>1, <1>2, Adding
<1>7. TypeOK'
  BY <1>1, <1>3, <1>6 DEF TypeOK
<1>8. DeadIsIdle'
  BY <1>3 DEF DeadIsIdle
<1>9. ListedIdsAreUnique'
  BY <1>1, <1>2, <1>3, Adding DEF ListedIdsAreUnique, Seeded
<1>10. BuildsArePending'
  <2> SUFFICES ASSUME NEW other \in builds'
               PROVE  /\ ~Seeded(other)'
                      /\ mem'.added[other] = NoUrl
                      /\ \E u \in Urls : mem'.pending[other] = Building(u)
    BY DEF BuildsArePending
  <2>1. mem'.added = mem.added /\ mem'.pending[id] = Building(url)
    BY <1>1, <1>2, Adding
  <2>2. other = id \/ other \in builds
    BY <1>1
  <2>3. CASE other = id
    BY <1>3, <1>4, <2>1, <2>3 DEF Seeded
  <2>4. CASE other # id
    <3>1. other \in builds /\ other \in Ids \ {id}
      BY <2>2, <2>4 DEF TypeOK
    <3>2. mem'.pending[other] = mem.pending[other]
      BY <1>1, <1>2, <3>1, Adding
    <3> QED BY <1>3, <2>1, <3>1, <3>2 DEF BuildsArePending, Seeded
  <2> QED BY <2>3, <2>4
<1>11. Distinct(mem)'
  <2>1. Distinct(addPending(mem, id, url))
    BY <1>2, <1>4, <1>5, DistinctGrows DEF PagesAreDistinct
  <2> QED BY <1>1, <2>1 DEF Distinct, Monitored
<1>12. Distinct(file)'
  <2>1. file' = mem' \/ file' = file
    BY <1>1
  <2>2. CASE file' = mem'
    BY <1>11, <2>2 DEF Distinct, Monitored
  <2>3. CASE file' = file
    BY <2>3 DEF PagesAreDistinct, Distinct, Monitored
  <2> QED BY <2>1, <2>2, <2>3
<1>13. ASSUME NEW site \in accepted PROVE Kept(mem, site)'
  <2>1. site \in [id : Ids, url : Urls] /\ Kept(mem, site)
    BY <1>3 DEF TypeOK, AcknowledgedIsDurable
  <2>2. Kept(addPending(mem, id, url), site)
    BY <1>2, <1>4, <2>1, KeptByAdding
  <2> QED BY <1>1, <2>2 DEF Kept
<1>14. Kept(mem, [id |-> id, url |-> url])'
  <2>1. mem'.pending[id] = Building(url)
    BY <1>1, <1>2, Adding
  <2> QED BY <2>1 DEF Kept, Building, PendingStatus
<1>15. SitesArePublic'
  <2>1. mem'.added = mem.added /\ mem'.pending[id] = Building(url) /\ requirePublicHttpUrl(url)
    BY <1>1, <1>2, Adding DEF validateSite
  <2>2. \A other \in Ids \ {id} : mem'.pending[other] = mem.pending[other]
    BY <1>1, <1>2, Adding
  <2>3. \A other \in Ids : Public(mem, other)'
    BY <2>1, <2>2 DEF SitesArePublic, Public, Building
  <2> QED BY <1>1, <2>3 DEF SitesArePublic, Public
<1>16. AcknowledgedIsDurable'
  BY <1>1, <1>13, <1>14 DEF AcknowledgedIsDurable, Kept
<1> QED BY <1>7, <1>8, <1>9, <1>10, <1>11, <1>12, <1>15, <1>16 DEF PagesAreDistinct

\* A build that ends and is saved, whatever became of the site: the shared part of the cases.
LEMMA SavedBuildKeeps ==
    ASSUME IInv, NEW id \in Ids, NEW store \in Store,
           EndBuild(id), mem' = store, file' = store, active' \subseteq Ids,
           UNCHANGED <<up, crashes, seeds, ticking, awaited, accepted>>,
           \A other \in Ids \ {id} : /\ store.added[other] = mem.added[other]
                                     /\ store.pending[other] = mem.pending[other],
           Distinct(store), Public(store, id),
           \A site \in accepted : Kept(store, site)
    PROVE  IInv'
<1> USE DEF IInv
<1>1. id \in builds /\ builds' = builds \ {id}
  BY DEF EndBuild
<1>2. TypeOK'
  BY <1>1 DEF TypeOK
<1>3. DeadIsIdle'
  BY <1>1 DEF DeadIsIdle
<1>4. ListedIdsAreUnique'
  BY <1>1 DEF ListedIdsAreUnique, BuildsArePending, Seeded
<1>5. BuildsArePending'
  BY <1>1 DEF BuildsArePending, Seeded, TypeOK
<1>6. PagesAreDistinct'
  <2> HIDE DEF IInv
  <2>1. Distinct(mem)'
    BY DEF Distinct, Monitored
  <2>2. Distinct(file)'
    BY DEF Distinct, Monitored
  <2> QED BY <2>1, <2>2 DEF PagesAreDistinct
<1>7. SitesArePublic'
  BY DEF SitesArePublic, Public
<1>8. AcknowledgedIsDurable'
  BY DEF AcknowledgedIsDurable, Kept
<1> QED BY <1>2, <1>3, <1>4, <1>5, <1>6, <1>7, <1>8

\* What a build in flight gives: its entry, a live process, and what memory keeps.
LEMMA BuildInFlight ==
    ASSUME IInv, NEW id \in builds
    PROVE  /\ id \in Ids
           /\ mem \in Store
           /\ Distinct(mem)
           /\ mem.added[id] = NoUrl
           /\ mem.pending[id] # NoPending
           /\ \E url \in Urls : mem.pending[id] = Building(url)
           /\ requirePublicHttpUrl(mem.pending[id].url)
           /\ \A site \in accepted : site \in [id : Ids, url : Urls] /\ Kept(mem, site)
<1>1. \E url \in Urls : mem.pending[id] = Building(url)
  BY DEF IInv, BuildsArePending
<1>2. mem.pending[id] # NoPending
  BY <1>1, PendingAssumption DEF Building, PendingTarget, PendingStatus
<1> QED
  BY <1>1, <1>2
  DEF IInv, TypeOK, DeadIsIdle, BuildsArePending, PagesAreDistinct, SitesArePublic, Public,
      AcknowledgedIsDurable

\* The site is promoted.
LEMMA ResolvedBuildKeeps ==
    ASSUME IInv, NEW id \in Ids, EndBuild(id),
           mem' = resolvePending(mem, id), file' = mem', active' \subseteq Ids,
           UNCHANGED <<up, crashes, seeds, ticking, awaited, accepted>>
    PROVE  IInv'
<1>1. id \in builds
  BY DEF EndBuild
<1>2. PICK url \in Urls : mem.pending[id] = Building(url)
  BY <1>1, BuildInFlight
<1>3. Distinct(resolvePending(mem, id))
  BY <1>1, <1>2, BuildInFlight, DistinctResolved
<1>4. \A site \in accepted : Kept(resolvePending(mem, id), site)
  BY <1>1, <1>2, BuildInFlight, KeptByResolving
<1>5. /\ resolvePending(mem, id) \in Store
      /\ \A other \in Ids \ {id} :
           /\ resolvePending(mem, id).added[other] = mem.added[other]
           /\ resolvePending(mem, id).pending[other] = mem.pending[other]
  BY <1>1, BuildInFlight, Resolving
<1>6. Public(resolvePending(mem, id), id)
  BY <1>1, BuildInFlight, Resolving DEF Public
<1> QED BY <1>3, <1>4, <1>5, <1>6, SavedBuildKeeps

LEMMA BuildSucceedsKeeps ==
    ASSUME IInv, NEW id \in Ids, BuildSucceeds(id)
    PROVE  IInv'
<1>1. active' \subseteq Ids
  BY DEF BuildSucceeds, IInv, TypeOK
<1> QED BY <1>1, ResolvedBuildKeeps DEF BuildSucceeds

\* The second save of an unsaved promotion finds no entry to mark.
LEMMA BuildUnsavedKeeps ==
    ASSUME IInv, NEW id \in Ids, BuildUnsaved(id)
    PROVE  IInv'
<1>1. resolvePending(mem, id) \in Store /\ resolvePending(mem, id).pending[id] = NoPending
  BY Resolving DEF BuildUnsaved, IInv, TypeOK
<1>2. mem' = resolvePending(mem, id)
  BY <1>1, Failing DEF BuildUnsaved
<1>3. active' \subseteq Ids
  BY DEF BuildUnsaved, IInv, TypeOK
<1> QED BY <1>2, <1>3, ResolvedBuildKeeps DEF BuildUnsaved

LEMMA BuildFailsKeeps ==
    ASSUME IInv, NEW id \in Ids, BuildFails(id)
    PROVE  IInv'
<1>1. id \in builds
  BY DEF BuildFails, EndBuild
<1>2. Distinct(failPending(mem, id))
  BY <1>1, BuildInFlight, DistinctFailed
<1>3. \A site \in accepted : Kept(failPending(mem, id), site)
  BY <1>1, BuildInFlight, KeptByFailing
<1>4. /\ failPending(mem, id) \in Store
      /\ \A other \in Ids \ {id} :
           /\ failPending(mem, id).added[other] = mem.added[other]
           /\ failPending(mem, id).pending[other] = mem.pending[other]
  BY <1>1, BuildInFlight, Failing
<1>5. active' \subseteq Ids
  BY DEF BuildFails, IInv, TypeOK
<1>6. Public(failPending(mem, id), id)
  <2>1. /\ mem \in Store /\ mem.pending[id] # NoPending /\ mem.added[id] = NoUrl
        /\ requirePublicHttpUrl(mem.pending[id].url)
    BY <1>1, BuildInFlight
  <2>2. /\ failPending(mem, id).added = mem.added
        /\ failPending(mem, id).pending[id] = [url |-> mem.pending[id].url, status |-> "failed"]
    BY <2>1, Failing
  <2>3. failPending(mem, id).pending[id].url = mem.pending[id].url
    BY <2>2
  <2> QED BY <2>1, <2>2, <2>3 DEF Public
<1> QED BY <1>2, <1>3, <1>4, <1>5, <1>6, SavedBuildKeeps DEF BuildFails

\* Death leaves the file alone.
LEMMA DieKeeps ==
    ASSUME IInv, Die, crashes' \in Nat
    PROVE  IInv'
<1> USE DEF IInv, Die
<1>1. TypeOK'
  BY EmptyIsStore DEF TypeOK
<1>2. ListedIdsAreUnique'
  BY DEF ListedIdsAreUnique, EmptyStore
<1>3. Distinct(mem)'
  <2>1. Distinct(EmptyStore)
    BY EmptyIsStore DEF Distinct
  <2> QED BY <2>1 DEF Distinct, Monitored
<1>4. Distinct(file)'
  BY DEF PagesAreDistinct, Distinct, Monitored
<1>5. DeadIsIdle' /\ BuildsArePending' /\ SitesArePublic'
  BY DEF DeadIsIdle, BuildsArePending, SitesArePublic, Public, EmptyStore
<1>6. AcknowledgedIsDurable'
  BY DEF AcknowledgedIsDurable, Kept
<1> QED BY <1>1, <1>2, <1>3, <1>4, <1>5, <1>6 DEF PagesAreDistinct

\* A start brings back what the file holds and no committed id replaces.
LEMMA StartKeeps ==
    ASSUME IInv, Start
    PROVE  IInv'
<1> USE DEF IInv
<1>1. /\ seeds' \in Seeds /\ file \in Store /\ file' = file /\ builds' = builds /\ builds = {}
      /\ mem' = Read(file, seeds')
      /\ accepted' \subseteq accepted
      /\ \A site \in accepted' : seeds'[site.id] = NoUrl
  BY SitesAssumption DEF Start, TypeOK, DeadIsIdle
<1>2. TypeOK'
  BY <1>1, Reading DEF Start, TypeOK
<1>3. ListedIdsAreUnique'
  BY <1>1, Reading DEF ListedIdsAreUnique, Seeded
<1>4. DeadIsIdle' /\ BuildsArePending'
  BY <1>1 DEF DeadIsIdle, BuildsArePending
<1>5. Distinct(mem)'
  <2>1. Distinct(Read(file, seeds'))
    BY <1>1, DistinctRead DEF PagesAreDistinct
  <2> QED BY <1>1, <2>1 DEF Distinct, Monitored
<1>6. Distinct(file)'
  BY <1>1 DEF PagesAreDistinct, Distinct, Monitored
<1>7. ASSUME NEW site \in accepted' PROVE Kept(mem, site)'
  <2>1. site \in [id : Ids, url : Urls] /\ Kept(file, site) /\ seeds'[site.id] = NoUrl
    BY <1>1 DEF TypeOK, AcknowledgedIsDurable
  <2>2. Kept(Read(file, seeds'), site)
    BY <1>1, <2>1, KeptByReading DEF SitesArePublic
  <2> QED BY <1>1, <2>2 DEF Kept
<1>8. AcknowledgedIsDurable'
  BY <1>1, <1>7 DEF AcknowledgedIsDurable, Kept
<1>9. SitesArePublic'
  BY <1>1, Reading DEF SitesArePublic, Public
<1> QED BY <1>2, <1>3, <1>4, <1>5, <1>6, <1>8, <1>9 DEF PagesAreDistinct

\* Runs and ticks touch no site.
LEMMA CollectingKeeps ==
    ASSUME IInv, UNCHANGED <<up, crashes, seeds, mem, file, builds, accepted>>,
           active' \subseteq Ids, awaited' \subseteq Ids, ticking' \in BOOLEAN
    PROVE  IInv'
<1> USE DEF IInv
<1>1. TypeOK'
  BY DEF TypeOK
<1>2. DeadIsIdle' /\ ListedIdsAreUnique' /\ BuildsArePending'
  BY DEF DeadIsIdle, ListedIdsAreUnique, BuildsArePending, Seeded
<1>3. PagesAreDistinct'
  <2>1. Distinct(mem)'
    BY DEF PagesAreDistinct, Distinct, Monitored
  <2>2. Distinct(file)'
    BY DEF PagesAreDistinct, Distinct, Monitored
  <2> QED BY <2>1, <2>2 DEF PagesAreDistinct
<1>4. SitesArePublic'
  BY DEF SitesArePublic, Public
<1>5. AcknowledgedIsDurable'
  BY DEF AcknowledgedIsDurable, Kept
<1> QED BY <1>1, <1>2, <1>3, <1>4, <1>5

LEMMA NextKeeps == IInv /\ [Next]_vars => IInv'
<1> SUFFICES ASSUME IInv, [Next]_vars PROVE IInv'
  OBVIOUS
<1>1. /\ active \subseteq Ids /\ awaited \subseteq Ids /\ ticking \in BOOLEAN /\ crashes \in Nat
      /\ Listed \subseteq Ids
  BY DEF IInv, TypeOK, Listed
<1>2. ASSUME NEW url \in Urls, AddTarget(url) PROVE IInv'
  BY <1>2, AddTargetKeeps
<1>3. ASSUME NEW id \in Ids, BuildEnds(id) PROVE IInv'
  <2>1. CASE BuildSucceeds(id)
    BY <2>1, BuildSucceedsKeeps
  <2>2. CASE BuildUnsaved(id)
    BY <2>2, BuildUnsavedKeeps
  <2>3. CASE BuildFails(id)
    BY <2>3, BuildFailsKeeps
  <2>4. CASE CompletionRejects(id)
    BY <1>1, <2>4, DieKeeps DEF CompletionRejects
  <2> QED BY <1>3, <2>1, <2>2, <2>3, <2>4 DEF BuildEnds
<1>4. ASSUME NEW id \in Ids, RunEnds(id) PROVE IInv'
  BY <1>1, <1>4, CollectingKeeps DEF RunEnds
<1>5. CASE RequestRun
  <2>1. active' \subseteq Ids
    BY <1>1, <1>5 DEF RequestRun
  <2> QED BY <1>1, <1>5, <2>1, CollectingKeeps DEF RequestRun
<1>6. CASE Tick
  BY <1>1, <1>6, CollectingKeeps DEF Tick
<1>7. CASE TickEnds
  BY <1>1, <1>7, CollectingKeeps DEF TickEnds
<1>8. CASE Crash
  BY <1>1, <1>8, DieKeeps DEF Crash
<1>9. CASE Start
  BY <1>9, StartKeeps
<1>10. CASE UNCHANGED vars
  BY <1>1, <1>10, CollectingKeeps DEF vars
<1> QED BY <1>2, <1>3, <1>4, <1>5, <1>6, <1>7, <1>8, <1>9, <1>10 DEF Next
-----------------------------------------------------------------------------
\* Every reachable state satisfies the inductive invariant.
THEOREM Inductive == Spec => []IInv
BY InitEstablishes, NextKeeps, PTL DEF Spec

\* Every variable keeps its type (TypeOK).
THEOREM MonitoringTypeCorrect == Spec => []TypeOK
<1>1. IInv => TypeOK
  BY DEF IInv
<1> QED BY <1>1, Inductive, PTL

\* list() never holds an id twice, whatever the committed targets change to between starts.
THEOREM ListedIdsAreUniqueAlways == Spec => []ListedIdsAreUnique
<1>1. IInv => ListedIdsAreUnique
  BY DEF IInv
<1> QED BY <1>1, Inductive, PTL

\* No page is added twice, in memory or in the file.
THEOREM PagesAreDistinctAlways == Spec => []PagesAreDistinct
<1>1. IInv => PagesAreDistinct
  BY DEF IInv
<1> QED BY <1>1, Inductive, PTL

\* A site answered with 202 stays in the file through failed builds, failed writes and crashes, and
\* is read back by every start.
THEOREM AcknowledgedIsDurableAlways == Spec => []AcknowledgedIsDurable
<1>1. IInv => AcknowledgedIsDurable
  BY DEF IInv
<1> QED BY <1>1, Inductive, PTL
=============================================================================
