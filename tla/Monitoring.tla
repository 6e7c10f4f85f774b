------------------------------ MODULE Monitoring ------------------------------
(***************************************************************************)
(* The set of monitored sites and who collects them when: the registry of  *)
(* committed and added targets and its file                                *)
(* (infrastructure/persistence/target-store.ts), the request that adds a   *)
(* site and the build that runs on behind it (application/add-target), the *)
(* server's guarded runs (presentation/api/server.ts) and the scheduler    *)
(* that starts them unattended (application/schedule).                     *)
(*                                                                         *)
(* What a run does is CollectionPipeline's; here it begins and ends.  A    *)
(* request is answered within one callback, and so is the end of a build.  *)
(* Bright Data takes any time over a build and may refuse it.              *)
(***************************************************************************)
EXTENDS Naturals, Sequences

CONSTANTS
    Ids, Urls, NoUrl, NoPending,
    ShapeOf,        \* what the validators tell apart in a URL
    PageOf,         \* a URL without trailing slashes and case: what hasUrl compares
    CandidateIds,   \* the ids deriveTargetId tries for a URL, in order
    SeedFiles,      \* the committed targets a start may find
    MaxCrashes,     \* bound on the deaths from outside
    WritesMayFail   \* writing the registry's file may throw

Seeds == [Ids -> Urls \cup {NoUrl}]

\* The host of a URL: a public name, localhost, another private or reserved address, or a name
\* without a dot.
Shape == [scheme : {"https", "http", "other"}, credentials : BOOLEAN,
          host : {"public", "localhost", "private", "bare"}]

\* Mutant: the scheme is left to the reader.
requirePublicHttp(url) ==
    ShapeOf[url] \in [scheme : {"https", "http"}, credentials : {FALSE}, host : {"public"}]

\* The URLs a submission may name.
requirePublicHttpUrl(url) ==
    ShapeOf[url] = [scheme |-> "https", credentials |-> FALSE, host |-> "public"]

\* The URLs a target file may name.
validate(url) == ShapeOf[url].scheme = "https" \/ ShapeOf[url].host = "localhost"

\* One target that is not valid makes the whole file unreadable.
parseTargetsFile(targets) == \A id \in Ids : targets[id] # NoUrl => validate(targets[id])

ASSUME SitesAssumption ==
    /\ NoUrl \notin Urls
    /\ ShapeOf \in [Urls -> Shape]
    /\ PageOf \in [Urls -> Urls]
    /\ CandidateIds \in [Urls -> Seq(Ids)]
    /\ SeedFiles \subseteq Seeds
    /\ SeedFiles # {}
    /\ \A found \in SeedFiles : parseTargetsFile(found)   \* or the process does not start

PendingStatus == {"building", "failed"}
PendingTarget == [url : Urls, status : PendingStatus]

ASSUME PendingAssumption == NoPending \notin PendingTarget
ASSUME FaultsAssumption == MaxCrashes \in Nat /\ WritesMayFail \in BOOLEAN

VARIABLES
    up,        \* the process runs
    crashes,
    seeds,     \* the committed targets of this start
    mem, file, \* the added and pending sites in memory, and the file they are reloaded from
    builds,    \* ids whose collector is being built by this process
    active,    \* ids with a run in flight
    ticking,   \* the scheduler's running flag
    awaited,   \* the runs its tick started and waits for
    accepted   \* history: the sites answered with 202, but for those a later seed replaced

vars == <<up, crashes, seeds, mem, file, builds, active, ticking, awaited, accepted>>

Store == [added : Seeds, pending : [Ids -> PendingTarget \cup {NoPending}]]

EmptyStore == [added |-> [id \in Ids |-> NoUrl], pending |-> [id \in Ids |-> NoPending]]

Init == /\ up = TRUE
        /\ crashes = 0
        /\ seeds \in SeedFiles
        /\ mem = EmptyStore
        /\ file = EmptyStore
        /\ builds = {}
        /\ active = {}
        /\ ticking = FALSE
        /\ awaited = {}
        /\ accepted = {}
-----------------------------------------------------------------------------
(* The registry. *)

Seeded(id) == seeds[id] # NoUrl
Listed == {id \in Ids : Seeded(id) \/ mem.added[id] # NoUrl}

isTaken(id) == id \in Listed \/ mem.pending[id] # NoPending

\* The URLs a store monitors under an id: a failed build holds its id but not its page.
Monitored(store, id) ==
    ({store.added[id]} \ {NoUrl})
        \cup {u \in Urls : store.pending[id] = [url |-> u, status |-> "building"]}

SamePage(u, v) == PageOf[u] = PageOf[v]

\* Mutant: only finished sites are compared.
hasListedUrl(url) ==
    \E id \in Ids : \E u \in {seeds[id], mem.added[id]} \ {NoUrl} : SamePage(u, url)

hasUrl(url) ==
    \E id \in Ids : \E u \in ({seeds[id]} \ {NoUrl}) \cup Monitored(mem, id) : SamePage(u, url)

\* The first candidate that is not taken, if any.
IsDerived(id, url) ==
    \E n \in DOMAIN CandidateIds[url] :
        /\ id = CandidateIds[url][n]
        /\ ~isTaken(id)
        /\ \A k \in 1 .. n - 1 : isTaken(CandidateIds[url][k])

validateSite(id, url) == requirePublicHttpUrl(url) /\ IsDerived(id, url)

addPending(store, id, url) ==
    [store EXCEPT !.pending[id] = [url |-> url, status |-> "building"]]

\* Mutant: the entry stays, with a status the file's reader does not know.
markReady(store, id) ==
    [store EXCEPT !.added[id] = store.pending[id].url, !.pending[id].status = "ready"]

resolvePending(store, id) ==
    [store EXCEPT !.added[id] = store.pending[id].url, !.pending[id] = NoPending]

\* Mutant: a failed build is only logged.
keepPending(store, id) == store

failPending(store, id) ==
    IF store.pending[id] = NoPending THEN store
    ELSE [store EXCEPT !.pending[id].status = "failed"]

\* Mutant: the file is taken as it is.
ReadUnfiltered(stored, found) == stored

\* What a start makes of the file: an added target that is committed by now is dropped, and all of
\* them are if one is not valid.
Read(stored, found) ==
    [stored EXCEPT !.added =
        [id \in Ids |-> IF found[id] = NoUrl /\ parseTargetsFile(stored.added)
                        THEN stored.added[id] ELSE NoUrl]]
-----------------------------------------------------------------------------
(* Adding a site. *)

\* POST /api/targets.  A request is refused if its URL is not of a public page, is monitored or
\* has no free id.  If the write throws, it ends with status 500: the entry stays in memory and nothing is built.
AddTarget(url) ==
    /\ up
    /\ ~hasUrl(url)
    /\ \E id \in Ids :
          /\ validateSite(id, url)
          /\ mem' = addPending(mem, id, url)
          /\ \/ /\ file' = mem'
                /\ builds' = builds \cup {id}
                /\ accepted' = accepted \cup {[id |-> id, url |-> url]}
             \/ /\ WritesMayFail
                /\ UNCHANGED <<file, builds, accepted>>
    /\ UNCHANGED <<up, crashes, seeds, active, ticking, awaited>>

EndBuild(id) == id \in builds /\ builds' = builds \ {id}

\* The collector exists: the site is listed, saved and collected at once.
BuildSucceeds(id) ==
    /\ EndBuild(id)
    /\ mem.pending[id] # NoPending
    /\ mem' = resolvePending(mem, id)
    /\ file' = mem'
    /\ active' = active \cup {id}
    /\ UNCHANGED <<up, crashes, seeds, ticking, awaited, accepted>>

\* Saving the new target throws and the catch block's own save succeeds: the site is listed and
\* durable, reported as failed, and not collected at once.
BuildUnsaved(id) ==
    /\ WritesMayFail
    /\ EndBuild(id)
    /\ mem.pending[id] # NoPending
    /\ mem' = failPending(resolvePending(mem, id), id)
    /\ file' = mem'
    /\ UNCHANGED <<up, crashes, seeds, active, ticking, awaited, accepted>>

BuildFails(id) ==
    /\ EndBuild(id)
    /\ mem' = failPending(mem, id)
    /\ file' = mem'
    /\ UNCHANGED <<up, crashes, seeds, active, ticking, awaited, accepted>>

\* The process is gone, and with it everything but the file.
Die ==
    /\ up' = FALSE
    /\ mem' = EmptyStore
    /\ builds' = {}
    /\ active' = {}
    /\ ticking' = FALSE
    /\ awaited' = {}
    /\ UNCHANGED <<seeds, file, accepted>>

\* Saving throws in the catch block: nobody handles the rejection, which ends the process.
CompletionRejects(id) ==
    /\ WritesMayFail
    /\ id \in builds
    /\ Die
    /\ UNCHANGED crashes

BuildEnds(id) ==
    BuildSucceeds(id) \/ BuildUnsaved(id) \/ BuildFails(id) \/ CompletionRejects(id)
-----------------------------------------------------------------------------
(* Collecting the sites. *)

\* POST /api/run, for one target or for all; refused if all of them have a run in flight.
RequestRun ==
    /\ up
    /\ \E selected \in {Listed} \cup {{id} : id \in Listed} :
          /\ ~(selected \subseteq active)
          /\ active' = active \cup selected
    /\ UNCHANGED <<up, crashes, seeds, mem, file, builds, ticking, awaited, accepted>>

RunEnds(id) ==
    /\ id \in active
    /\ active' = active \ {id}
    /\ awaited' = awaited \ {id}
    /\ UNCHANGED <<up, crashes, seeds, mem, file, builds, ticking, accepted>>

\* Mutant: a tick is skipped while any run is in flight.
TickIfIdle == up /\ active = {}

MayTick == up /\ ~ticking

\* The timer fires: every listed target without a run is collected, and the tick waits for the
\* runs it started.  A timer that fires during a tick is skipped.
Tick ==
    /\ MayTick
    /\ ticking' = TRUE
    /\ awaited' = Listed \ active
    /\ active' = active \cup Listed
    /\ UNCHANGED <<up, crashes, seeds, mem, file, builds, accepted>>

\* Mutant: the tick waits until nothing is in flight.
NothingRuns == active = {}

RunsAreDone == awaited = {}

TickEnds ==
    /\ ticking
    /\ RunsAreDone
    /\ ticking' = FALSE
    /\ UNCHANGED <<up, crashes, seeds, mem, file, builds, active, awaited, accepted>>
-----------------------------------------------------------------------------
(* Death and restart. *)

Crash ==
    /\ up
    /\ crashes < MaxCrashes
    /\ crashes' = crashes + 1
    /\ Die

\* A start may find other committed targets than the last.
Start ==
    /\ ~up
    /\ up' = TRUE
    /\ seeds' \in SeedFiles
    /\ mem' = Read(file, seeds')
    /\ accepted' = {site \in accepted : seeds'[site.id] = NoUrl}
    /\ UNCHANGED <<crashes, file, builds, active, ticking, awaited>>

Next ==
    \/ \E url \in Urls : AddTarget(url)
    \/ \E id \in Ids : BuildEnds(id) \/ RunEnds(id)
    \/ RequestRun
    \/ Tick \/ TickEnds
    \/ Crash \/ Start

Spec == Init /\ [][Next]_vars

\* Bright Data answers or times out, the timer fires, runs end, and someone restarts the process.
FairSpec ==
    /\ Spec
    /\ \A id \in Ids : WF_vars(BuildEnds(id)) /\ WF_vars(RunEnds(id))
    /\ WF_vars(Tick) /\ WF_vars(TickEnds)
    /\ WF_vars(Start)
-----------------------------------------------------------------------------
IsPending(id, status) == mem.pending[id] # NoPending /\ mem.pending[id].status = status

TypeOK ==
    /\ up \in BOOLEAN
    /\ crashes \in Nat
    /\ seeds \in Seeds
    /\ {mem, file} \subseteq Store
    /\ builds \subseteq Ids
    /\ active \subseteq Ids
    /\ ticking \in BOOLEAN
    /\ awaited \subseteq Ids
    /\ accepted \subseteq [id : Ids, url : Urls]

\* list() never holds an id twice, whatever was committed since the site was added: the run guard,
\* the pages and the export find a target by its id.
ListedIdsAreUnique == \A id \in Ids : Seeded(id) => mem.added[id] = NoUrl

Distinct(store) ==
    \A i, j \in Ids : \A u \in Monitored(store, i), v \in Monitored(store, j) :
        SamePage(u, v) => i = j

\* No page is added twice, be it finished or still being built, in memory or in the file, across
\* failed builds, failed writes and restarts: a second scraper for it would be built and paid for.
PagesAreDistinct == Distinct(mem) /\ Distinct(file)

Kept(store, site) ==
    \/ store.added[site.id] = site.url
    \/ \E status \in PendingStatus : store.pending[site.id] = [url |-> site.url, status |-> status]

\* A site whose submission was answered with 202 is never lost: through a failed build, a failed
\* write or a crash it stays in the file under its id and URL, pending or as a target, and every
\* later start can read it back.
AcknowledgedIsDurable ==
    \A site \in accepted : Kept(file, site) /\ (up => Kept(mem, site))

\* A build that ends is reported: its site becomes listed or is shown as failed.
BuildsAreReported ==
    \A id \in Ids :
        id \in builds ~> (~up \/ id \in Listed \/ IsPending(id, "failed"))

\* However often runs are requested by hand, the schedule collects every site.
EverySiteIsCollected ==
    \A id \in Ids : (up /\ id \in Listed) ~> (~up \/ id \in active)

\* A tick ends although other runs keep the sites busy, so that the next one is not skipped.
TicksEnd == ticking ~> ~ticking

\* What the dashboard shows as being built is being built.
BuildingIsUnderway ==
    \A id \in Ids : IsPending(id, "building") => id \in builds

\* A build that fails never takes the process down.
ProcessSurvives == [][up /\ ~up' => crashes' > crashes]_vars
=============================================================================
