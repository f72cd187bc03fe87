---------------------------- MODULE Publication ----------------------------
(***************************************************************************)
(* Publishing packets.json: the publisher of each service instance         *)
(* (packetpublisher/publisher.go), the reader whose held copy it merges    *)
(* and compares with (runtimeexport/reader.go), the Hosting site they      *)
(* share (packetpublisher/hosting.go), and the deploy workflow, which      *)
(* writes the same site (.github/workflows/deploy.yml).                    *)
(*                                                                         *)
(* The durable store is abstracted to the number of changes made to it,    *)
(* and an export to the number of changes it shows: an export is built     *)
(* from one reading of the store merged over an earlier export, and that   *)
(* one shows only what an earlier reading produced.  The repository's own  *)
(* packets do not change here.                                             *)
(*                                                                         *)
(* An export is identified by its digest and its publication time; here by *)
(* an id, which is reused once nothing refers to the export any more.      *)
(* Time is the age of the exports, in units of which RenewalAge is a whole *)
(* number, and passes between any two steps: an instance has a processor   *)
(* only while a request is in service, and waits in between, in the middle *)
(* of a call too.                                                          *)
(*                                                                         *)
(* A call is cut once, between reading and writing the site.  Its earlier  *)
(* steps (the held export, then the store, then the clone of the live      *)
(* version) each read one shared thing that the others leave alone, and so *)
(* can be taken as one.                                                    *)
(***************************************************************************)
EXTENDS Naturals, FiniteSets

CONSTANTS
    Instances,      \* the service instances
    Copies,         \* the ids of exports
    None,           \* no export
    RenewalAge,     \* the age at which a live export is due
    MaxChanges,     \* bound: changes made to the store
    MaxStops,       \* bound: stops of an instance
    MaxLost,        \* bound: releases whose caller gives up before their answer
    MaxDeploys      \* bound: deploys

ASSUME PublicationAssumption ==
    /\ Copies \subseteq Nat /\ None \notin Copies
    /\ IsFiniteSet(Instances) /\ IsFiniteSet(Copies)
    /\ Cardinality(Copies) > 4 + 7 * Cardinality(Instances)    \* the places of InUse
    /\ RenewalAge \in Nat \ {0}
    /\ {MaxChanges, MaxStops, MaxLost, MaxDeploys} \subseteq Nat

VARIABLES
    store,          \* how many changes the durable store has
    copy,           \* every export: the changes it shows, and its age
    live,           \* the export the site serves
    frontend,       \* the rest of the site: which deploy it is from
    up,             \* whether the instance runs
    served,         \* the instances with a request in service: no other has a processor
    fetched,        \* the export a refresh of its reader has fetched, or None
    held,           \* the packet export its reader holds, or None
    queue,          \* the issues that wait to be published
    call,           \* the release the call that has the publisher's lock prepared
    observed,       \* Publisher.observed
    released,       \* Publisher.released
    releasedOver,   \* Publisher.releasedOver
    stray,          \* a release whose caller gave up, and which may still take place
    deploy,         \* the deploy under way, and the uploads it still has to make
    deploys, stops, lost    \* what the bounds count

siteVars    == <<live, frontend>>
readerVars  == <<fetched, held>>
memoryVars  == <<observed, released, releasedOver>>
countVars   == <<deploys, stops, lost>>
envVars     == <<served, stray, deploy, countVars>>
vars == <<store, copy, siteVars, up, queue, readerVars, call, memoryVars, envVars>>

\* An export that is due stays due: no rule tells older ones apart.
Copy == [content : Nat, age : 0..RenewalAge]

\* The export a call is about to release, the held one it was merged over, and the
\* frontend of the version it cloned.
Call == [made : Copies \cup {None}, base : Copies \cup {None}, clone : 0..MaxDeploys]

NoCall   == [made |-> None, base |-> None, clone |-> 0]
NoDeploy == [made |-> None, frontend |-> 0, uploads |-> 0]

\* The instance has a processor, and its publisher's lock is free.
Idle(i) == i \in served /\ call[i] = NoCall

InUse ==
    {live, stray.made, stray.base, deploy.made} \cup
    UNION {{fetched[i], held[i], observed[i], released[i], releasedOver[i],
            call[i].base, call[i].made} : i \in Instances}

\* An id nothing refers to; by PublicationAssumption there is always one.
Fresh == CHOOSE c \in Copies \ InUse : \A d \in Copies \ InUse : c <= d

-----------------------------------------------------------------------------
(* The store and the reader. *)

\* An issue commits, and its request goes on to publish.
Author(i) ==
    /\ i \in served
    /\ store < MaxChanges
    /\ store' = store + 1
    /\ queue' = [queue EXCEPT ![i] = @ + 1]
    /\ UNCHANGED <<copy, siteVars, up, readerVars, call, memoryVars, envVars>>

\* The issue commits, and its request fails before it gets to publish: no answer came
\* from the store, or the issued packet could not be read back.
AuthorFails(i) ==
    /\ i \in served
    /\ store < MaxChanges
    /\ store' = store + 1
    /\ UNCHANGED <<copy, siteVars, up, queue, readerVars, call, memoryVars, envVars>>

Fetch(i) ==
    /\ i \in served /\ fetched[i] = None
    /\ fetched' = [fetched EXCEPT ![i] = live]
    /\ UNCHANGED <<store, copy, siteVars, up, queue, held, call, memoryVars, envVars>>

Install(i) ==
    /\ i \in served /\ fetched[i] # None
    /\ held' = [held EXCEPT ![i] = fetched[i]]
    /\ fetched' = [fetched EXCEPT ![i] = None]
    /\ UNCHANGED <<store, copy, siteVars, up, queue, call, memoryVars, envVars>>

-----------------------------------------------------------------------------
(* The publisher. *)

\* Fault: no export ever becomes due.
NeverDue(c) == FALSE

Due(c) == copy[c].age = RenewalAge

\* Fault: the renewal of a due export stamps the held one anew instead of building again.
PrepareRestamped(i) ==
    /\ call' = [call EXCEPT ![i] = [made |-> Fresh, base |-> held[i], clone |-> frontend]]
    /\ copy' = [copy EXCEPT ![Fresh] =
         [content |-> IF Due(held[i]) THEN copy[held[i]].content ELSE store, age |-> 0]]

\* Fault: the issues that wait to be published are counted on top of the log, which has them.
PrepareWithWaiting(i) ==
    /\ call' = [call EXCEPT ![i] = [made |-> Fresh, base |-> held[i], clone |-> frontend]]
    /\ copy' = [copy EXCEPT ![Fresh] = [content |-> store + queue[i], age |-> 0]]

\* build, and Hosting's clone of the version that is live.
Prepare(i) ==
    /\ call' = [call EXCEPT ![i] = [made |-> Fresh, base |-> held[i], clone |-> frontend]]
    /\ copy' = [copy EXCEPT ![Fresh] = [content |-> store, age |-> 0]]

Publish(i) ==
    /\ Idle(i) /\ queue[i] > 0
    /\ queue' = [queue EXCEPT ![i] = @ - 1]
    /\ held[i] # None /\ Prepare(i)
    /\ UNCHANGED <<store, siteVars, up, readerVars, memoryVars, envVars>>

\* The reader holds no export, the store or Hosting fails, or the records read from a
\* store that changed meanwhile do not verify.
PublishFails(i) ==
    /\ Idle(i) /\ queue[i] > 0
    /\ queue' = [queue EXCEPT ![i] = @ - 1]
    /\ UNCHANGED <<store, copy, siteVars, up, readerVars, call, memoryVars, envVars>>

\* Fault: a check reads the store only when the export is due.
SettledUntilDue(i) == ~Due(held[i])

\* Renew returns at once, without reading the store.
Settled(i) == held[i] = observed[i] /\ ~Due(held[i])

\* The live export shows what was just built.
Unchanged(i) == store = copy[held[i]].content /\ ~Due(held[i])

\* Fault: a check releases again although its own release is on its way.
NeverAwaited(i) == FALSE

\* This publisher already replaced the export it holds with what it just built.
Awaited(i) ==
    /\ released[i] # None /\ ~Due(released[i])
    /\ store = copy[released[i]].content
    /\ held[i] = releasedOver[i]

\* A renewal check reads the store, and finds something to release or nothing; or it fails
\* to clone the live version.  One that fails before has no effect.
Renew(i) ==
    /\ Idle(i) /\ held[i] # None /\ ~Settled(i)
    /\ observed' = [observed EXCEPT ![i] = held[i]]
    /\ IF Unchanged(i) \/ Awaited(i) THEN UNCHANGED <<call, copy>> ELSE Prepare(i)
    /\ UNCHANGED <<store, siteVars, up, queue, readerVars, released, releasedOver, envVars>>

RenewFails(i) ==
    /\ Idle(i) /\ held[i] # None /\ ~Settled(i)
    /\ observed' = [observed EXCEPT ![i] = held[i]]
    /\ UNCHANGED <<store, copy, siteVars, up, queue, readerVars, call, released,
                   releasedOver, envVars>>

\* The new version, the clone with the new packets.json, replaces the live one.
GoLive(prepared) ==
    /\ prepared # NoCall
    /\ live' = prepared.made
    /\ frontend' = prepared.clone

Release(i) ==
    /\ i \in served
    /\ GoLive(call[i])
    /\ call' = [call EXCEPT ![i] = NoCall]
    /\ released' = [released EXCEPT ![i] = call[i].made]
    /\ releasedOver' = [releasedOver EXCEPT ![i] = call[i].base]
    /\ UNCHANGED <<store, copy, up, queue, readerVars, observed, envVars>>

ReleaseFails(i) ==
    /\ i \in served /\ call[i] # NoCall
    /\ call' = [call EXCEPT ![i] = NoCall]
    /\ UNCHANGED <<store, copy, siteVars, up, queue, readerVars, memoryVars, envVars>>

\* The request to release is on its way when its caller goes.
Leave(i) ==
    /\ call[i] # NoCall /\ stray = NoCall
    /\ lost < MaxLost /\ lost' = lost + 1
    /\ stray' = call[i]

\* The caller sees an error.
GiveUp(i) ==
    /\ i \in served /\ Leave(i)
    /\ call' = [call EXCEPT ![i] = NoCall]
    /\ UNCHANGED <<store, copy, siteVars, up, served, queue, readerVars, memoryVars, deploy,
                   deploys, stops>>

LandStray ==
    /\ GoLive(stray)
    /\ stray' = NoCall
    /\ UNCHANGED <<store, copy, up, served, queue, readerVars, call, memoryVars, deploy,
                   countVars>>

LoseStray ==
    /\ stray # NoCall
    /\ stray' = NoCall
    /\ UNCHANGED <<store, copy, siteVars, up, served, queue, readerVars, call, memoryVars,
                   deploy, countVars>>

-----------------------------------------------------------------------------
(* Instances, deploys and time. *)

\* A visitor comes: an instance is started for the request, or one that runs serves it.
Start(i) ==
    /\ ~up[i]
    /\ up' = [up EXCEPT ![i] = TRUE]
    /\ served' = served \cup {i}
    /\ UNCHANGED <<store, copy, siteVars, queue, readerVars, call, memoryVars, stray, deploy,
                   countVars>>

Visit(i) ==
    /\ up[i] /\ i \notin served
    /\ served' = served \cup {i}
    /\ UNCHANGED <<store, copy, siteVars, up, queue, readerVars, call, memoryVars, stray,
                   deploy, countVars>>

\* The visitor leaves, whatever the instance is at; only an issue that waits to be published
\* is itself a request in service.
VisitEnds(i) ==
    /\ i \in served /\ queue[i] = 0
    /\ served' = served \ {i}
    /\ UNCHANGED <<store, copy, siteVars, up, queue, readerVars, call, memoryVars, stray,
                   deploy, countVars>>

Stop(i) ==
    /\ up[i]
    /\ stops < MaxStops
    /\ stops' = stops + 1
    /\ up'           = [up EXCEPT ![i] = FALSE]
    /\ served'       = served \ {i}
    /\ queue'        = [queue EXCEPT ![i] = 0]
    /\ fetched'      = [fetched EXCEPT ![i] = None]
    /\ held'         = [held EXCEPT ![i] = None]
    /\ call'         = [call EXCEPT ![i] = NoCall]
    /\ observed'     = [observed EXCEPT ![i] = None]
    /\ released'     = [released EXCEPT ![i] = None]
    /\ releasedOver' = [releasedOver EXCEPT ![i] = None]
    /\ Leave(i) \/ UNCHANGED <<stray, lost>>
    /\ UNCHANGED <<store, copy, siteVars, deploy, deploys>>

\* A deploy fetches the live export and stamps it anew without building it again; it then
\* uploads the site twice, with the same file.
DeployFetch ==
    /\ deploy = NoDeploy /\ deploys < MaxDeploys
    /\ deploys' = deploys + 1
    /\ copy' = [copy EXCEPT ![Fresh] = [content |-> copy[live].content, age |-> 0]]
    /\ deploy' = [made |-> Fresh, frontend |-> deploys', uploads |-> 2]
    /\ UNCHANGED <<store, siteVars, up, served, queue, readerVars, call, memoryVars, stray,
                   stops, lost>>

DeployUpload ==
    /\ deploy # NoDeploy
    /\ live' = deploy.made
    /\ frontend' = deploy.frontend
    /\ deploy' = IF deploy.uploads = 1 THEN NoDeploy ELSE [deploy EXCEPT !.uploads = @ - 1]
    /\ UNCHANGED <<store, copy, up, served, queue, readerVars, call, memoryVars, stray,
                   countVars>>

DeployAborts ==
    /\ deploy # NoDeploy
    /\ deploy' = NoDeploy
    /\ UNCHANGED <<store, copy, siteVars, up, served, queue, readerVars, call, memoryVars,
                   stray, countVars>>

Tick ==
    /\ copy' = [c \in Copies |-> [copy[c] EXCEPT !.age = IF @ < RenewalAge THEN @ + 1 ELSE @]]
    /\ UNCHANGED <<store, siteVars, up, queue, readerVars, call, memoryVars, envVars>>

-----------------------------------------------------------------------------
Init ==
    /\ store = 0
    /\ copy = [c \in Copies |-> [content |-> 0, age |-> 0]]
    /\ live \in Copies /\ \A c \in Copies : live <= c
    /\ frontend = 0
    /\ up           = [i \in Instances |-> FALSE]
    /\ served       = {}
    /\ fetched      = [i \in Instances |-> None]
    /\ held         = [i \in Instances |-> None]
    /\ queue        = [i \in Instances |-> 0]
    /\ call         = [i \in Instances |-> NoCall]
    /\ observed     = [i \in Instances |-> None]
    /\ released     = [i \in Instances |-> None]
    /\ releasedOver = [i \in Instances |-> None]
    /\ stray = NoCall
    /\ deploy = NoDeploy
    /\ deploys = 0 /\ stops = 0 /\ lost = 0

\* What an instance does when nothing fails and its visitors stay.
Work(i) ==
    \/ Start(i) \/ Visit(i)
    \/ Author(i) \/ Fetch(i) \/ Install(i) \/ Publish(i) \/ Renew(i) \/ Release(i)

Fault(i) ==
    \/ AuthorFails(i) \/ PublishFails(i) \/ RenewFails(i)
    \/ ReleaseFails(i) \/ GiveUp(i) \/ Stop(i)

Next ==
    \/ \E i \in Instances : Work(i) \/ VisitEnds(i) \/ Fault(i)
    \/ LandStray \/ LoseStray
    \/ DeployFetch \/ DeployUpload \/ DeployAborts
    \/ Tick

Spec == Init /\ [][Next]_vars

\* The premise of convergence: every instance has a request in service again and again.
\* Nothing in the code sees to that.
VisitorsKeepComing == \A i \in Instances : []<>(i \in served)

\* An instance that has a processor again and again goes on with its refresh, and with its
\* publications and renewal checks: a tick that came due is there for the next visit.
Proceeds(i) ==
    /\ SF_vars(Fetch(i) \/ Install(i))
    /\ SF_vars(Publish(i) \/ PublishFails(i) \/ Renew(i) \/ RenewFails(i)
               \/ Release(i) \/ ReleaseFails(i) \/ GiveUp(i))

\* A check or a release that is tried again and again works now and then.
RetriesSucceed == \A i \in Instances : SF_vars(Renew(i)) /\ SF_vars(Release(i))

\* Nothing fails, no deploy runs, and no export becomes due.  Visits do not end: that they
\* do not end for good is the premise, and a pause of one instance is nothing but steps of
\* the others, after which it goes on where it was.
UndisturbedSpec ==
    /\ Init /\ [][\E i \in Instances : Work(i)]_vars
    /\ \A i \in Instances : Proceeds(i)

-----------------------------------------------------------------------------
(* Properties. *)

\* The type invariant: an export a call or the site refers to has an id of its own and shows
\* no change the store does not have, a stopped instance keeps nothing, and a deploy under
\* way has an upload left to make.
TypeOK ==
    /\ store \in 0..MaxChanges
    /\ copy \in [Copies -> Copy] /\ live \in Copies /\ ~(Copies \subseteq InUse)
    /\ \A c \in InUse \ {None} : copy[c].content <= store
    /\ frontend \in 0..MaxDeploys
    /\ {fetched, held, observed, released, releasedOver} \subseteq [Instances -> Copies \cup {None}]
    /\ up \in [Instances -> BOOLEAN] /\ queue \in [Instances -> 0..MaxChanges]
    /\ call \in [Instances -> Call] /\ stray \in Call
    /\ served \subseteq {i \in Instances : up[i]}
    /\ \A i \in Instances : i \notin served => queue[i] = 0
    /\ \A i \in Instances : ~up[i] =>
         /\ queue[i] = 0 /\ call[i] = NoCall
         /\ {fetched[i], held[i], observed[i], released[i], releasedOver[i]} = {None}
    /\ deploy \in {NoDeploy} \cup [made : Copies, frontend : 1..MaxDeploys, uploads : 1..2]
    /\ deploys \in 0..MaxDeploys /\ stops \in 0..MaxStops /\ lost \in 0..MaxLost

\* Where one instance serves, what it releases never takes the site back: it shows every
\* change the site shows, however far the reader lags behind the site, whatever releases
\* were lost or landed late before it, and whatever a deploy did since it was prepared.
ReleaseGoesForward ==
    [][\A i \in Instances :
         Instances = {i} /\ Release(i) => copy[live].content <= copy'[live'].content]_vars

\* The site comes to show every change, and goes on showing it.
Converges == <>[](copy[live].content = store)

\* If visitors keep coming, the instances bring the site to the store.  If they do not, it
\* may stay behind for good.
ConvergesIfVisited == VisitorsKeepComing => Converges

\* They do so whatever failed meanwhile, once time passes and nothing fails for ever.
Fairness == WF_vars(Tick) /\ RetriesSucceed /\ \A i \in Instances : Proceeds(i)

HealsIfVisited == Fairness /\ VisitorsKeepComing => Converges

\* The site is not released for ever while no time passes: a publisher does not answer the
\* lag of its own reader by releasing again and again.
ReleasesArePaced == []<><<live' # live>>_vars => []<><<Tick>>_vars

\* What ADR-0060 says of a renewal check: it republishes an export that differs from what
\* its sources reconcile to.  A check that would return at once, against the export that
\* is live and with no publication under way, finds it showing every change.
SettledIsCurrent ==
    \A i \in Instances :
      /\ Idle(i) /\ held[i] = live /\ Settled(i)
      /\ \A j \in Instances : queue[j] = 0 /\ call[j] = NoCall
      => copy[live].content = store

=============================================================================
