# Verification of work-tracker

TLA+ models, TLC runs and TLAPS proofs for the tracker in this repository: the
append-only packet ledger, the event store several tracker instances share, and
the parts around them that keep or publish state. `PROJECT.json` lists every run,
mutant, theorem and hazard, and maps each definition to the lines it stands for.

## The system

A *packet* is a frozen piece of work. Its life is a stream of events in an
append-only store; everything else the program knows about it is a projection of
that stream. The service runs on Cloud Run with at most two instances
(`infra/deploy/main.tf:24`), and every instance has a tracker of its own over the one
Firestore database. None need run (`min_instance_count = 0`, `:23`), and one that runs has
its processor while it starts and while a request is in service, not in between
(`cpu_idle = true`, `:35`): its tickers wait for the next visitor.

| Component | State it keeps | Operations | Talks to |
|---|---|---|---|
| packet tracker (`packet/tracker.go`) | cached streams, projection, event ids, one lock | Issue, Take, Comment, Transition, Supersede, Packet, Packets, History, DropProjection, RebuildProjection | event store, tenant directory |
| event store (`packet/store.go`, `eventstore/firestore.go`) | every stream and its version | Load (one query per stream), Append (compare all versions, then write all events) | Firestore |
| authoring workspace (`authoring/workspace.go`, `surface/authoring.go`) | drafts, in the process only | Create, Edit, CreateSupersession, Issue | tracker, publisher |
| agent credentials (`agentcredential`, `credentialstore`) | credential records: digest, expiry, revocation, last use | Create, Authenticate, Revoke, Get, List | Firestore |
| packet export (`packetexport`, `contract`) | none; builds and verifies the wire format | Records, Reconcile, Serialize, Verify | tracker |
| packet publisher (`packetpublisher`) | last release, last live copy observed, one lock | Publish, Renew, Keep | export, reader, Firebase Hosting |
| runtime export reader (`runtimeexport/reader.go`) | held copies of three exports, the snapshot built from them | Start, Refresh, Ready, VerifiedCopy, IntactCopy | three public URLs |
| contract envelope (`contract/envelope.go`) | none | Build, Verify, VerifyIntegrity | the two rows above |
| HTTP surface (`surface`) | none of its own | routes onto the parts above; health; the views of a snapshot | all of them |
| rollback and run tags (`scripts/deploy`) | none; decide on revisions and tags | decide, prune | Cloud Run |

What is hard here:

* **Interleaving.** A tracker's lock covers one process. Two instances load the same
  version of a stream and both append; a supersession reads its two streams in two
  queries, with the other instance's commits between them.
* **Answers that do not come.** An append can be committed although its caller saw an
  error, or commit after its caller gave up. The tracker then re-reads the touched
  streams and reports the error; the caller retries.
* **Caches.** After an append that succeeded the tracker extends its cached streams and
  projection from memory, without reading the store.
* **Several events, several streams, one mutation.** Supersession closes the parent and
  issues the replacement; half of it is worse than none.
* **Restarts.** An instance can be stopped anywhere; the next one rebuilds its
  projection by replaying every stream, and does not start if one of them is refused.
* **Copies.** Each instance answers reads from copies of three exports that it refreshes
  together, and that come, fail and expire one by one; health, the startup check and the
  publisher look at the copies, reads at a snapshot built from two of them.
* **Drafts.** A draft lives in one instance's memory, and the issue that turns it into a
  packet is a call whose answer can be lost.
* **Visitors.** Nothing happens in an instance without one: a refresh, a check or a release
  can stop in the middle for any time, and a process that starts is ended by the startup
  probe if it is not healthy within half a minute (`infra/deploy/main.tf:83-92`).
* **Publication.** Builds from a store that moves, releases onto a site that a deploy or
  the other instance may have replaced meanwhile, and must still converge.

## Modules

| Module | Models | Extends / uses |
|---|---|---|
| `Packet` | events, `applyEvent`'s rules, the projection in closed form | |
| `Replay` | the replay loop of `refreshLocked`, one event a step, over any stream | `Packet` |
| `PacketLedger` | abstract specification: one current packet per id, each operation one step | `Packet` |
| `Tracker` | several trackers over one event store | `Packet`; implements `PacketLedger` |
| `Packet_proofs` | lemmas about the projection, and what each mutation does to it | `Packet` |
| `Replay_proofs` | the loop agrees with the closed form, and what a stream that replays looks like | `Replay`, `Packet_proofs` |
| `Tracker_proofs` | every stored stream replays, the tracker implements the ledger, caches are earlier states, acknowledged events are apart | `Tracker`, `PacketLedger_proofs` |
| `PacketLedger_proofs` | links and lineages of the abstract ledger, and what a step does to one packet | `PacketLedger`, `Packet_proofs` |
| `Export` | building an export from a ledger that changes, and what the surface says of a record | `PacketLedger` |
| `Authoring` | drafts of several instances, issued into the ledger | `PacketLedger` |
| `LedgerClients_proofs` | an export is one moment of the ledger; a packet is what its author asked to issue | `Export`, `Authoring`, `PacketLedger_proofs` |
| `Reader` | one instance's copies of three exports, its snapshot, its startup and its health | |
| `Reader_proofs` | the snapshot and the copies agree | `Reader` |
| `Publication` | publishers, their readers, the Hosting site and a deploy | |
| `Publication_proofs` | no export is ahead of the store, and one instance never takes the site back | `Publication` |
| `Credentials` | the credential store as several instances with clocks of their own call it | |
| `Credentials_proofs` | what the credential store promises | `Credentials` |
| `MCReplay`, `MCTracker`, `MCLedger`, `MCReader`, `MCAuthoring`, `MCPublication`, `MCCredentials` | the instances TLC checks | |

### Packet and Replay

An event is a record with the fields the rules read; ids, timestamps, bodies and
texts are abstracted to what a rule can tell apart (`Attachments`: nothing, blank,
something). `Accepts` is every early return of `applyEvent`; `ApplyEvent` its
assignments. `Project` says what a replay produces field by field (each field is what
the latest event of one kind says) instead of by recursion, so that the rest can be
proved about. That this closed form is right is not assumed: module `Replay` walks the
loop of `refreshLocked`, and `ReplayIsProject` says both agree, on acceptance and on
the result; TLC checks it on every stream of six events over two packets, and
`Replay_proofs` proves it for streams of any length.

### Tracker

`log` is the store. Each tracker has a position in its current command (`phase`), the
command it loads for, the append it made (`request`), and its cache (`streams`,
`projection`, `ready`). A command is cut exactly at its calls of the store, because the
lock hides everything else from the other requests of the process and nothing hides it
from the other process:

* `Begin` is `prepareLocked`'s first query; `LoadReplacement` the second one of a
  supersession (`eventstore/firestore.go:103-116`).
* `Decide` refreshes the cache and either makes the append or returns an error. It may
  also return an error for a command it would admit, since the tenant directory or the
  source of event ids can fail.
* `Commit`, `Refuse`, `Acknowledge`, `LearnRefusal`, `TimeOut` are the append, its two
  answers and the loss of the answer; `CommitLate` and `LoseLate` are what becomes of
  an append whose caller has gone; `Reread` and `RereadFails` the reload whose result
  `appendLocked` ignores.
* `Crash` and `Start` are the instance's.

Event ids are not modelled: an id is 16 random bytes, and the checks for duplicate ids
never decide anything in the model. A packet superseding itself is left out because the
code refuses it after a single query, which is the effect of `ReadPacket`. Empty ids are
refused at once and change nothing.

`PacketLedger` is what the tracker promises: each operation is one step on the packets.
`Tracker` implements it (`ImplementsLedger`), and the modules whose subject lies in front
of the tracker or behind it, `Export` and `Authoring`, are built on the ledger instead of
on the tracker.

### Export

`packets` is the ledger, which goes on changing; `build` the export under way, `live` where
the records of the live export came from. `List` is `Tracker.Packets`, `ReadHistory` one call
of `Tracker.History` (`packetexport/export.go:104-118`): each reads the ledger as it then is.
A history is represented by the packet it replays to, which is what `PacketLedger` keeps of
one. `Reconcile` and `Exported` merge the live export, the repository's and the ledger's
records in the order of `build` (`packetpublisher/publisher.go:186-202`). `ValidateRecords`
is the rule of `validateRecord` that can fail for records the program makes itself, a version
that is not the number of events; what it says of statuses, ids and timestamps is about
records that come from elsewhere. `IsUnclaimed` is `surface/view.go:367`.

`ExportIsAMoment` says that the comparison of two numbers is enough: whatever the ledger did
between the readings, records that pass it are the ledger as it was when they were listed.
`SnapshotRecord` makes the same two readings without comparing them and is not modelled.

### Authoring

`drafts` holds every draft an instance ever made, with all its versions, so that what a
packet froze can be compared with what was on the screen; `state` `lost` says that the
instance is gone. `calls` is the issue each instance is at, under `workspace.mu`: no other
request touches its drafts until the tracker has answered. `frozen` says which version of
which draft each packet came from; no rule reads it.

* `CreateDraft`, `CreateSupersession`, `EditDraft` are the handlers. An edit or an issue names
  any version of the draft, as a second tab of its author would.
* `BeginIssue` checks the draft and reads the parent's version
  (`authoring/workspace.go:250`); `LedgerIssues` is the ledger carrying the issue out, if it
  still can; `IssueSucceeds` and `IssueFails` the tracker's answer. An error may come before or
  after the ledger acted, or before it will: `LateIssue`.
* `Stop` ends an instance with its drafts; `AgentStep` is the work of agents on the packets.

An author is whoever the request authenticates, and a request for another's draft finds
nothing, so `Editable` has no principal. The scope of a route and the tenant directory only
refuse.

### Reader

`held` are the copies of the three exports, each represented by its age and by whether a
snapshot can be built from it; `snapshot` the pair requests are answered from; `outcome` what
the last refresh said of the packets (`refreshError`), which decides whether their absence
is excused; `since` the time since the refresh began, as of which it judges what it fetches
(`runtimeexport/reader.go:244`). `Install` is all of `Refresh` after its fetches: it reads and
writes the copies in one critical section each, and `refreshMu` keeps every other refresh
out. Each fetch brings any copy, old or new, or fails (`AnyAnswers`). `Accept` and `Refuse` are the
startup check, `Forget` the end of the process.

`served` says that the process has its processor: `Start` is a visitor for whom a process is
started, `Visit` one who finds it, `VisitEnds` leaves it waiting, wherever it is. `Begin`, `Install`
and `Renew` need it; the age of the copies does not. `Stop` is the platform's, at any time.

A process that has started (`Accept`) is still on probation: until it is `probed`, `ProbePasses` needs
it `Healthy` (`surface/handler.go:245-258`), and `ProbeFails` ends it when it is not. An export of
its own that has expired is held by the startup check and refused by the probe, so such a process
lives on only if its renewal (`Renew`, the check `Keep` runs at once) and the refresh it orders
come first. `site` is the age of the export on the packets' site, or `None`; `Renew` and
`Released`, a release by others or by an earlier process whose answer came too late, make it anew.

Left out: `agent-grants` are fetched and held, and nothing else is done with them here;
timestamps in the future; a process that came up without a store and never renews
(`cmd/tracker-web/main.go:81-93`), which is one whose renewals fail; and a verification that
fails for another reason than age, which is `Failure`.

### Publication

`live` and `frontend` are the Hosting site: its packets.json, and the rest of it. Each
instance has the copy its reader holds (`held`; `fetched` while a refresh is under way),
the requests that wait for the publisher's lock (`queue`), the call that has it (`call`)
and the publisher's three memories `observed`, `released`, `releasedOver`.
`served` are the instances with a processor: every step of an instance needs it, and `Start`,
`Visit` and `VisitEnds` are as in `Reader`.

The durable store is `store`, the number of changes made to it, and an export is the
number of changes it shows, because an export is the earlier one merged with one reading of
the store, and the store only grows. An export is identified in the code by its digest and
publication time (`observation`), here by an id of `Copies`; ids nothing refers to
(`InUse`) are used again. Time is the exports' age, up to the `RenewalAge` at which they
are due; it passes between any two steps, also in the middle of a call.

* `Author` commits an issue that goes on to publish, `AuthorFails` one whose request
  returns before that (`surface/authoring.go:118-127`).
* `Fetch` and `Install` are a refresh of the reader, which holds whatever it fetched, also
  if something newer has gone live since.
* `Publish` and `Renew` take the held export, the store and the live version that is
  cloned; `Release` puts the prepared version live. These are the two halves of a call:
  what the first reads is changed by others one at a time, and each of its reads is of
  another thing, so they can be moved together; between the halves anything may happen.
  The exception is a store that changes while `Records` reads it packet by packet: a
  mixture is refused by `Verify`, which is `PublishFails`; for `Renew` it is a check that
  had no effect.
* `ReleaseFails`, `GiveUp`, `LandStray` and `LoseStray` are a release that is refused, or
  times out and takes place later, or never. `Stop` may leave a release on its way too.
* `DeployFetch` is the deploy's renewal of the live export (`cmd/verify-packet-export`),
  `DeployUpload` each of its two uploads of the site, `DeployAborts` a gate that fails.

Left out: the repository's own packets, which only a deploy changes and every build adds
alike; and publication times within one second of each other, which the format cannot tell
apart.

### Credentials

`records` is the store: a document per credential, without its binding, workload and
digest, which never change. `clock` is each instance's clock, `call` the requests under
way, `handed` the credentials whose bearer value reached the person who created them.

* `Create`, `Authenticate` and `Revoke` are the arrival of a request: the instance reads
  its clock (`surface/credentials.go:42`, `:75`, `:112`) and carries that time to the store,
  where it arrives any number of steps later. A bearer value is an id and a secret of 32
  random bytes: an authentication or a revocation names a stored credential, and is
  `genuine` only if its bearer value was handed out. A request with an id that was never
  stored is refused and changes nothing.
* `StoreCreates`, `StoreAuthenticates` and `StoreRevokes` are one transaction each: decode
  the document, decide, write. `StoreRefuses` is every refusal, and every failure that
  happened before the commit; it is enabled always, because any call of the store can fail.
* `GiveUp` is a deadline that passed or a client that went away; the transaction may still
  commit (`abandoned`), and its answer is lost.
* `Return` hands the answer on, for `Create` with the bearer value.

`Decodes` is `ValidateStoredRecord`, which ends every decoding. Looking a credential up and
listing a tenant's change nothing, and succeed exactly if what they read decodes; the
property `Manageable` stands for them. `MemoryStore` differs from the Firestore adapter only
in not decoding what it reads.

## What the runs show

| Run | Instance | Question |
|---|---|---|
| `replay` | 2 packets, streams of 6 events | Does the loop agree with the closed form, and what do accepted streams look like? |
| `tracker_race` | 2 trackers, 2 packets, versions up to 3 | Do races, torn loads, lost answers and crashes leave every stream replayable, every commit on top of what it was decided against, two acknowledged commands apart, supersession links mutual, and what is once known of a packet as it was? |
| `tracker_late` | 1 tracker, 2 packets, versions up to 4, 1 late append | Is each change of the store one whole ledger operation, and is a closed packet final? |
| `tracker_cache` | 2 trackers, 1 packet, versions up to 3, 1 late append | Is a cache ever anything but an earlier state of the store, and does every command return? |
| `ledger` | 3 packets, 1 actor, 7 events, any number of builds, one at a time | Are supersession links mutual, can a chain of supersessions close into a cycle, can two packets of one lineage be open, is an export that verifies one moment of the ledger, and can unclaimed packets be taken? |
| `authoring` | 2 instances, 2 drafts of up to 2 versions, 2 packets, 2 tenants, 5 events, 1 late issue | Is a packet what its author asked to issue, is a draft reported as issued a packet, does supersession stay within a tenant? |
| `reader` | exports live 3 ticks, a startup takes 1 at most | Do snapshot and copies agree, does a healthy or ready instance answer, do packets stay shown, and while visitors keep coming, does some process come up, past the probe, and answer? |
| `publication_heals` | 1 instance, 1 change, 1 deploy, 1 stop, 1 release whose answer is lost | While visitors keep coming, does the site come to show every change, whatever failed? Are releases bounded while no time passes, is an export ever ahead of the store, and does a release ever take the site back? |
| `publication_races` | 2 instances, 2 changes, no failures, visits that do not end | Do two publishers that overwrite each other get to the store without waiting for an export to become due? |
| `publication_settled` | 1 instance, 1 change, nothing but the change's own publication fails | A disagreement of the code with what is written about it, below |
| `credentials` | 1 instance, 1 credential, 3 requests, 2 tenants, 2 people | Is the first revocation the one everyone is told, is it final, does the last use cover every success, and can every stored document be decoded again? |
| `credentials_decode` | 2 instances one second apart, 1 credential, 2 requests | A disagreement of the code with what is written about it, below |

Bounds. Two trackers are the deployment's limit, and two packets are what one
supersession and its rival need. `MaxVersion` 3 admits issue, take and then a race on a
third version; 4 admits a whole completion (issue, start, done with close) and a comment
after it. Two trackers on two packets leave room for one actor only: that of two rival agents
the first keeps what it took (`WrittenOnce`) is the proof's to say, which has any number. One late append is enough for it to meet a retry of the same command, which
is admitted on the same versions. Lineages are a matter of the ledger alone, and the
tracker implements the ledger: the `ledger` run has three packets, so that a cycle of three
would fit, and seven events: two supersessions in a row take five, and two are left to close
the packets or to change the ledger between the readings of a build.

For authoring, two instances and two drafts are two authors of one packet, or the retry of a
lost issue against its late success; a parent and its replacement are two packets, one of
either tenant. Five events are an issue, a supersession and two steps of agents. A draft has two
versions before it is issued, one of them not the last; longer histories add versions nothing
names. For the reader, what an authority published at most `Fresh` ago outlives a startup
(`TicksAssumption`), here by no tick; and copies age beyond their life by the length of a refresh,
which are the last ages a rule tells apart: `since` counts no further than `Timeout`, because a
copy that was fresh at the beginning of a longer refresh is, when it is installed, as stale as one
of the last of these ages. What the bounds leave out is in the proofs, which have none.

For publication one change and one deploy are enough to separate a stale export from a
current one and to overwrite a release twice; the failures are bounded at one each, and the
configurations are alike after the last of them, which is where convergence is decided.
`Copies` has more ids than places that can refer to one: the live export, a deploy's, a release
on its way and its clone, and seven of each instance. `PublicationAssumption` says so, and
`TypeOK` that there is always an id left; by the proof of it the number of ids changes nothing. `RenewalAge` 1 tells due exports from the others;
more would only add ages no rule looks at.

For credentials three requests at once let two revocations race with an authentication,
and a slot is free again when its request is over, so histories are longer than three
requests. Credentials do not affect one another: one is enough. Times up to `MaxTime` 2 with a
`MaximumLifetime` of 2 put an expiry before, between and after the times of uses. `MaxSkew` 1
is enough to date one thing before another that happened earlier; with one instance, what
the clocks of several would do to the other properties is left to their proofs.

Views. `MCLedger` drops from a build what a history says that no longer matches its record:
such a build never verifies. `MCAuthoring` drops the versions of a draft that are not the last
and that no packet or issue names; no step reads them, and the invariants look up named ones.
`IssuedDraftStays`, an action property, is checked on the transitions between the states
explored, and proved without the view. Packets, instances, drafts and tenants are symmetric.

View and symmetry of the tracker. Trackers and packets are symmetric; no formula names one. A cached
stream is always read again before a decision is based on it, except in the time between
`Decide` and `Acknowledge`, so `View` drops the cached streams and projections nobody is
appending to. The view is a bisimulation: which steps are enabled and what they do to the
rest of the view depends on the view alone. `CacheIsPast`, which is about exactly what it
drops, is checked without it, and in the same run `CommandsReturn`, without symmetry.

Fairness. `FairSpec` assumes only that a tracker in the middle of a command moves on:
each call of the store has a deadline (`store.timeout`), so it returns, fails or times
out. Which of these happens is never assumed. No fairness is put on callers, on crashes
or on late appends.

`Authoring` and `Export` make no promise that something happens: their failures may recur for
ever.

**Visitors.** The liveness of `Reader` and `Publication` has a premise the code does not provide:
`VisitorsKeepComing`, that an instance has a request in service again and again. With no minimum
of instances and an idle processor (`infra/deploy/main.tf:23`, `:35`) nothing else runs a ticker:
`docs/roadmap.md:149-151` and `docs/technical-specification.md:103-107` say that the export
expires after two days with no visitor, and `docs/state-of-the-product.md:54-55` suspects background
work starved of its processor. Without the premise TLC finds the conclusions of `HealsIfVisited`
and of `Recovers` false: the site stays behind, and nothing comes up. In `publication_races` the
premise is built into the specification, whose visits do not end; if they may, TLC finds the
conclusion of `ConvergesIfVisited` false in seconds. Each of the other premises of `Recovers` is
needed as well, and all of them together can be met.

`MCPublication`'s view is a bisimulation as well. It renames the ids in the order of the
places that refer to them, and drops memories no rule can tell apart: an `observed` or
`releasedOver` that names no export an instance holds, fetches, makes or finds live, and a
release `Awaited` ignores, because it is due or does not show the whole store. It also drops the
rest of the site, on which no step depends; what `TypeOK` says of it is the proof's to check.

`Publication`'s fairness, besides: an instance that has its processor again and again goes on with
its refresh, and with its publications and checks or their failures (`Proceeds`, the loops of
`Reader.run` and `Publisher.Keep`). It is strong fairness, because a visit may end before a
step; a tick that came due in between is there for the next visit. `Fairness` adds that time
passes, and that a check or a release that is tried for ever does not fail for ever
(`RetriesSucceed`). Nothing is assumed of authors, deploys, stops or of a release whose caller is
gone. `UndisturbedSpec` leaves out the failures, deploys and time, so that only the renewal checks
can correct anything; its visits do not end either. While nothing expires, a pause of one instance
is nothing but steps of the other: what it was at is still to be done when it is visited again.
With pauses the instance has a million states and more, too many for the run. `Fairness` is the premise of `HealsIfVisited` and
no part of `Spec`, because `ReleasesArePaced` must hold without it. The fairness of
`CommandsReturn` needs no such premise: a command runs while the request that made it is in
service.

`Recovers` assumes, besides visitors: that a process which starts is, in the end, stopped only by
its own refusal or by the probe (`StartsLeftAlone`; one that was probed may be stopped for ever);
that refreshes go on and the sites all answer well now and then (`Proceeds`; every other refresh
may bring anything or nothing, also packets no snapshot can be built from); that the probe, which
asks every three seconds, does not miss every healthy process (`ProbeAsks`); and
`RenewalsSucceed`, that a renewal of packets that are held expired is not beaten by the probe every
time, and that a refresh finds what was released before it expires. Except for the first two,
these are strong fairness of single steps: each may fail any number of times. The last one is a
real assumption, see below.

## Where the code and its documentation disagree

* `publication_settled`. ADR-0060 says a renewal check republishes an export that differs
  from what its sources reconcile to. A check does not look while the export it last
  compared with is live (`publisher.go:117`): after a publication that failed, every check
  returns at once until the export is due, a day after it was published.
* `credentials_decode`. A credential is said to be something that can be listed and revoked.
  A revocation or a use dated by a clock behind the creating instance's is stored, and the
  document is refused whenever it is read again: the credential cannot be looked up, nor
  can its tenant's be listed, and one that was used that way cannot be revoked.

In the first case the site is corrected when the export becomes due: `publication_heals` has
such histories among its behaviours and converges.

Other places where a comment or a document says more than the code does are visible in the
models without a run of their own.

* A deploy uploads one file twice; a publisher that released over the first upload takes the
  second for its own release not having caught up (`publisher.go:128`) and waits until the export
  is due. The comment on `released` (`publisher.go:44-46`) says that it tells the two apart, and
  `docs/roadmap.md:58-60` that the service's next check notices the second upload and corrects it.
* A release is not tied to the version it cloned: a deploy between clone and release has its
  frontend put back (`hosting.go:28-30` and `:52`).
* An expired export of the service's own "cannot stop the one process able to renew it from
  starting" (`runtimeexport/reader.go:410-412`; ADR-0060, `docs/decisions.md:105-122`, and
  `docs/state-of-the-product.md:58-59`). It does not stop the startup check. But `/healthz` answers
  503 while that export is held expired (`surface/handler.go:340`), the startup probe asks
  `/healthz`, and it ends the process after ten failures at three seconds
  (`infra/deploy/main.tf:83-92`), where a renewal may take two minutes
  (`cmd/tracker-web/main.go:26`). So the process starts for good only if its renewal and
  refresh are faster than the probe, or the release outlives it. Without `RenewalsSucceed` TLC
  finds the loop in which every process starts, holds the expired export and is ended.

## What is proved

For any numbers of trackers, packets, tenants and actors, any `MaxVersion`, any
`MaxLate`, from `NoneAssumption` and `BoundsAssumption` alone:

* `ProjectAppend`: projecting a stream extended by one accepted event is applying that
  event. The cache's shortcut in `appendLocked` rests on it.
* `ReplayTypeOK`, `ReplayAgrees`: the replay loop computes the closed form. The
  invariant is the property itself with the type invariant.
* `ReplayWellFormed`: `Spec => []WellFormedStream`, at every length of a stream. The packet
  remembers what its stream holds (`PacketRemembers`: as many versions as events, a taker if
  one was taken, a closure if it was closed), and the guards of `applyEvent` look at nothing
  else.
* `TrackerTypeOK`: `Spec => []TypeOK`. Inductive once it also says that a loading tracker
  supersedes, and that no request holds more than two events of one stream (`TypeInv`).
* `TrackerLogReplays`: `Spec => []LogReplays`. The property says nothing of an append
  under way, so `StoreInv` adds that each append that may yet reach the store, late ones
  included, is *sound*: it expects no more than the store has, and *if it is still
  current*, some command would be admitted against the store as it is and would append
  precisely its events. A commit elsewhere either leaves the touched streams alone, and
  the append stays backed by the same command, or lengthens one, and it can never be
  current again. What a supersession holds between its two queries is a prefix of the
  store (`HeldIsPast`); if both prefixes are as long as the streams they are the streams,
  however torn the load was. Every action is one of three kinds of step (quiet, deciding,
  appending), with one lemma each.
* `TrackerImplementsLedger`: `Spec => ImplementsLedger`. Only an append changes the log
  (`OnlyAppendsChangeLog`), and `StoreInv` says that one that is in time carries the events
  of a command admitted against the log as it stands. What one or two accepted events do to a
  packet is computed once (`Taking`, `Finishing`, `Superseding` and the like in
  `Packet_proofs`), and each result is the effect of one operation of the ledger
  (`AppendIsOperation`). `Promises` is `PacketLedger_proofs` instantiated with the packets the
  streams replay to, so what is proved of the ledger can be cited of the store.
* `TrackerLinksAgree`, `TrackerMutationsAreWhole`, `TrackerClosedIsFinal`: more consequences
  of the refinement. The first is the ledger's own invariant, seen from the store. The others
  follow from what one step of the ledger may do to one packet (`Lifecycle`): it keeps a whole
  packet whole, and gives a closed one nothing but comments.
* `TrackerWrittenOnce`: the same `Lifecycle`, with one conjunct more to each kind of step:
  nothing but an issue writes a tenant or a parent, and a take needs a packet nobody took. That
  an open packet has no replacement comes from `PacketsAreWhole`.
* `TrackerLineages`: the ledger's two promises on lineages, said of the store. `PromisesInv`, the
  invariant of `PacketLedger_proofs` under the refinement mapping, is kept by every step of a
  tracker because each is a step of the ledger or none.
* `TrackerAcknowledgedApart`. Of two commits the later one must have been decided on a stream
  that held the earlier one's events. `Landed` adds that: from its commit to its answer, the
  events of an append lie within the stream, which only grows; and a commit that is in time
  expects the stream's very end (`CommitLands`).
* `TrackerCacheIsPast`, `TrackerCommittedOnTop`. Neither says anything of an append on its way,
  and that is where an acknowledged append could spoil the cache. `CacheInv` adds that, from the
  decision of a command to its answer, its tracker caches streams as long as the append
  expects, whose packets accept its events. A commit that is in time then finds the log
  equal to the cached streams, and whatever is committed later only extends it.
* `LedgerTypeOK`, `LedgerLinksAgree`, `LedgerLineageIsFounded`, `LedgerOneOpenPerLineage`: the
  types and the supersession
  promises of the ledger. The invariant adds that an unissued packet has no links and that
  a packet which names its replacement is closed; the second rules out a replacement
  being named twice, the first a cycle. That an open packet is the only open one of its
  lineage then follows: its ancestry is closed under links, and all of it but the packet
  itself has a replacement.

For credentials, from `CredentialsAssumption` alone, whatever the clocks show:

* `CredentialsTypeOK`, `RevocationsAlwaysAgree`, `UseIsAlwaysRecorded`: one invariant,
  `Inv`. What an answer says of a revocation has to survive every later write, so the
  invariant says which documents the requests under way are about: a creation's is not
  there yet and no other request knows its id (`Unknown`), every other one's is there
  (`Known`), and its last use is before its expiry (`UsedInTime`). Every step sends a
  request, writes a document that keeps what the earlier one says of its revocation and last
  use, or writes nothing: `SendInv`, `WriteInv`, `QuietInv`.
* `RevocationIsAlwaysFinal`: from the same invariant, by the same three kinds of step.
* `OneClockManageable`: with one instance, every document decodes. `OneClockInv` adds that
  no time on its way to the store is ahead of the clock or behind the creation of the
  credential it is for. That there is one clock is an assumption of the theorem, and
  `credentials_decode` shows that it is needed.

For exports, from `NoneAssumption` alone:

* `ExportTypeOK`, `ExportIsAlwaysAMoment`. `BuildFollows` ties a build to the ledger: what was
  listed has the links of a ledger of one moment (`Moment`), and every history read since, like
  the ledger itself, is that packet or one of a higher version (`Follows`), because an
  operation that changes a packet raises its version. So a history as long as its record's
  version is that record's. That no record an earlier export had of the ledger survives needs
  `LiveIsOld`: a packet is never taken out of the ledger.
* `UnclaimedIsAlwaysTakeable`, from the ledger's invariant that a packet which names its
  replacement is closed, and `ClosedForAReason`: a closed one is done or names its replacement.

For drafts, from `NoneAssumption` alone:

* `FrozenAlwaysAsSeen`. The property says nothing of an issue under way; the invariant adds
  that each call, late ones included, carries the version of the draft it names, and that
  the versions of a draft only ever get longer, so that what a call or a packet was made from
  stays where it was.
* `IssuedDraftIsAlwaysPacket`: while an instance is at an issue, nothing else touches its
  draft, so the version that was committed is still the last when the answer comes.
* `LineageAlwaysStaysInTenant`: the tenant of a draft's parent is the draft's tenant from its
  creation on, since a packet's tenant never changes.
* `AuthoringKeepsTypes`, `IssuedDraftAlwaysStays` from the same invariant.

For the reader, from `TicksAssumption` and `NoneAssumption`:

* `SnapshotIsAlwaysHeld`. While a process starts it may hold packets without a snapshot: a first
  refresh can bring packets and no directory. `Linked` therefore says when there is a snapshot,
  from the first refresh on: if packets and directory are held, or if the directory is and the
  packets' site says it has none; and that a process that is up has a directory, which the
  startup check asks for and which no refresh drops.
* `ReaderTypeOK`, `ReadyAlwaysHasSnapshot`, `HealthyAlwaysAnswers` and
  `PacketsAlwaysStayShown` from the same invariant; the last one because a copy that is held is
  replaced, never dropped.

For publication, from `PublicationAssumption` and for any number of instances, changes, deploys,
stops and lost releases:

* `PublicationTypeOK`. That a call, a reader, a deploy or the site shows no change the store
  does not have is inductive once it is also said of the changes that wait to be published
  (`InstanceSound`) and of what a call has prepared; most of the work is that a new export gets
  an id nothing refers to. `InUse` is the range of seven functions on the instances and four more
  ids, so it is smaller than `Copies` (`RangeIsSmall`, `UnionIsSmall`, `FourAreFew`) and the least
  id outside it is there (`SpareCopy`, `FreshIsSpare`). With that, an id is given only to the
  export that is being made, and every export referred to stays what it was.
* `ReleaseAlwaysGoesForward`, from the same invariant (`PublicationInv`). The site shows no more
  than the store (`ShownInStore`), so an export prepared from the store of that moment is ahead
  of whatever is live, and of whatever comes to be live before its release: with one
  instance (`OnlyWriterLeads`) the only others to write the site are a deploy and a release that
  lands late, and both put there what was made earlier. With two instances it is false, and meant
  to be: the renewal check of the one corrects the other, which is `ConvergesIfVisited`.

Only model-checked: liveness (`CommandsReturn`, `ConvergesIfVisited`, `HealsIfVisited`,
`ReleasesArePaced`, `Recovers`), which is out of the prover's reach under fairness. Every
invariant and every action property of a passing run is a theorem. By `TrackerImplementsLedger` what is proved of the ledger, and of
the exports and drafts that `Export` and `Authoring` put on it, is about the packets the
trackers keep in the store. The step from the one module to the other is by reading: `Export`
and `Authoring` compose with the ledger and not with `Tracker`.

## Plan

In order of importance; each module comes with its runs and, where noted, theorems.

1. Ledger, replay, tracker: done, every safety property and the refinement proved.
2. Publication: done, its type invariant and the order of its releases proved; its liveness stays
   with TLC.
3. Agent credentials, exports, authoring and reader: done, every safety property proved.
4. Pure operators: rollback policy and run tags, against reference definitions over bounded
   inputs.

## Not modelled

JSON and Firestore encodings, HTTP routing and error texts, signature verification and its key
cache, digests (an export's digest is its content), the tenants and scopes a directory lists,
the parser of the repository's packet files, the web application, Terraform and workflow
files, one-shot command line tools and pipeline guards. They keep no state of their own, or
only state that another component decides on. The grouping of packets into initiatives and
epics is a function of one snapshot without a state; of it only the rule for unclaimed packets
is modelled, because it has to agree with another part of the program.
