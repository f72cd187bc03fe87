------------------------------ MODULE Tracker ------------------------------
(***************************************************************************)
(* Package packet's Tracker: several tracker instances (the Cloud Run      *)
(* service runs up to two, and scales to zero) that share one event store  *)
(* (packet/store.go in memory, eventstore/firestore.go in production).     *)
(*                                                                         *)
(* A tracker holds its lock for a whole command, so one tracker runs one   *)
(* command at a time; between the command's queries of the store and its   *)
(* append any other tracker may do anything.  A command is therefore cut   *)
(* at its calls of the store and nowhere else:                             *)
(*                                                                         *)
(*   idle --> loading --> appending --> committed --> idle                 *)
(*                             |    \-> refused  --> recovering --> idle   *)
(*                             \-----> (timeout)  -/                       *)
(*                                                                         *)
(* The answer to an append can be lost or late: the tracker then does not  *)
(* know whether its events are in the store, and the write may still land  *)
(* after it gave up.                                                       *)
(***************************************************************************)
EXTENDS Packet, FiniteSets, SequencesExt

CONSTANTS
    Trackers,       \* the tracker instances
    MaxVersion,     \* bound: no command appends beyond this version of a stream
    MaxLate         \* bound: abandoned appends that may still reach the store

ASSUME BoundsAssumption == MaxVersion \in Nat /\ MaxLate \in Nat

VARIABLES
    log,            \* the event store: each packet's stream
    late,           \* appends whose caller gave up and which may still commit
    phase,          \* where each tracker is in its current command
    command,        \* the command it runs, while it loads
    request,        \* the append it made, from then on
    unread,         \* the streams a load has still to query
    held,           \* the streams a load has queried, until the last one arrives
    streams,        \* Tracker.streams: the cached streams
    projection,     \* Tracker.projection: the cached packets
    ready           \* Tracker.projectionReady

storeVars == <<log, late>>
callVars  == <<phase, command, request, unread, held>>
cacheVars == <<streams, projection, ready>>
vars      == <<storeVars, callVars, cacheVars>>

-----------------------------------------------------------------------------
(* Commands. *)

Command ==
    [op : {"none", "issue", "take", "comment", "transition", "supersede"},
     packet : PacketIDs \cup {None},
     expected : Nat,                        \* the version the caller observed
     actor : Actors \cup {None},
     tenant : TenantIDs \cup {None},
     to : Statuses \cup {None},
     attached : Attachments,                \* a comment's text, a transition's evidence
     replacement : PacketIDs \cup {None}]

NoCommand ==
    [op |-> "none", packet |-> None, expected |-> 0, actor |-> None, tenant |-> None,
     to |-> None, attached |-> "absent", replacement |-> None]

\* Fault: the tenant is not carried into the issue.
IssueCommandWithoutTenant(p, a, tenant) ==
    [NoCommand EXCEPT !.op = "issue", !.packet = p, !.actor = a]

IssueCommand(p, a, tenant) ==
    [NoCommand EXCEPT !.op = "issue", !.packet = p, !.actor = a, !.tenant = tenant]
TakeCommand(p, v, a) ==
    [NoCommand EXCEPT !.op = "take", !.packet = p, !.expected = v, !.actor = a]
CommentCommand(p, v, a, text) ==
    [NoCommand EXCEPT !.op = "comment", !.packet = p, !.expected = v, !.actor = a,
                      !.attached = text]
TransitionCommand(p, v, a, to, evidence) ==
    [NoCommand EXCEPT !.op = "transition", !.packet = p, !.expected = v, !.actor = a,
                      !.to = to, !.attached = evidence]
SupersedeCommand(p, v, a, r, tenant) ==
    [NoCommand EXCEPT !.op = "supersede", !.packet = p, !.expected = v, !.actor = a,
                      !.replacement = r, !.tenant = tenant]

\* The streams a command loads and appends to.
Targets(c) == {c.packet} \cup ({c.replacement} \ {None})

NoStreams == [p \in PacketIDs |-> <<>>]

\* The events a command appends to the stream of its own packet, given the status that
\* packet projects to.
OwnEvents(c, status) ==
    CASE c.op = "issue" ->
           <<PacketIssued(c.packet, c.actor, c.tenant, None)>>
      [] c.op = "take" ->
           <<PacketTaken(c.packet, c.actor),
             PacketStatusTransitioned(c.packet, c.actor, status, InProgress, "absent")>>
      [] c.op = "comment" ->
           <<PacketCommented(c.packet, c.actor, c.attached)>>
      [] c.op = "transition" /\ c.to # Done ->
           <<PacketStatusTransitioned(c.packet, c.actor, status, c.to, c.attached)>>
      [] c.op = "transition" /\ c.to = Done ->
           <<PacketStatusTransitioned(c.packet, c.actor, status, Done, c.attached),
             PacketClosed(c.packet, c.actor, ReasonDone)>>
      [] c.op = "supersede" ->
           <<PacketSuperseded(c.packet, c.actor, c.replacement),
             PacketClosed(c.packet, c.actor, ReasonSuperseded)>>

\* The events it appends to each stream: a supersession also issues the replacement.
Batch(c, status) ==
    [p \in PacketIDs |->
       IF p = c.packet THEN OwnEvents(c, status)
       ELSE IF p = c.replacement
            THEN <<PacketIssued(p, c.actor, c.tenant, c.packet)>>
            ELSE <<>>]

\* appendLocked's working copy after a batch; no command appends more than two events
\* to one stream.
ApplyBatch(pkt, batch) ==
    CASE Len(batch) = 0 -> pkt
      [] Len(batch) = 1 -> ApplyEvent(pkt, batch[1])
      [] Len(batch) = 2 -> ApplyEvent(ApplyEvent(pkt, batch[1]), batch[2])

AcceptsBatch(pkt, batch) ==
    \A i \in 1..Len(batch) : Accepts(ApplyBatch(pkt, SubSeq(batch, 1, i - 1)), batch[i])

-----------------------------------------------------------------------------
(* The store. *)

Request == [expected : [PacketIDs -> Nat], batch : [PacketIDs -> Seq(Event)]]

NoRequest == [expected |-> [p \in PacketIDs |-> 0], batch |-> NoStreams]

Touched(r) == {p \in PacketIDs : r.batch[p] # <<>>}

\* Fault: the store appends without comparing versions.
AlwaysCurrent(r) == TRUE

\* Fault: a stream the caller expects to be absent is not compared.
CurrentIfPresent(r) ==
    \A p \in Touched(r) : r.expected[p] # 0 => r.expected[p] = Len(log[p])

\* Every stream the append touches is still at the version its caller loaded.
Current(r) == \A p \in Touched(r) : r.expected[p] = Len(log[p])

\* Fault: the append stops after the first event of each stream.
AppendFirstToLog(r) ==
    log' = [p \in PacketIDs |->
              IF p \in Touched(r) THEN Append(log[p], r.batch[p][1]) ELSE log[p]]

AppendToLog(r) == log' = [p \in PacketIDs |-> log[p] \o r.batch[p]]

-----------------------------------------------------------------------------
(* A tracker's cache. *)

\* refreshLocked(true, targets...) over the streams just read; an error leaves the
\* cache as it was.
Refresh(t, targets, read) ==
    /\ UNCHANGED ready
    /\ IF \A p \in targets : Replays(read[p])
       THEN /\ streams' = [streams EXCEPT ![t] =
                 [p \in PacketIDs |-> IF p \in targets THEN read[p] ELSE @[p]]]
            /\ projection' = [projection EXCEPT ![t] =
                 [p \in PacketIDs |-> IF p \in targets THEN Project(read[p]) ELSE @[p]]]
       ELSE UNCHANGED <<streams, projection>>

\* refreshLocked(true): every stream, in one query.
Reload(t) ==
    IF \A p \in PacketIDs : Replays(log[p])
    THEN /\ streams' = [streams EXCEPT ![t] = log]
         /\ projection' = [projection EXCEPT ![t] = [p \in PacketIDs |-> Project(log[p])]]
         /\ ready' = [ready EXCEPT ![t] = TRUE]
    ELSE UNCHANGED cacheVars

BecomeIdle(t) ==
    /\ phase'   = [phase EXCEPT ![t] = "idle"]
    /\ command' = [command EXCEPT ![t] = NoCommand]
    /\ request' = [request EXCEPT ![t] = NoRequest]
    /\ unread'  = [unread EXCEPT ![t] = {}]
    /\ held'    = [held EXCEPT ![t] = NoStreams]

\* What a command checks against the streams it just loaded: its version, that the
\* packet is there, that a packet it would issue is not, and every event it would append.
Admits(c, read) ==
    LET pkt == Project(read[c.packet])
        batch == Batch(c, pkt.status)
    IN  /\ \A p \in Targets(c) : Replays(read[p])
        /\ IF c.op = "issue" THEN read[c.packet] = <<>>
           ELSE Len(read[c.packet]) = c.expected /\ read[c.packet] # <<>>
        /\ c.op = "supersede" => read[c.replacement] = <<>>
        /\ \A p \in Targets(c) : /\ AcceptsBatch(Project(read[p]), batch[p])
                                 /\ Len(read[p]) + Len(batch[p]) <= MaxVersion

\* The command has its streams: it refreshes the cache, then either hands its append to
\* the store or returns an error.  A command it would admit can still fail, when the
\* tenant directory does not know the tenant or no event id can be drawn.
Decide(t, c, read) ==
    /\ Refresh(t, Targets(c), read)
    /\ \/ /\ Admits(c, read)
          /\ phase'   = [phase EXCEPT ![t] = "appending"]
          /\ command' = [command EXCEPT ![t] = NoCommand]
          /\ request' = [request EXCEPT ![t] =
               [expected |-> [p \in PacketIDs |->
                                IF p \in Targets(c) THEN Len(read[p]) ELSE 0],
                batch    |-> Batch(c, Project(read[c.packet]).status)]]
          /\ unread'  = [unread EXCEPT ![t] = {}]
          /\ held'    = [held EXCEPT ![t] = NoStreams]
       \/ BecomeIdle(t)

-----------------------------------------------------------------------------
(* Commands: the first query belongs to the step that starts the command, for a command *)
(* reads nothing shared before it.  A first query that fails changes nothing at all.    *)

Begin(t, c) ==
    /\ phase[t] = "idle"
    /\ ready[t]
    /\ LET read == [NoStreams EXCEPT ![c.packet] = log[c.packet]]
       IN  IF Targets(c) = {c.packet} THEN Decide(t, c, read)
           ELSE /\ phase'   = [phase EXCEPT ![t] = "loading"]
                /\ command' = [command EXCEPT ![t] = c]
                /\ unread'  = [unread EXCEPT ![t] = Targets(c) \ {c.packet}]
                /\ held'    = [held EXCEPT ![t] = read]
                /\ UNCHANGED <<request, cacheVars>>
    /\ UNCHANGED storeVars

\* The versions a caller may have observed.  A command is refused alike for any version
\* but the loaded one, so one stale version stands for all of them.
Observed(p) == {Len(log[p])} \cup (IF log[p] = <<>> THEN {} ELSE {Len(log[p]) - 1})

Issue(t) ==
    \E p \in PacketIDs, a \in Actors, tenant \in TenantIDs :
      Begin(t, IssueCommand(p, a, tenant))

Take(t) ==
    \E p \in PacketIDs, a \in Actors : \E v \in Observed(p) : Begin(t, TakeCommand(p, v, a))

Comment(t) ==
    \E p \in PacketIDs, a \in Actors, text \in {"blank", "given"} :
      \E v \in Observed(p) : Begin(t, CommentCommand(p, v, a, text))

Transition(t) ==
    \E p \in PacketIDs, a \in Actors, to \in Statuses, evidence \in Attachments :
      \E v \in Observed(p) : Begin(t, TransitionCommand(p, v, a, to, evidence))

\* A packet superseding itself is refused after one query, like a replacement that exists.
Supersede(t) ==
    \E p \in PacketIDs, r \in PacketIDs, a \in Actors, tenant \in TenantIDs :
      \E v \in Observed(p) : r # p /\ Begin(t, SupersedeCommand(p, v, a, r, tenant))

\* The second query of a supersession: Firestore reads one stream per query, so another
\* tracker may have appended to either stream since the first.
LoadReplacement(t) ==
    /\ phase[t] = "loading"
    /\ \E p \in unread[t] : Decide(t, command[t], [held[t] EXCEPT ![p] = log[p]])
    /\ UNCHANGED storeVars

LoadFails(t) ==
    /\ phase[t] = "loading"
    /\ BecomeIdle(t)
    /\ UNCHANGED <<storeVars, cacheVars>>

-----------------------------------------------------------------------------
(* The append. *)

\* The store's transaction: compare every touched stream's version, then append all.
Commit(t) ==
    /\ phase[t] = "appending"
    /\ Current(request[t])
    /\ AppendToLog(request[t])
    /\ phase' = [phase EXCEPT ![t] = "committed"]
    /\ UNCHANGED <<late, command, request, unread, held, cacheVars>>

\* A version moved (ConflictError), or the store failed without committing.
Refuse(t) ==
    /\ phase[t] = "appending"
    /\ phase' = [phase EXCEPT ![t] = "refused"]
    /\ UNCHANGED <<storeVars, command, request, unread, held, cacheVars>>

\* Fault: the streams follow and the projection does not.
AcknowledgeStreams(t) ==
    /\ phase[t] = "committed"
    /\ streams' = [streams EXCEPT ![t] = [p \in PacketIDs |-> @[p] \o request[t].batch[p]]]
    /\ BecomeIdle(t)
    /\ UNCHANGED <<storeVars, projection, ready>>

\* Append returned nil: the cache follows and the caller gets the new packet.
Acknowledge(t) ==
    /\ phase[t] = "committed"
    /\ streams' = [streams EXCEPT ![t] = [p \in PacketIDs |-> @[p] \o request[t].batch[p]]]
    /\ projection' = [projection EXCEPT ![t] =
         [p \in PacketIDs |-> ApplyBatch(@[p], request[t].batch[p])]]
    /\ BecomeIdle(t)
    /\ UNCHANGED <<storeVars, ready>>

\* Append returned an error, whatever became of the events: the tracker loads the streams
\* it touched again before it returns that error.
Recover(t) ==
    /\ phase'  = [phase EXCEPT ![t] = "recovering"]
    /\ unread' = [unread EXCEPT ![t] = Touched(request[t])]
    /\ UNCHANGED <<command, request, held>>

\* Fault: an append that was refused is made again until it succeeds.
AppendAgain(t) ==
    /\ phase[t] = "refused"
    /\ phase' = [phase EXCEPT ![t] = "appending"]
    /\ UNCHANGED <<storeVars, command, request, unread, held, cacheVars>>

LearnRefusal(t) ==
    /\ phase[t] = "refused"
    /\ Recover(t)
    /\ UNCHANGED <<storeVars, cacheVars>>

\* An append still on its way when its caller gives up either never arrives or arrives
\* later.
Abandon(t) ==
    \/ UNCHANGED late
    \/ /\ Cardinality(late) < MaxLate
       /\ late' = late \cup {request[t]}

\* Append returned an error that does not say what became of the events: the operation's
\* deadline passed, or the answer to its commit was lost.
TimeOut(t) ==
    /\ phase[t] \in {"appending", "committed"}
    /\ IF phase[t] = "appending" THEN Abandon(t) ELSE UNCHANGED late
    /\ Recover(t)
    /\ UNCHANGED <<log, cacheVars>>

CommitLate(r) ==
    /\ r \in late
    /\ Current(r)
    /\ AppendToLog(r)
    /\ late' = late \ {r}
    /\ UNCHANGED <<callVars, cacheVars>>

LoseLate(r) ==
    /\ r \in late
    /\ late' = late \ {r}
    /\ UNCHANGED <<log, callVars, cacheVars>>

\* The queries of that reload; its result is ignored, a failure of it included.
Reread(t) ==
    /\ phase[t] = "recovering"
    /\ \E p \in unread[t] :
         LET read == [held[t] EXCEPT ![p] = log[p]]
         IN  IF unread[t] = {p}
             THEN Refresh(t, Touched(request[t]), read) /\ BecomeIdle(t)
             ELSE /\ held'   = [held EXCEPT ![t] = read]
                  /\ unread' = [unread EXCEPT ![t] = @ \ {p}]
                  /\ UNCHANGED <<phase, command, request, cacheVars>>
    /\ UNCHANGED storeVars

RereadFails(t) ==
    /\ phase[t] = "recovering"
    /\ BecomeIdle(t)
    /\ UNCHANGED <<storeVars, cacheVars>>

-----------------------------------------------------------------------------
(* Reads, the disposable projection, and the process. *)

\* Packet, and History with a projection.
ReadPacket(t) ==
    /\ phase[t] = "idle" /\ ready[t]
    /\ \E p \in PacketIDs : Refresh(t, {p}, log)
    /\ UNCHANGED <<storeVars, callVars>>

\* History without a projection refreshes the stream alone.
ReadHistoryUnprojected(t) ==
    /\ phase[t] = "idle" /\ ~ready[t]
    /\ \E p \in PacketIDs : streams' = [streams EXCEPT ![t][p] = log[p]]
    /\ UNCHANGED <<storeVars, callVars, projection, ready>>

\* Packets.
ReadPackets(t) ==
    /\ phase[t] = "idle" /\ ready[t]
    /\ Reload(t)
    /\ UNCHANGED <<storeVars, callVars>>

DropProjection(t) ==
    /\ phase[t] = "idle"
    /\ projection' = [projection EXCEPT ![t] = [p \in PacketIDs |-> NoPacket]]
    /\ ready' = [ready EXCEPT ![t] = FALSE]
    /\ UNCHANGED <<storeVars, callVars, streams>>

RebuildProjection(t) ==
    /\ phase[t] = "idle"
    /\ Reload(t)
    /\ UNCHANGED <<storeVars, callVars>>

\* The instance is stopped, at any point of a command.
Crash(t) ==
    /\ phase[t] # "down"
    /\ IF phase[t] = "appending" THEN Abandon(t) ELSE UNCHANGED late
    /\ phase'      = [phase EXCEPT ![t] = "down"]
    /\ command'    = [command EXCEPT ![t] = NoCommand]
    /\ request'    = [request EXCEPT ![t] = NoRequest]
    /\ unread'     = [unread EXCEPT ![t] = {}]
    /\ held'       = [held EXCEPT ![t] = NoStreams]
    /\ streams'    = [streams EXCEPT ![t] = NoStreams]
    /\ projection' = [projection EXCEPT ![t] = [p \in PacketIDs |-> NoPacket]]
    /\ ready'      = [ready EXCEPT ![t] = FALSE]
    /\ UNCHANGED log

\* NewTrackerWithStore: a tracker that cannot rebuild its projection does not start.
Start(t) ==
    /\ phase[t] = "down"
    /\ Reload(t)
    /\ phase' = [phase EXCEPT ![t] = IF \A p \in PacketIDs : Replays(log[p])
                                    THEN "idle" ELSE "down"]
    /\ UNCHANGED <<storeVars, command, request, unread, held>>

-----------------------------------------------------------------------------
Init ==
    /\ log        = NoStreams
    /\ late       = {}
    /\ phase      = [t \in Trackers |-> "down"]
    /\ command    = [t \in Trackers |-> NoCommand]
    /\ request    = [t \in Trackers |-> NoRequest]
    /\ unread     = [t \in Trackers |-> {}]
    /\ held       = [t \in Trackers |-> NoStreams]
    /\ streams    = [t \in Trackers |-> NoStreams]
    /\ projection = [t \in Trackers |-> [p \in PacketIDs |-> NoPacket]]
    /\ ready      = [t \in Trackers |-> FALSE]

\* The steps that carry a started command to its return.
Progress(t) ==
    \/ LoadReplacement(t) \/ LoadFails(t)
    \/ Commit(t) \/ Refuse(t) \/ Acknowledge(t) \/ LearnRefusal(t) \/ TimeOut(t)
    \/ Reread(t) \/ RereadFails(t)

Call(t) ==
    \/ Issue(t) \/ Take(t) \/ Comment(t) \/ Transition(t) \/ Supersede(t)
    \/ ReadPacket(t) \/ ReadHistoryUnprojected(t) \/ ReadPackets(t)
    \/ DropProjection(t) \/ RebuildProjection(t)

Next ==
    \/ \E t \in Trackers : Call(t) \/ Progress(t) \/ Crash(t) \/ Start(t)
    \/ \E r \in late : CommitLate(r) \/ LoseLate(r)

Spec == Init /\ [][Next]_vars

\* A call of the store returns or its deadline passes: a command in progress moves on.
FairSpec == Spec /\ \A t \in Trackers : WF_vars(Progress(t))

-----------------------------------------------------------------------------
(* Properties. *)

TypeOK ==
    /\ log \in [PacketIDs -> Seq(Event)]
    /\ late \subseteq Request
    /\ phase \in [Trackers -> {"idle", "loading", "appending", "committed", "refused",
                               "recovering", "down"}]
    /\ command \in [Trackers -> Command]
    /\ request \in [Trackers -> Request]
    /\ unread \in [Trackers -> SUBSET PacketIDs]
    /\ held \in [Trackers -> [PacketIDs -> Seq(Event)]]
    /\ streams \in [Trackers -> [PacketIDs -> Seq(Event)]]
    /\ projection \in [Trackers -> [PacketIDs -> PacketState]]
    /\ ready \in [Trackers -> BOOLEAN]

\* The packet the store's stream of p replays to.
Stored(p) == Project(log[p])

\* Every stream in the store replays without an error, whatever the trackers raced for
\* and whatever appends were lost or late: a tracker can always be started on the store,
\* and RebuildProjection never fails (tracker.go:382, "rebuild %q at version %d").
LogReplays == \A p \in PacketIDs : Replays(log[p])

\* What a tracker caches is never anything but an earlier state of the store: its streams
\* are prefixes of the stored ones, and its packets the replay of those prefixes, also
\* where appendLocked extends both without reading the store again.
CacheIsPast ==
    \A t \in Trackers, p \in PacketIDs :
      /\ IsPrefix(streams[t][p], log[p])
      /\ ready[t] => projection[t][p] = Project(streams[t][p])

\* Once an append is committed, the events its caller will be told of follow directly on
\* the streams the command was decided against: nothing slipped in between.
CommittedOnTop ==
    \A t \in Trackers : phase[t] = "committed" =>
      \A p \in Touched(request[t]) : IsPrefix(streams[t][p] \o request[t].batch[p], log[p])

\* However many commands were decided on the same version of a stream, each event that is
\* in it belongs to one of them: two trackers that are about to tell their callers that they
\* succeeded speak of different events, even where the events read alike.
AcknowledgedApart ==
    \A t, u \in Trackers :
      t # u /\ phase[t] = "committed" /\ phase[u] = "committed" =>
        \A p \in Touched(request[t]) \cap Touched(request[u]) :
          LET First(k) == request[k].expected[p] + 1
              Past(k)  == First(k) + Len(request[k].batch[p])
          IN  Past(t) <= First(u) \/ Past(u) <= First(t)

\* A supersession is whole in both streams or absent from both: a packet names its
\* replacement exactly when the replacement names it as its parent, so no packet has two
\* replacements and none is issued for a parent that went another way.
LinksAgree ==
    \A p, q \in PacketIDs : Stored(p).supersededBy = q <=> Stored(q).parent = p

\* No stream ever ends inside a mutation that appends several events: a done packet is
\* closed as done and carries evidence, a superseded one is closed as superseded, a taken
\* one was started.
MutationsAreWhole ==
    \A p \in PacketIDs :
      LET pkt == Stored(p) IN
      /\ pkt.closure = ReasonDone <=> pkt.status = Done
      /\ pkt.status = Done <=> pkt.evidence = "given"
      /\ pkt.closure = ReasonSuperseded <=> pkt.supersededBy # None
      /\ pkt.takenBy # None => pkt.status \notin {None, NotStarted}

\* A closed packet only ever gains comments, whoever still holds an older version of it.
ClosedIsFinal ==
    [][\A p \in {q \in PacketIDs : log'[q] # log[q]} :
         LET pkt == Stored(p)  new == Project(log'[p])
         IN  pkt.closure # None =>
               /\ pkt.comments \subseteq new.comments
               /\ new = [pkt EXCEPT !.version = new.version, !.comments = new.comments]]_vars

\* What is once known of a packet is never rewritten, whoever raced for it: its tenant and its
\* parent, who took it, what replaced it and why it was closed.  Of two agents that take a
\* packet the one that is told so keeps it.
WrittenOnce ==
    [][\A p \in {q \in PacketIDs : log'[q] # log[q]} :
         LET pkt == Stored(p)  new == Project(log'[p])
         IN  /\ pkt.version # 0 => pkt.tenant = new.tenant /\ pkt.parent = new.parent
             /\ pkt.takenBy \in {None, new.takenBy}
             /\ pkt.supersededBy \in {None, new.supersededBy}
             /\ pkt.closure \in {None, new.closure}]_vars

\* Every change of the store is one whole operation of the ledger: the tracker, with its
\* caches, its races and its failing calls, implements PacketLedger.  (A step that leaves
\* the log leaves the ledger; saying so spares TLC the evaluation of Ledger!Next.)
Ledger == INSTANCE PacketLedger WITH packets <- [p \in PacketIDs |-> Stored(p)]

ImplementsLedger == Ledger!Init /\ [][log' # log => Ledger!Next]_vars

\* A command whose calls of the store fail or hang gives its tracker back.
CommandsReturn ==
    \A t \in Trackers : phase[t] \notin {"idle", "down"} ~> phase[t] \in {"idle", "down"}

=============================================================================
