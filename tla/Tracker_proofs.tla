--------------------------- MODULE Tracker_proofs ---------------------------
(***************************************************************************)
(* Theorems about Tracker, for any number of trackers, packets, tenants    *)
(* and actors.                                                             *)
(***************************************************************************)
EXTENDS Tracker, Packet_proofs, SequenceTheorems

(* The commands the actions of Tracker build. *)
WellFormed(c) ==
    /\ c.packet \in PacketIDs
    /\ c.expected \in Nat
    /\ c.actor \in Actors
    /\ c.attached \in Attachments
    /\ \/ c.op = "issue" /\ c.tenant \in TenantIDs /\ c.replacement = None
       \/ c.op \in {"take", "comment"} /\ c.replacement = None
       \/ c.op = "transition" /\ c.to \in Statuses /\ c.replacement = None
       \/ /\ c.op = "supersede" /\ c.tenant \in TenantIDs
          /\ c.replacement \in PacketIDs \ {c.packet}

(* What TypeOK lacks to be inductive: a loading tracker is superseding, and no request *)
(* carries more than two events of one stream.                                         *)
Small(r) == \A p \in PacketIDs : Len(r.batch[p]) <= 2

TypeInv ==
    /\ TypeOK
    /\ \A t \in Trackers : phase[t] = "loading" =>
         /\ WellFormed(command[t])
         /\ command[t].op = "supersede"
         /\ unread[t] = {command[t].replacement}
    /\ \A r \in late : Small(r)
    /\ \A t \in Trackers : Small(request[t])

-----------------------------------------------------------------------------
(* The operators the actions are built from. *)

LEMMA EventTypes ==
  ASSUME NEW p \in PacketIDs, NEW a \in Actors
  PROVE  /\ \A tenant \in TenantIDs, parent \in PacketIDs \cup {None} :
              PacketIssued(p, a, tenant, parent) \in Event
         /\ PacketTaken(p, a) \in Event
         /\ \A x \in Attachments : PacketCommented(p, a, x) \in Event
         /\ \A from \in Statuses \cup {None}, to \in Statuses, x \in Attachments :
              PacketStatusTransitioned(p, a, from, to, x) \in Event
         /\ \A r \in PacketIDs : PacketSuperseded(p, a, r) \in Event
         /\ \A reason \in CloseReasons : PacketClosed(p, a, reason) \in Event
  BY DEF PacketIssued, PacketTaken, PacketCommented, PacketStatusTransitioned,
         PacketSuperseded, PacketClosed, Event

LEMMA TargetsAre ==
  ASSUME NEW c, WellFormed(c)
  PROVE  /\ Targets(c) \subseteq PacketIDs
         /\ c.packet \in Targets(c)
         /\ c.op # "supersede" => Targets(c) = {c.packet}
         /\ c.op = "supersede" => /\ Targets(c) = {c.packet, c.replacement}
                                  /\ Targets(c) \ {c.packet} = {c.replacement}
  BY NoneAssumption DEF WellFormed, Targets

LEMMA ShortStreams ==
  /\ <<>> \in Seq(Event) /\ Len(<<>>) = 0
  /\ \A e \in Event : <<e>> \in Seq(Event) /\ Len(<<e>>) = 1 /\ <<e>> # <<>>
  /\ \A e, f \in Event : <<e, f>> \in Seq(Event) /\ Len(<<e, f>>) = 2 /\ <<e, f>> # <<>>
  OBVIOUS

LEMMA OwnEventsType ==
  ASSUME NEW c, WellFormed(c), NEW status \in Statuses \cup {None}
  PROVE  /\ OwnEvents(c, status) \in Seq(Event)
         /\ OwnEvents(c, status) # <<>>
         /\ Len(OwnEvents(c, status)) <= 2
<1>1. /\ "absent" \in Attachments /\ InProgress \in Statuses /\ Done \in Statuses
      /\ ReasonDone \in CloseReasons /\ ReasonSuperseded \in CloseReasons
  BY DEF Attachments, Statuses, CloseReasons
<1>2. CASE c.op = "issue"
  <2>1. PacketIssued(c.packet, c.actor, c.tenant, None) \in Event
    BY <1>2, EventTypes DEF WellFormed
  <2> QED BY <1>2, <2>1, ShortStreams DEF OwnEvents
<1>3. CASE c.op = "take"
  <2>1. /\ PacketTaken(c.packet, c.actor) \in Event
        /\ PacketStatusTransitioned(c.packet, c.actor, status, InProgress, "absent") \in Event
    BY <1>1, <1>3, EventTypes DEF WellFormed
  <2> QED BY <1>3, <2>1, ShortStreams DEF OwnEvents
<1>4. CASE c.op = "comment"
  <2>1. PacketCommented(c.packet, c.actor, c.attached) \in Event
    BY <1>4, EventTypes DEF WellFormed
  <2> QED BY <1>4, <2>1, ShortStreams DEF OwnEvents
<1>5. CASE c.op = "transition"
  <2>1. /\ PacketStatusTransitioned(c.packet, c.actor, status, c.to, c.attached) \in Event
        /\ PacketStatusTransitioned(c.packet, c.actor, status, Done, c.attached) \in Event
        /\ PacketClosed(c.packet, c.actor, ReasonDone) \in Event
    BY <1>1, <1>5, EventTypes DEF WellFormed
  <2> QED BY <1>5, <2>1, ShortStreams DEF OwnEvents
<1>6. CASE c.op = "supersede"
  <2>1. /\ PacketSuperseded(c.packet, c.actor, c.replacement) \in Event
        /\ PacketClosed(c.packet, c.actor, ReasonSuperseded) \in Event
    BY <1>1, <1>6, EventTypes DEF WellFormed
  <2> QED BY <1>6, <2>1, ShortStreams DEF OwnEvents
<1> QED BY <1>2, <1>3, <1>4, <1>5, <1>6 DEF WellFormed

LEMMA BatchType ==
  ASSUME NEW c, WellFormed(c), NEW status \in Statuses \cup {None}
  PROVE  /\ Batch(c, status) \in [PacketIDs -> Seq(Event)]
         /\ \A p \in PacketIDs : Len(Batch(c, status)[p]) <= 2
         /\ \A p \in PacketIDs : Batch(c, status)[p] # <<>> <=> p \in Targets(c)
<1>1. ASSUME NEW p \in PacketIDs
      PROVE  /\ Batch(c, status)[p] \in Seq(Event)
             /\ Len(Batch(c, status)[p]) <= 2
             /\ Batch(c, status)[p] # <<>> <=> p \in Targets(c)
  <2>1. CASE p = c.packet
    BY <2>1, OwnEventsType, TargetsAre DEF Batch
  <2>2. CASE p # c.packet /\ p = c.replacement
    <3>1. PacketIssued(p, c.actor, c.tenant, c.packet) \in Event
      BY <2>2, NoneAssumption, EventTypes DEF WellFormed
    <3>2. p \in Targets(c)
      BY <2>2, NoneAssumption DEF Targets
    <3> QED BY <2>2, <3>1, <3>2, ShortStreams DEF Batch
  <2>3. CASE p # c.packet /\ p # c.replacement
    BY <2>3, ShortStreams DEF Batch, Targets
  <2> QED BY <2>1, <2>2, <2>3
<1>2. Batch(c, status) = [p \in PacketIDs |-> Batch(c, status)[p]]
  BY DEF Batch
<1>3. Batch(c, status) \in [PacketIDs -> Seq(Event)]
  BY <1>1, <1>2
<1> QED BY <1>1, <1>3

-----------------------------------------------------------------------------
(* The type invariant.  Its parts: the store, the calls in progress and the caches. *)

StoreType == log \in [PacketIDs -> Seq(Event)] /\ late \subseteq Request /\ \A r \in late : Small(r)

CallType ==
    /\ phase \in [Trackers -> {"idle", "loading", "appending", "committed", "refused",
                               "recovering", "down"}]
    /\ command \in [Trackers -> Command]
    /\ request \in [Trackers -> Request]
    /\ unread \in [Trackers -> SUBSET PacketIDs]
    /\ held \in [Trackers -> [PacketIDs -> Seq(Event)]]
    /\ \A t \in Trackers : phase[t] = "loading" =>
         /\ WellFormed(command[t])
         /\ command[t].op = "supersede"
         /\ unread[t] = {command[t].replacement}
    /\ \A t \in Trackers : Small(request[t])

CacheType ==
    /\ streams \in [Trackers -> [PacketIDs -> Seq(Event)]]
    /\ projection \in [Trackers -> [PacketIDs -> PacketState]]
    /\ ready \in [Trackers -> BOOLEAN]

LEMMA TypeInvParts == TypeInv <=> StoreType /\ CallType /\ CacheType
  BY DEF TypeInv, TypeOK, StoreType, CallType, CacheType

LEMMA TypeInvPartsNext == TypeInv' <=> StoreType' /\ CallType' /\ CacheType'
  BY DEF TypeInv, TypeOK, StoreType, CallType, CacheType

LEMMA DefaultTypes ==
  /\ NoStreams \in [PacketIDs -> Seq(Event)]
  /\ NoCommand \in Command
  /\ NoRequest \in Request
  /\ Small(NoRequest)
<1>1. NoStreams \in [PacketIDs -> Seq(Event)]
  BY ShortStreams DEF NoStreams
<1>2. NoCommand \in Command
  BY DEF NoCommand, Command, Attachments
<1>3. NoRequest \in Request
  BY <1>1 DEF NoRequest, Request
<1>4. Small(NoRequest)
  BY ShortStreams DEF NoRequest, Small, NoStreams
<1> QED BY <1>1, <1>2, <1>3, <1>4

LEMMA BecomeIdleType ==
  ASSUME CallType, NEW t \in Trackers, BecomeIdle(t)
  PROVE  CallType'
  BY DefaultTypes DEF CallType, BecomeIdle

LEMMA RefreshType ==
  ASSUME CacheType, NEW t \in Trackers, NEW targets \in SUBSET PacketIDs,
         NEW read \in [PacketIDs -> Seq(Event)], Refresh(t, targets, read)
  PROVE  CacheType'
<1>1. \A p \in PacketIDs : read[p] \in Seq(Event) /\ Project(read[p]) \in PacketState
  BY ProjectType
<1>2. CASE \A p \in targets : Replays(read[p])
  <2> DEFINE ns == [p \in PacketIDs |-> IF p \in targets THEN read[p] ELSE streams[t][p]]
             np == [p \in PacketIDs |-> IF p \in targets THEN Project(read[p])
                                        ELSE projection[t][p]]
  <2>1. ns \in [PacketIDs -> Seq(Event)] /\ np \in [PacketIDs -> PacketState]
    BY <1>1 DEF CacheType
  <2>2. /\ streams' = [streams EXCEPT ![t] = ns]
        /\ projection' = [projection EXCEPT ![t] = np]
        /\ ready' = ready
    BY <1>2 DEF Refresh
  <2> HIDE DEF ns, np
  <2> QED BY <2>1, <2>2 DEF CacheType
<1>3. CASE ~ \A p \in targets : Replays(read[p])
  BY <1>3 DEF Refresh, CacheType
<1> QED BY <1>2, <1>3

LEMMA ReloadType ==
  ASSUME StoreType, CacheType, NEW t \in Trackers, Reload(t)
  PROVE  CacheType'
<1>1. \A p \in PacketIDs : log[p] \in Seq(Event) /\ Project(log[p]) \in PacketState
  BY ProjectType DEF StoreType
<1>2. CASE \A p \in PacketIDs : Replays(log[p])
  <2> DEFINE np == [p \in PacketIDs |-> Project(log[p])]
  <2>1. np \in [PacketIDs -> PacketState]
    BY <1>1
  <2>2. /\ streams' = [streams EXCEPT ![t] = log]
        /\ projection' = [projection EXCEPT ![t] = np]
        /\ ready' = [ready EXCEPT ![t] = TRUE]
    BY <1>2 DEF Reload
  <2> HIDE DEF np
  <2> QED BY <2>1, <2>2 DEF CacheType, StoreType
<1>3. CASE ~ \A p \in PacketIDs : Replays(log[p])
  BY <1>3 DEF Reload, CacheType, cacheVars
<1> QED BY <1>2, <1>3

LEMMA DecideType ==
  ASSUME CallType, CacheType, NEW t \in Trackers, NEW c, WellFormed(c),
         NEW read \in [PacketIDs -> Seq(Event)], Decide(t, c, read)
  PROVE  CallType' /\ CacheType'
<1>1. CacheType'
  BY RefreshType, TargetsAre DEF Decide
<1>2. CASE BecomeIdle(t)
  BY <1>1, <1>2, BecomeIdleType
<1>3. CASE ~BecomeIdle(t)
  <2> DEFINE r == [expected |-> [p \in PacketIDs |->
                                  IF p \in Targets(c) THEN Len(read[p]) ELSE 0],
                   batch    |-> Batch(c, Project(read[c.packet]).status)]
  <2>1. Project(read[c.packet]).status \in Statuses \cup {None}
    <3>1. c.packet \in PacketIDs
      BY DEF WellFormed
    <3>2. Project(read[c.packet]) \in PacketState
      BY <3>1, ProjectType
    <3> QED BY <3>2 DEF PacketState
  <2>2. r \in Request /\ Small(r)
    <3>1. \A p \in PacketIDs : Len(read[p]) \in Nat
      OBVIOUS
    <3>2. r.expected \in [PacketIDs -> Nat]
      BY <3>1
    <3> QED BY <2>1, <3>2, BatchType DEF Request, Small
  <2>3. /\ phase'   = [phase EXCEPT ![t] = "appending"]
        /\ command' = [command EXCEPT ![t] = NoCommand]
        /\ request' = [request EXCEPT ![t] = r]
        /\ unread'  = [unread EXCEPT ![t] = {}]
        /\ held'    = [held EXCEPT ![t] = NoStreams]
    BY <1>3 DEF Decide
  <2> HIDE DEF r
  <2> QED BY <1>1, <2>2, <2>3, DefaultTypes DEF CallType
<1> QED BY <1>2, <1>3

(* One command's first step: either it decides at once, or it keeps what it read. *)
LEMMA BeginType ==
  ASSUME TypeInv, NEW t \in Trackers, NEW c \in Command, WellFormed(c), Begin(t, c)
  PROVE  TypeInv'
<1>1. StoreType /\ CallType /\ CacheType
  BY TypeInvParts
<1>2. StoreType'
  BY <1>1 DEF Begin, StoreType, storeVars
<1> DEFINE read == [NoStreams EXCEPT ![c.packet] = log[c.packet]]
<1>3. read \in [PacketIDs -> Seq(Event)]
  BY <1>1, DefaultTypes DEF WellFormed, StoreType
<1>4. CASE Targets(c) = {c.packet}
  <2>1. Decide(t, c, read)
    BY <1>4 DEF Begin
  <2> QED BY <1>1, <1>2, <1>3, <2>1, DecideType, TypeInvPartsNext
<1>5. CASE Targets(c) # {c.packet}
  <2>1. /\ phase'   = [phase EXCEPT ![t] = "loading"]
        /\ command' = [command EXCEPT ![t] = c]
        /\ unread'  = [unread EXCEPT ![t] = Targets(c) \ {c.packet}]
        /\ held'    = [held EXCEPT ![t] = read]
        /\ UNCHANGED <<request, cacheVars>>
    BY <1>5 DEF Begin
  <2>2. c.op = "supersede" /\ Targets(c) \ {c.packet} = {c.replacement}
    BY <1>5, TargetsAre
  <2>3. Targets(c) \ {c.packet} \in SUBSET PacketIDs
    BY TargetsAre
  <2>4. CacheType'
    BY <1>1, <2>1 DEF CacheType, cacheVars
  <2> HIDE DEF read
  <2>5. CallType'
    BY <1>1, <1>3, <2>1, <2>2, <2>3 DEF CallType
  <2> QED BY <1>2, <2>4, <2>5, TypeInvPartsNext
<1> QED BY <1>4, <1>5

LEMMA ApplyBatchType ==
  ASSUME NEW pkt \in PacketState, NEW batch \in Seq(Event), Len(batch) <= 2
  PROVE  ApplyBatch(pkt, batch) \in PacketState
<1>1. Len(batch) = 0 \/ Len(batch) = 1 \/ Len(batch) = 2
  <2>1. Len(batch) \in Nat
    OBVIOUS
  <2>2. \A n \in Nat : n <= 2 => n = 0 \/ n = 1 \/ n = 2
    OBVIOUS
  <2> QED BY <2>1, <2>2
<1>2. CASE Len(batch) = 0
  BY <1>2 DEF ApplyBatch
<1>3. CASE Len(batch) = 1
  <2>1. batch[1] \in Event
    BY <1>3
  <2> QED BY <1>3, <2>1, ApplyEventType DEF ApplyBatch
<1>4. CASE Len(batch) = 2
  <2>1. batch[1] \in Event /\ batch[2] \in Event
    BY <1>4
  <2> QED BY <1>4, <2>1, ApplyEventType DEF ApplyBatch
<1> QED BY <1>1, <1>2, <1>3, <1>4

LEMMA AppendToLogType ==
  ASSUME StoreType, NEW r \in Request, AppendToLog(r)
  PROVE  log' \in [PacketIDs -> Seq(Event)]
<1>1. \A p \in PacketIDs : log[p] \o r.batch[p] \in Seq(Event)
  BY DEF StoreType, Request
<1> QED BY <1>1 DEF AppendToLog

LEMMA AbandonType ==
  ASSUME StoreType, CallType, NEW t \in Trackers, Abandon(t), log' = log
  PROVE  StoreType'
  BY DEF StoreType, CallType, Abandon

LEMMA RecoverType ==
  ASSUME CallType, NEW t \in Trackers, Recover(t)
  PROVE  CallType'
<1>1. Touched(request[t]) \in SUBSET PacketIDs
  BY DEF Touched
<1> QED BY <1>1 DEF CallType, Recover

LEMMA IssueIsCommand ==
  ASSUME TypeInv, NEW t \in Trackers, Issue(t)
  PROVE  \E c \in Command : WellFormed(c) /\ Begin(t, c)
<1>1. PICK p \in PacketIDs, a \in Actors, tenant \in TenantIDs :
        Begin(t, IssueCommand(p, a, tenant))
  BY DEF Issue
<1>2. IssueCommand(p, a, tenant) \in Command /\ WellFormed(IssueCommand(p, a, tenant))
  BY DEF IssueCommand, NoCommand, Command, WellFormed, Attachments
<1> QED BY <1>1, <1>2

LEMMA ObservedType ==
  ASSUME TypeInv, NEW p \in PacketIDs
  PROVE  Observed(p) \subseteq Nat
<1>1. log[p] \in Seq(Event)
  BY DEF TypeInv, TypeOK
<1>2. Len(log[p]) \in Nat /\ (log[p] # <<>> => Len(log[p]) - 1 \in Nat)
  BY <1>1
<1> QED BY <1>2 DEF Observed

LEMMA TakeIsCommand ==
  ASSUME TypeInv, NEW t \in Trackers, Take(t)
  PROVE  \E c \in Command : WellFormed(c) /\ Begin(t, c)
<1>1. PICK p \in PacketIDs, a \in Actors : \E v \in Observed(p) : Begin(t, TakeCommand(p, v, a))
  BY DEF Take
<1>2. PICK v \in Observed(p) : Begin(t, TakeCommand(p, v, a))
  BY <1>1
<1>3. v \in Nat
  BY ObservedType
<1>4. TakeCommand(p, v, a) \in Command /\ WellFormed(TakeCommand(p, v, a))
  BY <1>3 DEF TakeCommand, NoCommand, Command, WellFormed, Attachments
<1> QED BY <1>2, <1>4

LEMMA CommentIsCommand ==
  ASSUME TypeInv, NEW t \in Trackers, Comment(t)
  PROVE  \E c \in Command : WellFormed(c) /\ Begin(t, c)
<1>1. PICK p \in PacketIDs, a \in Actors, text \in {"blank", "given"} :
        \E v \in Observed(p) : Begin(t, CommentCommand(p, v, a, text))
  BY DEF Comment
<1>2. PICK v \in Observed(p) : Begin(t, CommentCommand(p, v, a, text))
  BY <1>1
<1>3. v \in Nat /\ text \in Attachments
  BY ObservedType DEF Attachments
<1>4. CommentCommand(p, v, a, text) \in Command /\ WellFormed(CommentCommand(p, v, a, text))
  BY <1>3 DEF CommentCommand, NoCommand, Command, WellFormed
<1> QED BY <1>2, <1>4

LEMMA TransitionIsCommand ==
  ASSUME TypeInv, NEW t \in Trackers, Transition(t)
  PROVE  \E c \in Command : WellFormed(c) /\ Begin(t, c)
<1>1. PICK p \in PacketIDs, a \in Actors, to \in Statuses, x \in Attachments :
        \E v \in Observed(p) : Begin(t, TransitionCommand(p, v, a, to, x))
  BY DEF Transition
<1>2. PICK v \in Observed(p) : Begin(t, TransitionCommand(p, v, a, to, x))
  BY <1>1
<1>3. v \in Nat /\ x \in Attachments
  BY ObservedType DEF Attachments
<1>4. /\ TransitionCommand(p, v, a, to, x) \in Command
      /\ WellFormed(TransitionCommand(p, v, a, to, x))
  BY <1>3 DEF TransitionCommand, NoCommand, Command, WellFormed
<1> QED BY <1>2, <1>4

LEMMA SupersedeIsCommand ==
  ASSUME TypeInv, NEW t \in Trackers, Supersede(t)
  PROVE  \E c \in Command : WellFormed(c) /\ Begin(t, c)
<1>1. PICK p \in PacketIDs, r \in PacketIDs, a \in Actors, tenant \in TenantIDs :
        \E v \in Observed(p) : r # p /\ Begin(t, SupersedeCommand(p, v, a, r, tenant))
  BY DEF Supersede
<1>2. PICK v \in Observed(p) : r # p /\ Begin(t, SupersedeCommand(p, v, a, r, tenant))
  BY <1>1
<1>3. v \in Nat
  BY ObservedType
<1>4. /\ SupersedeCommand(p, v, a, r, tenant) \in Command
      /\ WellFormed(SupersedeCommand(p, v, a, r, tenant))
  BY <1>2, <1>3 DEF SupersedeCommand, NoCommand, Command, WellFormed, Attachments
<1> QED BY <1>2, <1>4

LEMMA CommandType ==
  ASSUME TypeInv, NEW t \in Trackers,
         Issue(t) \/ Take(t) \/ Comment(t) \/ Transition(t) \/ Supersede(t)
  PROVE  TypeInv'
<1>1. PICK c \in Command : WellFormed(c) /\ Begin(t, c)
  BY IssueIsCommand, TakeIsCommand, CommentIsCommand, TransitionIsCommand,
     SupersedeIsCommand
<1> QED BY <1>1, BeginType

LEMMA ReadType ==
  ASSUME TypeInv, NEW t \in Trackers,
         \/ ReadPacket(t) \/ ReadHistoryUnprojected(t) \/ ReadPackets(t)
         \/ DropProjection(t) \/ RebuildProjection(t)
  PROVE  TypeInv'
<1>1. StoreType /\ CallType /\ CacheType
  BY TypeInvParts
<1>2. StoreType' /\ CallType'
  BY <1>1 DEF ReadPacket, ReadHistoryUnprojected, ReadPackets, DropProjection,
              RebuildProjection, StoreType, CallType, storeVars, callVars
<1>3. CacheType'
  <2>1. CASE ReadPacket(t)
    <3>1. PICK p \in PacketIDs : Refresh(t, {p}, log)
      BY <2>1 DEF ReadPacket
    <3>2. {p} \in SUBSET PacketIDs /\ log \in [PacketIDs -> Seq(Event)]
      BY <1>1 DEF StoreType
    <3> QED BY <1>1, <3>1, <3>2, RefreshType
  <2>2. CASE ReadHistoryUnprojected(t)
    BY <1>1, <2>2 DEF ReadHistoryUnprojected, CacheType, StoreType
  <2>3. CASE ReadPackets(t)
    BY <1>1, <2>3, ReloadType DEF ReadPackets
  <2>4. CASE DropProjection(t)
    <3> DEFINE np == [p \in PacketIDs |-> NoPacket]
    <3>1. np \in [PacketIDs -> PacketState]
      BY NoPacketType
    <3>2. /\ streams' = streams
          /\ projection' = [projection EXCEPT ![t] = np]
          /\ ready' = [ready EXCEPT ![t] = FALSE]
      BY <2>4 DEF DropProjection
    <3> HIDE DEF np
    <3> QED BY <1>1, <3>1, <3>2 DEF CacheType
  <2>5. CASE RebuildProjection(t)
    BY <1>1, <2>5, ReloadType DEF RebuildProjection
  <2> QED BY <2>1, <2>2, <2>3, <2>4, <2>5
<1> QED BY <1>2, <1>3, TypeInvPartsNext

LEMMA LoadType ==
  ASSUME TypeInv, NEW t \in Trackers, LoadReplacement(t) \/ LoadFails(t)
  PROVE  TypeInv'
<1>1. StoreType /\ CallType /\ CacheType
  BY TypeInvParts
<1>2. StoreType'
  BY <1>1 DEF LoadReplacement, LoadFails, StoreType, storeVars
<1>3. CASE LoadReplacement(t)
  <2>1. PICK p \in unread[t] : Decide(t, command[t], [held[t] EXCEPT ![p] = log[p]])
    BY <1>3 DEF LoadReplacement
  <2>2. [held[t] EXCEPT ![p] = log[p]] \in [PacketIDs -> Seq(Event)]
    BY <1>1 DEF CallType, StoreType
  <2>3. WellFormed(command[t])
    BY <1>1, <1>3 DEF CallType, LoadReplacement
  <2> QED BY <1>1, <1>2, <2>1, <2>2, <2>3, DecideType, TypeInvPartsNext
<1>4. CASE LoadFails(t)
  <2>1. CallType'
    BY <1>1, <1>4, BecomeIdleType DEF LoadFails
  <2>2. CacheType'
    BY <1>1, <1>4 DEF LoadFails, CacheType, cacheVars
  <2> QED BY <1>2, <2>1, <2>2, TypeInvPartsNext
<1> QED BY <1>3, <1>4

LEMMA StoreStepType ==
  ASSUME TypeInv,
         \/ \E t \in Trackers : Commit(t) \/ Refuse(t)
         \/ \E r \in late : CommitLate(r) \/ LoseLate(r)
  PROVE  TypeInv'
<1>1. StoreType /\ CallType /\ CacheType
  BY TypeInvParts
<1>2. CacheType'
  BY <1>1 DEF Commit, Refuse, CommitLate, LoseLate, CacheType, cacheVars
<1>3. CallType'
  BY <1>1 DEF Commit, Refuse, CommitLate, LoseLate, CallType, callVars
<1>4. StoreType'
  <2>1. CASE \E t \in Trackers : Commit(t)
    <3>1. PICK t \in Trackers : Commit(t)
      BY <2>1
    <3>2. request[t] \in Request /\ AppendToLog(request[t]) /\ late' = late
      BY <1>1, <3>1 DEF CallType, Commit
    <3>3. log' \in [PacketIDs -> Seq(Event)]
      BY <1>1, <3>2, AppendToLogType
    <3> QED BY <1>1, <3>2, <3>3 DEF StoreType
  <2>2. CASE \E t \in Trackers : Refuse(t)
    BY <1>1, <2>2 DEF Refuse, StoreType, storeVars
  <2>3. CASE \E r \in late : CommitLate(r)
    <3>1. PICK r \in late : CommitLate(r)
      BY <2>3
    <3>2. r \in Request /\ AppendToLog(r) /\ late' \subseteq late
      BY <1>1, <3>1 DEF StoreType, CommitLate
    <3>3. log' \in [PacketIDs -> Seq(Event)]
      BY <1>1, <3>2, AppendToLogType
    <3> QED BY <1>1, <3>2, <3>3 DEF StoreType
  <2>4. CASE \E r \in late : LoseLate(r)
    BY <1>1, <2>4 DEF LoseLate, StoreType
  <2> QED BY <2>1, <2>2, <2>3, <2>4
<1> QED BY <1>2, <1>3, <1>4, TypeInvPartsNext

LEMMA AnswerType ==
  ASSUME TypeInv, NEW t \in Trackers,
         Acknowledge(t) \/ LearnRefusal(t) \/ TimeOut(t) \/ Reread(t) \/ RereadFails(t)
  PROVE  TypeInv'
<1>1. StoreType /\ CallType /\ CacheType
  BY TypeInvParts
<1>2. CASE Acknowledge(t)
  <2> DEFINE ns == [p \in PacketIDs |-> streams[t][p] \o request[t].batch[p]]
             np == [p \in PacketIDs |-> ApplyBatch(projection[t][p], request[t].batch[p])]
  <2>1. \A p \in PacketIDs : /\ request[t].batch[p] \in Seq(Event)
                             /\ Len(request[t].batch[p]) <= 2
                             /\ streams[t][p] \in Seq(Event)
                             /\ projection[t][p] \in PacketState
    BY <1>1 DEF CallType, CacheType, Request, Small
  <2>2. ns \in [PacketIDs -> Seq(Event)]
    BY <2>1
  <2>3. np \in [PacketIDs -> PacketState]
    BY <2>1, ApplyBatchType
  <2>4. /\ streams' = [streams EXCEPT ![t] = ns]
        /\ projection' = [projection EXCEPT ![t] = np]
        /\ ready' = ready
    BY <1>2 DEF Acknowledge
  <2> HIDE DEF ns, np
  <2>5. CacheType'
    BY <1>1, <2>2, <2>3, <2>4 DEF CacheType
  <2>6. CallType' /\ StoreType'
    BY <1>1, <1>2, BecomeIdleType DEF Acknowledge, StoreType, storeVars
  <2> QED BY <2>5, <2>6, TypeInvPartsNext
<1>3. CASE LearnRefusal(t)
  <2>1. CallType'
    BY <1>1, <1>3, RecoverType DEF LearnRefusal
  <2>2. StoreType' /\ CacheType'
    BY <1>1, <1>3 DEF LearnRefusal, StoreType, CacheType, storeVars, cacheVars
  <2> QED BY <2>1, <2>2, TypeInvPartsNext
<1>4. CASE TimeOut(t)
  <2>1. CallType'
    BY <1>1, <1>4, RecoverType DEF TimeOut
  <2>2. CacheType'
    BY <1>1, <1>4 DEF TimeOut, CacheType, cacheVars
  <2>3. StoreType'
    BY <1>1, <1>4, AbandonType DEF TimeOut, StoreType
  <2> QED BY <2>1, <2>2, <2>3, TypeInvPartsNext
<1>5. CASE Reread(t)
  <2>1. PICK p \in unread[t] :
          LET read == [held[t] EXCEPT ![p] = log[p]]
          IN  IF unread[t] = {p}
              THEN Refresh(t, Touched(request[t]), read) /\ BecomeIdle(t)
              ELSE /\ held'   = [held EXCEPT ![t] = read]
                   /\ unread' = [unread EXCEPT ![t] = @ \ {p}]
                   /\ UNCHANGED <<phase, command, request, cacheVars>>
    BY <1>5 DEF Reread
  <2> DEFINE read == [held[t] EXCEPT ![p] = log[p]]
  <2>2. read \in [PacketIDs -> Seq(Event)]
    BY <1>1 DEF CallType, StoreType
  <2>3. StoreType'
    BY <1>1, <1>5 DEF Reread, StoreType, storeVars
  <2>4. CASE unread[t] = {p}
    <3>1. Refresh(t, Touched(request[t]), read) /\ BecomeIdle(t)
      BY <2>1, <2>4
    <3>2. Touched(request[t]) \in SUBSET PacketIDs
      BY DEF Touched
    <3>3. CallType'
      BY <1>1, <3>1, BecomeIdleType
    <3>4. CacheType'
      BY <1>1, <2>2, <3>1, <3>2, RefreshType
    <3> QED BY <2>3, <3>3, <3>4, TypeInvPartsNext
  <2>5. CASE unread[t] # {p}
    <3>1. /\ held'   = [held EXCEPT ![t] = read]
          /\ unread' = [unread EXCEPT ![t] = @ \ {p}]
          /\ UNCHANGED <<phase, command, request, cacheVars>>
          /\ phase[t] = "recovering"
      BY <1>5, <2>1, <2>5 DEF Reread
    <3>2. CacheType'
      BY <1>1, <3>1 DEF CacheType, cacheVars
    <3> HIDE DEF read
    <3>3. CallType'
      BY <1>1, <2>2, <3>1 DEF CallType
    <3> QED BY <2>3, <3>2, <3>3, TypeInvPartsNext
  <2> QED BY <2>4, <2>5
<1>6. CASE RereadFails(t)
  <2>1. CallType'
    BY <1>1, <1>6, BecomeIdleType DEF RereadFails
  <2>2. StoreType' /\ CacheType'
    BY <1>1, <1>6 DEF RereadFails, StoreType, CacheType, storeVars, cacheVars
  <2> QED BY <2>1, <2>2, TypeInvPartsNext
<1> QED BY <1>2, <1>3, <1>4, <1>5, <1>6

LEMMA ProcessType ==
  ASSUME TypeInv, NEW t \in Trackers, Crash(t) \/ Start(t)
  PROVE  TypeInv'
<1>1. StoreType /\ CallType /\ CacheType
  BY TypeInvParts
<1>2. CASE Crash(t)
  <2>1. StoreType'
    BY <1>1, <1>2, AbandonType DEF Crash, StoreType
  <2>2. CallType'
    BY <1>1, <1>2, DefaultTypes DEF Crash, CallType
  <2>3. CacheType'
    <3> DEFINE np == [p \in PacketIDs |-> NoPacket]
    <3>1. np \in [PacketIDs -> PacketState]
      BY NoPacketType
    <3>2. /\ streams' = [streams EXCEPT ![t] = NoStreams]
          /\ projection' = [projection EXCEPT ![t] = np]
          /\ ready' = [ready EXCEPT ![t] = FALSE]
      BY <1>2 DEF Crash
    <3> HIDE DEF np
    <3> QED BY <1>1, <3>1, <3>2, DefaultTypes DEF CacheType
  <2> QED BY <2>1, <2>2, <2>3, TypeInvPartsNext
<1>3. CASE Start(t)
  <2>1. StoreType' /\ CallType'
    BY <1>1, <1>3 DEF Start, StoreType, CallType, storeVars
  <2>2. CacheType'
    BY <1>1, <1>3, ReloadType DEF Start
  <2> QED BY <2>1, <2>2, TypeInvPartsNext
<1> QED BY <1>2, <1>3

LEMMA InitType == Init => TypeInv
<1> SUFFICES ASSUME Init PROVE TypeInv
  OBVIOUS
<1> DEFINE np == [p \in PacketIDs |-> NoPacket]
<1>1. np \in [PacketIDs -> PacketState]
  BY NoPacketType
<1>2. projection = [t \in Trackers |-> np]
  BY DEF Init
<1>3. CacheType
  <2> HIDE DEF np
  <2> QED BY <1>1, <1>2, DefaultTypes DEF Init, CacheType
<1>4. CallType
  BY DefaultTypes DEF Init, CallType
<1>5. StoreType
  BY DefaultTypes DEF Init, StoreType
<1> QED BY <1>3, <1>4, <1>5, TypeInvParts

LEMMA NextType == TypeInv /\ [Next]_vars => TypeInv'
<1> SUFFICES ASSUME TypeInv, [Next]_vars PROVE TypeInv'
  OBVIOUS
<1>1. CASE UNCHANGED vars
  BY <1>1 DEF vars, storeVars, callVars, cacheVars, TypeInv, TypeOK
<1>2. CASE \E t \in Trackers : Call(t)
  BY <1>2, CommandType, ReadType DEF Call
<1>3. CASE \E t \in Trackers : Progress(t)
  BY <1>3, LoadType, StoreStepType, AnswerType DEF Progress
<1>4. CASE \E t \in Trackers : Crash(t) \/ Start(t)
  BY <1>4, ProcessType
<1>5. CASE \E r \in late : CommitLate(r) \/ LoseLate(r)
  BY <1>5, StoreStepType
<1> QED BY <1>1, <1>2, <1>3, <1>4, <1>5 DEF Next

(* Every variable keeps its type, through races, timeouts, late appends and crashes. *)
THEOREM TrackerTypeOK == Spec => []TypeOK
<1>1. Spec => []TypeInv
  BY InitType, NextType, PTL DEF Spec
<1>2. TypeInv => TypeOK
  BY DEF TypeInv
<1> QED BY <1>1, <1>2, PTL

-----------------------------------------------------------------------------
(***************************************************************************)
(* Every stream in the store replays, in every reachable state.            *)
(*                                                                         *)
(* LogReplays is not inductive: it says nothing of an append that is still *)
(* on its way.  StoreInv adds that such an append is sound: if it is still *)
(* current when it reaches the store, then some command would be admitted  *)
(* against the log as it stands and would append exactly these events.     *)
(***************************************************************************)

\* The appends that may yet reach the store.
Pending == late \cup {request[t] : t \in {u \in Trackers : phase[u] = "appending"}}

Backed(r) ==
    \E c : WellFormed(c) /\ Admits(c, log) /\ r.batch = Batch(c, Stored(c.packet).status)

Sound(r) ==
    /\ \A p \in Touched(r) : r.expected[p] <= Len(log[p])
    /\ Current(r) => Backed(r)

\* What a load keeps between its two queries is an earlier state of the store.
HeldIsPast == \A t \in Trackers, p \in PacketIDs : IsPrefix(held[t][p], log[p])

StoreInv ==
    /\ LogReplays
    /\ HeldIsPast
    /\ \A r \in Pending : Sound(r)

-----------------------------------------------------------------------------
(* Prefixes. *)

LEMMA PrefixFacts ==
  ASSUME NEW s \in Seq(Event), NEW u \in Seq(Event)
  PROVE  /\ IsPrefix(s, s)
         /\ IsPrefix(<<>>, s)
         /\ IsPrefix(s, s \o u)
         /\ IsPrefix(s, u) => Len(s) <= Len(u)
         /\ IsPrefix(s, u) /\ Len(s) = Len(u) => s = u
<1>1. IsPrefix(s, s) /\ IsPrefix(<<>>, s)
  BY DEF IsPrefix
<1>2. IsPrefix(s, s \o u)
  <2>1. Len(s) <= Len(s \o u) /\ SubSeq(s \o u, 1, Len(s)) = SubSeq(s, 1, Len(s))
    OBVIOUS
  <2> QED BY <2>1 DEF IsPrefix
<1>3. SubSeq(s, 1, Len(s)) = s /\ SubSeq(u, 1, Len(u)) = u
  OBVIOUS
<1> QED BY <1>1, <1>2, <1>3 DEF IsPrefix

LEMMA PrefixTransitive ==
  ASSUME NEW s \in Seq(Event), NEW u \in Seq(Event), NEW w \in Seq(Event),
         IsPrefix(s, u), IsPrefix(u, w)
  PROVE  IsPrefix(s, w)
<1>1. Len(s) <= Len(u) /\ Len(u) <= Len(w) /\ Len(s) \in Nat /\ Len(u) \in Nat
      /\ Len(w) \in Nat
  BY DEF IsPrefix
<1>2. ASSUME NEW i \in 1..Len(s)
      PROVE  s[i] = w[i]
  <2>1. i \in 1..Len(u) /\ i \in 1..Len(w)
    BY <1>1
  <2>2. SubSeq(s, 1, Len(s))[i] = s[i] /\ SubSeq(u, 1, Len(s))[i] = u[i]
    BY <1>1, <2>1
  <2>3. SubSeq(u, 1, Len(u))[i] = u[i] /\ SubSeq(w, 1, Len(u))[i] = w[i]
    BY <1>1, <2>1
  <2> QED BY <2>2, <2>3 DEF IsPrefix
<1>3. SubSeq(s, 1, Len(s)) = SubSeq(w, 1, Len(s))
  BY <1>1, <1>2
<1> QED BY <1>1, <1>3 DEF IsPrefix

-----------------------------------------------------------------------------
(* Appending a batch. *)

LEMMA ConcatShort ==
  ASSUME NEW s \in Seq(Event), NEW batch \in Seq(Event)
  PROVE  /\ Len(batch) = 1 => s \o batch = Append(s, batch[1])
         /\ Len(batch) = 2 => /\ batch[2] \in Event
                              /\ s \o batch = Append(Append(s, batch[1]), batch[2])
<1>1. Len(s) \in Nat /\ s \o batch \in Seq(Event)
      /\ Len(s \o batch) = Len(s) + Len(batch)
  BY ConcatProperties, LenProperties
<1>2. \A i \in 1..Len(s) + Len(batch) :
        (s \o batch)[i] = IF i <= Len(s) THEN s[i] ELSE batch[i - Len(s)]
  BY ConcatProperties
<1>3. \A w \in Seq(Event), e \in Event :
        /\ Append(w, e) \in Seq(Event)
        /\ Len(Append(w, e)) = Len(w) + 1
        /\ \A i \in 1..Len(w) : Append(w, e)[i] = w[i]
        /\ Append(w, e)[Len(w) + 1] = e
  BY AppendProperties
<1>4. ASSUME Len(batch) = 1
      PROVE  s \o batch = Append(s, batch[1])
  <2>1. batch[1] \in Event
    <3>1. 1 \in 1..Len(batch)
      BY <1>4
    <3> QED BY <3>1, ElementOfSeq
  <2> DEFINE u == Append(s, batch[1])
  <2>2. u \in Seq(Event) /\ Len(u) = Len(s) + 1 /\ u[Len(s) + 1] = batch[1]
        /\ \A i \in 1..Len(s) : u[i] = s[i]
    BY <1>3, <2>1
  <2> HIDE DEF u
  <2>3. \A i \in 1..Len(s) + 1 : (s \o batch)[i] = u[i]
    BY <1>1, <1>2, <1>4, <2>2
  <2>4. s \o batch = u
    BY <1>1, <1>4, <2>2, <2>3, SeqEqual
  <2> QED BY <2>4 DEF u
<1>5. ASSUME Len(batch) = 2
      PROVE  batch[2] \in Event /\ s \o batch = Append(Append(s, batch[1]), batch[2])
  <2>1. batch[1] \in Event /\ batch[2] \in Event
    <3>1. 1 \in 1..Len(batch) /\ 2 \in 1..Len(batch)
      BY <1>5
    <3> QED BY <3>1, ElementOfSeq
  <2> DEFINE u == Append(s, batch[1])
             w == Append(u, batch[2])
  <2>2. u \in Seq(Event) /\ Len(u) = Len(s) + 1 /\ u[Len(s) + 1] = batch[1]
        /\ \A i \in 1..Len(s) : u[i] = s[i]
    BY <1>3, <2>1
  <2> HIDE DEF u
  <2>3. w \in Seq(Event) /\ Len(w) = Len(s) + 2 /\ w[Len(s) + 2] = batch[2]
        /\ \A i \in 1..Len(s) + 1 : w[i] = u[i]
    BY <1>1, <1>3, <2>1, <2>2
  <2> HIDE DEF w
  <2>4. \A i \in 1..Len(s) + 2 : (s \o batch)[i] = w[i]
    BY <1>1, <1>2, <1>5, <2>2, <2>3
  <2>5. s \o batch = w
    BY <1>1, <1>5, <2>3, <2>4, SeqEqual
  <2> QED BY <2>1, <2>5 DEF u, w
<1> QED BY <1>4, <1>5

LEMMA ReplaysBatch ==
  ASSUME NEW s \in Seq(Event), NEW batch \in Seq(Event), Len(batch) <= 2,
         AcceptsBatch(Project(s), batch)
  PROVE  /\ Project(s \o batch) = ApplyBatch(Project(s), batch)
         /\ Replays(s) => Replays(s \o batch)
<1>1. Len(batch) = 0 \/ Len(batch) = 1 \/ Len(batch) = 2
  <2>1. Len(batch) \in Nat
    OBVIOUS
  <2>2. \A n \in Nat : n <= 2 => n = 0 \/ n = 1 \/ n = 2
    OBVIOUS
  <2> QED BY <2>1, <2>2
<1>2. CASE Len(batch) = 0
  <2>1. s \o batch = s
    BY <1>2
  <2> QED BY <1>2, <2>1 DEF ApplyBatch
<1>3. ASSUME Len(batch) # 0
      PROVE  batch[1] \in Event /\ Accepts(Project(s), batch[1])
  <2>1. 1 \in 1..Len(batch) /\ batch[1] \in Event
    BY <1>1, <1>3
  <2>2. Len(SubSeq(batch, 1, 1 - 1)) = 0
    OBVIOUS
  <2>3. ApplyBatch(Project(s), SubSeq(batch, 1, 1 - 1)) = Project(s)
    BY <2>2 DEF ApplyBatch
  <2> QED BY <2>1, <2>3 DEF AcceptsBatch
<1>4. CASE Len(batch) = 1
  <2>1. s \o batch = Append(s, batch[1])
    BY <1>4, ConcatShort
  <2>2. ApplyBatch(Project(s), batch) = ApplyEvent(Project(s), batch[1])
    BY <1>4 DEF ApplyBatch
  <2> QED BY <1>3, <1>4, <2>1, <2>2, ProjectAppend, ReplaysAppend
<1>5. CASE Len(batch) = 2
  <2> DEFINE u == Append(s, batch[1])
  <2>1. batch[2] \in Event /\ 2 \in 1..Len(batch)
    BY <1>5, ConcatShort
  <2>2. u \in Seq(Event)
    BY <1>3, <1>5
  <2>3. s \o batch = Append(u, batch[2])
    BY <1>5, ConcatShort
  <2>4. Project(u) = ApplyEvent(Project(s), batch[1]) /\ (Replays(s) => Replays(u))
    BY <1>3, <1>5, ProjectAppend, ReplaysAppend
  <2>5. Accepts(Project(u), batch[2])
    <3>1. /\ Len(SubSeq(batch, 1, 2 - 1)) = 1
          /\ SubSeq(batch, 1, 2 - 1)[1] = batch[1]
      BY <1>5
    <3>2. ApplyBatch(Project(s), SubSeq(batch, 1, 2 - 1)) = ApplyEvent(Project(s), batch[1])
      BY <3>1 DEF ApplyBatch
    <3> QED BY <2>1, <2>4, <3>2 DEF AcceptsBatch
  <2>6. ApplyBatch(Project(s), batch) = ApplyEvent(Project(u), batch[2])
    BY <1>5, <2>4 DEF ApplyBatch
  <2> HIDE DEF u
  <2> QED BY <2>1, <2>2, <2>3, <2>4, <2>5, <2>6, ProjectAppend, ReplaysAppend
<1> QED BY <1>1, <1>2, <1>4, <1>5

(* What a command checks depends on the streams it targets alone. *)
LEMMA AdmitsTargets ==
  ASSUME NEW c, WellFormed(c), NEW read, NEW other,
         \A p \in Targets(c) : read[p] = other[p],
         Admits(c, read)
  PROVE  Admits(c, other) /\ Project(other[c.packet]) = Project(read[c.packet])
<1>1. c.packet \in Targets(c) /\ (c.op = "supersede" => c.replacement \in Targets(c))
  BY TargetsAre
<1>2. read[c.packet] = other[c.packet]
  BY <1>1
<1> QED BY <1>1, <1>2 DEF Admits

(* An admitted command's events are accepted by the packets they are appended to. *)
LEMMA BackedBatch ==
  ASSUME TypeInv, NEW r, Backed(r), NEW p \in PacketIDs
  PROVE  /\ r.batch[p] \in Seq(Event) /\ Len(r.batch[p]) <= 2
         /\ AcceptsBatch(Stored(p), r.batch[p])
<1>1. PICK c : WellFormed(c) /\ Admits(c, log) /\ r.batch = Batch(c, Stored(c.packet).status)
  BY DEF Backed
<1>2. Stored(c.packet).status \in Statuses \cup {None}
  <2>1. c.packet \in PacketIDs
    BY <1>1 DEF WellFormed
  <2>2. Stored(c.packet) \in PacketState
    BY <2>1, ProjectType DEF Stored, TypeInv, TypeOK
  <2> QED BY <2>2 DEF PacketState
<1>3. r.batch[p] \in Seq(Event) /\ Len(r.batch[p]) <= 2
  BY <1>1, <1>2, BatchType
<1>4. CASE p \in Targets(c)
  BY <1>1, <1>3, <1>4 DEF Admits, Stored
<1>5. CASE p \notin Targets(c)
  <2>1. r.batch[p] = <<>>
    BY <1>1, <1>2, <1>5, BatchType
  <2> QED BY <1>3, <2>1 DEF AcceptsBatch
<1> QED BY <1>3, <1>4, <1>5

-----------------------------------------------------------------------------
(* The three kinds of step: one that leaves the log, one that decides a command, one that *)
(* appends.                                                                               *)

LEMMA QuietStep ==
  ASSUME TypeInv, StoreInv, log' = log,
         \A t \in Trackers, p \in PacketIDs :
           held'[t][p] = held[t][p] \/ held'[t][p] = <<>> \/ held'[t][p] = log[p],
         \A r \in Pending' : r \in Pending \/ Sound(r)
  PROVE  StoreInv'
<1>1. LogReplays'
  BY DEF StoreInv, LogReplays
<1>2. HeldIsPast'
  <2> SUFFICES ASSUME NEW t \in Trackers, NEW p \in PacketIDs
               PROVE  IsPrefix(held'[t][p], log[p])
    BY DEF HeldIsPast
  <2>1. log[p] \in Seq(Event)
    BY DEF TypeInv, TypeOK
  <2>2. IsPrefix(<<>>, log[p]) /\ IsPrefix(log[p], log[p])
    BY <2>1, PrefixFacts
  <2>3. IsPrefix(held[t][p], log[p])
    BY DEF StoreInv, HeldIsPast
  <2> QED BY <2>2, <2>3
<1>3. ASSUME NEW r \in Pending'
      PROVE  Sound(r)'
  <2>1. Sound(r)
    BY <1>3 DEF StoreInv
  <2> QED BY <2>1 DEF Sound, Current, Touched, Backed, Stored
<1> QED BY <1>1, <1>2, <1>3 DEF StoreInv

LEMMA IdlePending ==
  ASSUME TypeInv, NEW t \in Trackers, BecomeIdle(t), late' = late
  PROVE  /\ Pending' \subseteq Pending
         /\ \A u \in Trackers, p \in PacketIDs :
              held'[u][p] = held[u][p] \/ held'[u][p] = <<>>
<1>1. Pending' \subseteq Pending
  BY DEF Pending, BecomeIdle, TypeInv, TypeOK
<1>2. \A u \in Trackers, p \in PacketIDs : held'[u][p] = held[u][p] \/ held'[u][p] = <<>>
  BY DEF BecomeIdle, NoStreams, TypeInv, TypeOK
<1> QED BY <1>1, <1>2

LEMMA AppendStep ==
  ASSUME TypeInv, StoreInv, NEW r \in Pending, Current(r), AppendToLog(r),
         held' = held, Pending' \subseteq Pending
  PROVE  StoreInv'
<1>1. Backed(r)
  BY DEF StoreInv, Sound
<1>2. ASSUME NEW p \in PacketIDs
      PROVE  /\ log[p] \in Seq(Event) /\ log'[p] \in Seq(Event)
             /\ Replays(log'[p])
             /\ IsPrefix(log[p], log'[p])
  <2>1. log[p] \in Seq(Event) /\ Replays(log[p])
    BY DEF TypeInv, TypeOK, StoreInv, LogReplays
  <2>2. /\ r.batch[p] \in Seq(Event) /\ Len(r.batch[p]) <= 2
        /\ AcceptsBatch(Project(log[p]), r.batch[p])
    BY <1>1, BackedBatch DEF Stored
  <2>3. log'[p] = log[p] \o r.batch[p]
    BY DEF AppendToLog
  <2>4. log'[p] \in Seq(Event)
    BY <2>1, <2>2, <2>3
  <2>5. Replays(log'[p])
    BY <2>1, <2>2, <2>3, ReplaysBatch
  <2>6. IsPrefix(log[p], log'[p])
    BY <2>1, <2>2, <2>3, PrefixFacts
  <2> QED BY <2>1, <2>4, <2>5, <2>6
<1>3. LogReplays'
  BY <1>2 DEF LogReplays
<1>4. HeldIsPast'
  <2> SUFFICES ASSUME NEW t \in Trackers, NEW p \in PacketIDs
               PROVE  IsPrefix(held[t][p], log'[p])
    BY DEF HeldIsPast
  <2>1. held[t][p] \in Seq(Event) /\ IsPrefix(held[t][p], log[p])
    BY DEF TypeInv, TypeOK, StoreInv, HeldIsPast
  <2> QED BY <1>2, <2>1, PrefixTransitive
<1>5. ASSUME NEW q \in Pending
      PROVE  Sound(q)'
  <2>1. /\ \A p \in Touched(q) : q.expected[p] <= Len(log[p])
        /\ Current(q) => Backed(q)
    BY DEF StoreInv, Sound
  <2>2. \A p \in Touched(q) : q.expected[p] \in Nat
    BY DEF Pending, TypeInv, TypeOK, Request, Touched
  <2>3. \A p \in PacketIDs : Len(log[p]) \in Nat /\ Len(log'[p]) \in Nat
    BY <1>2, LenProperties
  <2>4. \A p \in PacketIDs : Len(log[p]) <= Len(log'[p])
    BY <1>2, PrefixFacts
  <2>5. \A p \in Touched(q) : q.expected[p] <= Len(log'[p])
    BY <2>1, <2>2, <2>3, <2>4 DEF Touched
  <2>6. ASSUME Current(q)'
        PROVE  Backed(q)'
    <3>1. \A p \in Touched(q) : q.expected[p] = Len(log'[p])
      BY <2>6 DEF Current, Touched
    <3>2. \A p \in Touched(q) : Len(log[p]) = Len(log'[p]) /\ q.expected[p] = Len(log[p])
      BY <2>1, <2>2, <2>3, <2>4, <3>1 DEF Touched
    <3>3. \A p \in Touched(q) : log[p] = log'[p]
      BY <1>2, <3>2, PrefixFacts DEF Touched
    <3>4. PICK c : /\ WellFormed(c) /\ Admits(c, log)
                   /\ q.batch = Batch(c, Stored(c.packet).status)
      BY <2>1, <3>2 DEF Current, Backed
    <3>5. Stored(c.packet).status \in Statuses \cup {None}
      <4>1. Stored(c.packet) \in PacketState
        BY <1>2, <3>4, ProjectType DEF Stored, WellFormed
      <4> QED BY <4>1 DEF PacketState
    <3>6. \A p \in Targets(c) : log[p] = log'[p]
      BY <3>3, <3>4, <3>5, BatchType, TargetsAre DEF Touched
    <3>7. Admits(c, log') /\ Project(log'[c.packet]) = Project(log[c.packet])
      BY <3>4, <3>6, AdmitsTargets
    <3> QED BY <3>4, <3>7 DEF Backed, Stored
  <2>7. \A p \in Touched(q)' : q.expected[p] <= Len(log'[p])
    BY <2>5 DEF Touched
  <2> QED BY <2>6, <2>7 DEF Sound
<1> QED BY <1>3, <1>4, <1>5 DEF StoreInv

LEMMA DecideStep ==
  ASSUME TypeInv, StoreInv, NEW t \in Trackers, NEW c, WellFormed(c),
         NEW read \in [PacketIDs -> Seq(Event)],
         \A p \in Targets(c) : IsPrefix(read[p], log[p]),
         Decide(t, c, read), log' = log, late' = late
  PROVE  StoreInv'
<1>1. CASE BecomeIdle(t)
  BY <1>1, IdlePending, QuietStep
<1>2. CASE ~BecomeIdle(t)
  <2> DEFINE r == [expected |-> [p \in PacketIDs |->
                                   IF p \in Targets(c) THEN Len(read[p]) ELSE 0],
                   batch    |-> Batch(c, Project(read[c.packet]).status)]
  <2>1. /\ Admits(c, read)
        /\ phase'   = [phase EXCEPT ![t] = "appending"]
        /\ request' = [request EXCEPT ![t] = r]
        /\ held'    = [held EXCEPT ![t] = NoStreams]
    BY <1>2 DEF Decide
  <2>2. /\ r.batch = Batch(c, Project(read[c.packet]).status)
        /\ \A p \in PacketIDs : p \in Targets(c) => r.expected[p] = Len(read[p])
    OBVIOUS
  <2> HIDE DEF r
  <2>3. Project(read[c.packet]).status \in Statuses \cup {None}
    <3>1. Project(read[c.packet]) \in PacketState
      BY ProjectType DEF WellFormed
    <3> QED BY <3>1 DEF PacketState
  <2>4. Touched(r) = Targets(c)
    BY <2>2, <2>3, BatchType, TargetsAre DEF Touched
  <2>5. \A p \in Targets(c) : /\ p \in PacketIDs
                              /\ read[p] \in Seq(Event) /\ log[p] \in Seq(Event)
    BY TargetsAre DEF TypeInv, TypeOK
  <2>6. Sound(r)
    <3>1. \A p \in Touched(r) : r.expected[p] <= Len(log[p])
      BY <2>2, <2>4, <2>5, PrefixFacts
    <3>2. ASSUME Current(r)
          PROVE  Backed(r)
      <4>1. \A p \in Targets(c) : Len(read[p]) = Len(log[p])
        BY <2>2, <2>4, <2>5, <3>2 DEF Current
      <4>2. \A p \in Targets(c) : read[p] = log[p]
        BY <2>5, <4>1, PrefixFacts
      <4>3. Admits(c, log) /\ Project(log[c.packet]) = Project(read[c.packet])
        BY <2>1, <4>2, AdmitsTargets
      <4> QED BY <2>2, <4>3 DEF Backed, Stored
    <3> QED BY <3>1, <3>2 DEF Sound
  <2>7. \A q \in Pending' : q \in Pending \/ q = r
    BY <2>1 DEF Pending, TypeInv, TypeOK
  <2>8. \A u \in Trackers, p \in PacketIDs : held'[u][p] = held[u][p] \/ held'[u][p] = <<>>
    BY <2>1 DEF NoStreams, TypeInv, TypeOK
  <2> QED BY <2>6, <2>7, <2>8, QuietStep
<1> QED BY <1>1, <1>2

-----------------------------------------------------------------------------
(* Every action is a step of one of these kinds. *)

LEMMA BeginStep ==
  ASSUME TypeInv, StoreInv, NEW t \in Trackers, NEW c, WellFormed(c), Begin(t, c)
  PROVE  StoreInv'
<1> DEFINE read == [NoStreams EXCEPT ![c.packet] = log[c.packet]]
<1>1. log' = log /\ late' = late
  BY DEF Begin, storeVars
<1>2. /\ c.packet \in PacketIDs
      /\ log \in [PacketIDs -> Seq(Event)]
  BY DEF WellFormed, TypeInv, TypeOK
<1>3. /\ read \in [PacketIDs -> Seq(Event)]
      /\ read[c.packet] = log[c.packet]
      /\ \A p \in PacketIDs : read[p] = <<>> \/ read[p] = log[p]
  <2>1. read = [p \in PacketIDs |-> IF p = c.packet THEN log[c.packet] ELSE <<>>]
    BY <1>2 DEF NoStreams
  <2>2. <<>> \in Seq(Event) /\ log[c.packet] \in Seq(Event)
    BY <1>2, ShortStreams
  <2> HIDE DEF read
  <2> QED BY <1>2, <2>1, <2>2
<1>4. IF Targets(c) = {c.packet} THEN Decide(t, c, read)
      ELSE /\ phase' = [phase EXCEPT ![t] = "loading"]
           /\ held'  = [held EXCEPT ![t] = read]
           /\ request' = request
  BY DEF Begin
<1> HIDE DEF read
<1>5. CASE Targets(c) = {c.packet}
  <2>1. \A p \in Targets(c) : IsPrefix(read[p], log[p])
    BY <1>2, <1>3, <1>5, PrefixFacts
  <2> QED BY <1>1, <1>3, <1>4, <1>5, <2>1, DecideStep
<1>6. CASE Targets(c) # {c.packet}
  <2>1. /\ phase' = [phase EXCEPT ![t] = "loading"]
        /\ held'  = [held EXCEPT ![t] = read]
        /\ request' = request
    BY <1>4, <1>6
  <2>2. Pending' \subseteq Pending
    BY <1>1, <2>1 DEF Pending, TypeInv, TypeOK
  <2>3. \A u \in Trackers, p \in PacketIDs :
          held'[u][p] = held[u][p] \/ held'[u][p] = <<>> \/ held'[u][p] = log[p]
    BY <1>3, <2>1 DEF TypeInv, TypeOK
  <2> QED BY <1>1, <2>2, <2>3, QuietStep
<1> QED BY <1>5, <1>6

LEMMA CommandStep ==
  ASSUME TypeInv, StoreInv, NEW t \in Trackers,
         Issue(t) \/ Take(t) \/ Comment(t) \/ Transition(t) \/ Supersede(t)
  PROVE  StoreInv'
<1>1. \E c : WellFormed(c) /\ Begin(t, c)
  BY IssueIsCommand, TakeIsCommand, CommentIsCommand, TransitionIsCommand,
     SupersedeIsCommand
<1> QED BY <1>1, BeginStep

LEMMA ReadStep ==
  ASSUME TypeInv, StoreInv, NEW t \in Trackers,
         \/ ReadPacket(t) \/ ReadHistoryUnprojected(t) \/ ReadPackets(t)
         \/ DropProjection(t) \/ RebuildProjection(t)
  PROVE  StoreInv'
<1>1. UNCHANGED storeVars /\ UNCHANGED callVars
  BY DEF ReadPacket, ReadHistoryUnprojected, ReadPackets, DropProjection, RebuildProjection
<1>2. log' = log /\ held' = held /\ Pending' = Pending
  BY <1>1 DEF storeVars, callVars, Pending
<1> QED BY <1>2, QuietStep

LEMMA LoadStep ==
  ASSUME TypeInv, StoreInv, NEW t \in Trackers, LoadReplacement(t) \/ LoadFails(t)
  PROVE  StoreInv'
<1>1. log' = log /\ late' = late
  BY DEF LoadReplacement, LoadFails, storeVars
<1>2. CASE LoadReplacement(t)
  <2>1. PICK p \in unread[t] : Decide(t, command[t], [held[t] EXCEPT ![p] = log[p]])
    BY <1>2 DEF LoadReplacement
  <2> DEFINE read == [held[t] EXCEPT ![p] = log[p]]
  <2>2. /\ WellFormed(command[t])
        /\ log \in [PacketIDs -> Seq(Event)]
        /\ held[t] \in [PacketIDs -> Seq(Event)]
    BY <1>2 DEF LoadReplacement, TypeInv, TypeOK
  <2>3. /\ read \in [PacketIDs -> Seq(Event)]
        /\ \A q \in PacketIDs : read[q] = log[q] \/ read[q] = held[t][q]
    BY <2>2
  <2>4. Decide(t, command[t], read)
    BY <2>1
  <2> HIDE DEF read
  <2>5. \A q \in PacketIDs : IsPrefix(held[t][q], log[q]) /\ IsPrefix(log[q], log[q])
    BY <2>2, PrefixFacts DEF StoreInv, HeldIsPast
  <2>6. \A q \in Targets(command[t]) : IsPrefix(read[q], log[q])
    BY <2>2, <2>3, <2>5, TargetsAre
  <2> QED BY <1>1, <2>2, <2>3, <2>4, <2>6, DecideStep
<1>3. CASE LoadFails(t)
  <2>1. BecomeIdle(t)
    BY <1>3 DEF LoadFails
  <2> QED BY <1>1, <2>1, IdlePending, QuietStep
<1> QED BY <1>2, <1>3

LEMMA StoreStep ==
  ASSUME TypeInv, StoreInv,
         \/ \E t \in Trackers : Commit(t) \/ Refuse(t)
         \/ \E r \in late : CommitLate(r) \/ LoseLate(r)
  PROVE  StoreInv'
<1>1. CASE \E t \in Trackers : Commit(t)
  <2>1. PICK t \in Trackers : Commit(t)
    BY <1>1
  <2>2. /\ request[t] \in Pending /\ Current(request[t]) /\ AppendToLog(request[t])
        /\ held' = held
    BY <2>1 DEF Commit, Pending
  <2>3. Pending' \subseteq Pending
    BY <2>1 DEF Commit, Pending, TypeInv, TypeOK
  <2> QED BY <2>2, <2>3, AppendStep
<1>2. CASE \E t \in Trackers : Refuse(t)
  <2>1. PICK t \in Trackers : Refuse(t)
    BY <1>2
  <2>2. log' = log /\ held' = held
    BY <2>1 DEF Refuse, storeVars
  <2>3. Pending' \subseteq Pending
    BY <2>1 DEF Refuse, Pending, TypeInv, TypeOK, storeVars
  <2> QED BY <2>2, <2>3, QuietStep
<1>3. CASE \E r \in late : CommitLate(r)
  <2>1. PICK r \in late : CommitLate(r)
    BY <1>3
  <2>2. r \in Pending /\ Current(r) /\ AppendToLog(r) /\ held' = held
    BY <2>1 DEF CommitLate, callVars, Pending
  <2>3. Pending' \subseteq Pending
    BY <2>1 DEF CommitLate, callVars, Pending
  <2> QED BY <2>2, <2>3, AppendStep
<1>4. CASE \E r \in late : LoseLate(r)
  <2>1. PICK r \in late : LoseLate(r)
    BY <1>4
  <2>2. log' = log /\ held' = held /\ Pending' \subseteq Pending
    BY <2>1 DEF LoseLate, callVars, Pending
  <2> QED BY <2>2, QuietStep
<1> QED BY <1>1, <1>2, <1>3, <1>4

LEMMA AnswerStep ==
  ASSUME TypeInv, StoreInv, NEW t \in Trackers,
         Acknowledge(t) \/ LearnRefusal(t) \/ TimeOut(t) \/ Reread(t) \/ RereadFails(t)
  PROVE  StoreInv'
<1>1. CASE Acknowledge(t) \/ RereadFails(t)
  <2>1. BecomeIdle(t) /\ log' = log /\ late' = late
    BY <1>1 DEF Acknowledge, RereadFails, storeVars
  <2> QED BY <2>1, IdlePending, QuietStep
<1>2. CASE LearnRefusal(t)
  <2>1. log' = log /\ held' = held
    BY <1>2 DEF LearnRefusal, Recover, storeVars
  <2>2. Pending' \subseteq Pending
    BY <1>2 DEF LearnRefusal, Recover, Pending, TypeInv, TypeOK, storeVars
  <2> QED BY <2>1, <2>2, QuietStep
<1>3. CASE TimeOut(t)
  <2>1. log' = log /\ held' = held
    BY <1>3 DEF TimeOut, Recover
  <2>2. late' \subseteq late \cup (IF phase[t] = "appending" THEN {request[t]} ELSE {})
    BY <1>3 DEF TimeOut, Abandon
  <2>3. Pending' \subseteq Pending
    BY <1>3, <2>2 DEF TimeOut, Recover, Pending, TypeInv, TypeOK
  <2> QED BY <2>1, <2>3, QuietStep
<1>4. CASE Reread(t)
  <2>1. PICK p \in unread[t] :
          LET read == [held[t] EXCEPT ![p] = log[p]]
          IN  IF unread[t] = {p}
              THEN Refresh(t, Touched(request[t]), read) /\ BecomeIdle(t)
              ELSE /\ held'   = [held EXCEPT ![t] = read]
                   /\ unread' = [unread EXCEPT ![t] = @ \ {p}]
                   /\ UNCHANGED <<phase, command, request, cacheVars>>
    BY <1>4 DEF Reread
  <2>2. log' = log /\ late' = late
    BY <1>4 DEF Reread, storeVars
  <2>3. CASE unread[t] = {p}
    <3>1. BecomeIdle(t)
      BY <2>1, <2>3
    <3> QED BY <2>2, <3>1, IdlePending, QuietStep
  <2>4. CASE unread[t] # {p}
    <3>1. /\ held' = [held EXCEPT ![t] = [held[t] EXCEPT ![p] = log[p]]]
          /\ phase' = phase /\ request' = request
      BY <2>1, <2>4
    <3>2. Pending' \subseteq Pending
      BY <2>2, <3>1 DEF Pending
    <3>3. \A u \in Trackers, q \in PacketIDs :
            held'[u][q] = held[u][q] \/ held'[u][q] = log[q]
      BY <3>1 DEF TypeInv, TypeOK
    <3> QED BY <2>2, <3>2, <3>3, QuietStep
  <2> QED BY <2>3, <2>4
<1> QED BY <1>1, <1>2, <1>3, <1>4

LEMMA ProcessStep ==
  ASSUME TypeInv, StoreInv, NEW t \in Trackers, Crash(t) \/ Start(t)
  PROVE  StoreInv'
<1>1. CASE Crash(t)
  <2>1. /\ log' = log
        /\ held' = [held EXCEPT ![t] = NoStreams]
        /\ phase' = [phase EXCEPT ![t] = "down"]
        /\ request' = [request EXCEPT ![t] = NoRequest]
        /\ late' \subseteq late \cup (IF phase[t] = "appending" THEN {request[t]} ELSE {})
    BY <1>1 DEF Crash, Abandon
  <2>2. Pending' \subseteq Pending
    BY <2>1 DEF Pending, TypeInv, TypeOK
  <2>3. \A u \in Trackers, p \in PacketIDs : held'[u][p] = held[u][p] \/ held'[u][p] = <<>>
    BY <2>1 DEF NoStreams, TypeInv, TypeOK
  <2> QED BY <2>1, <2>2, <2>3, QuietStep
<1>2. CASE Start(t)
  <2>1. log' = log /\ held' = held
    BY <1>2 DEF Start, storeVars
  <2>2. Pending' \subseteq Pending
    BY <1>2 DEF Start, Pending, TypeInv, TypeOK, storeVars
  <2> QED BY <2>1, <2>2, QuietStep
<1> QED BY <1>1, <1>2

LEMMA InitStore == Init => StoreInv
<1> SUFFICES ASSUME Init PROVE StoreInv
  OBVIOUS
<1>1. LogReplays
  BY ReplaysEmpty DEF Init, NoStreams, LogReplays
<1>2. HeldIsPast
  BY ShortStreams, PrefixFacts DEF Init, NoStreams, HeldIsPast
<1>3. Pending = {}
  BY DEF Init, Pending
<1> QED BY <1>1, <1>2, <1>3 DEF StoreInv

LEMMA NextStore == TypeInv /\ StoreInv /\ [Next]_vars => StoreInv'
<1> SUFFICES ASSUME TypeInv, StoreInv, [Next]_vars PROVE StoreInv'
  OBVIOUS
<1>1. CASE UNCHANGED vars
  <2>1. log' = log /\ held' = held /\ Pending' = Pending
    BY <1>1 DEF vars, storeVars, callVars, Pending
  <2> QED BY <2>1, QuietStep
<1>2. CASE \E t \in Trackers : Call(t)
  BY <1>2, CommandStep, ReadStep DEF Call
<1>3. CASE \E t \in Trackers : Progress(t)
  BY <1>3, LoadStep, StoreStep, AnswerStep DEF Progress
<1>4. CASE \E t \in Trackers : Crash(t) \/ Start(t)
  BY <1>4, ProcessStep
<1>5. CASE \E r \in late : CommitLate(r) \/ LoseLate(r)
  BY <1>5, StoreStep
<1> QED BY <1>1, <1>2, <1>3, <1>4, <1>5 DEF Next

(* However many trackers race, lose answers, are stopped or leave appends behind, every   *)
(* stream in the store replays without an error.                                          *)
THEOREM TrackerLogReplays == Spec => []LogReplays
<1>1. Init => TypeInv /\ StoreInv
  BY InitType, InitStore
<1>2. TypeInv /\ StoreInv /\ [Next]_vars => (TypeInv /\ StoreInv)'
  BY NextType, NextStore
<1>3. StoreInv => LogReplays
  BY DEF StoreInv
<1> QED BY <1>1, <1>2, <1>3, PTL DEF Spec

-----------------------------------------------------------------------------
(* The refinement.  Promises is the ledger of the packets the store's streams replay to,   *)
(* with what PacketLedger_proofs knows of it; its words are those of this module.          *)
Promises == INSTANCE PacketLedger_proofs WITH packets <- [p \in PacketIDs |-> Stored(p)]

LEMMA PromisesWords ==
  /\ Promises!NotStarted = NotStarted /\ Promises!InProgress = InProgress
  /\ Promises!Done = Done /\ Promises!Blocked = Blocked
  /\ Promises!ReasonDone = ReasonDone /\ Promises!ReasonSuperseded = ReasonSuperseded
  /\ Promises!Statuses = Statuses /\ Promises!CloseReasons = CloseReasons
  /\ Promises!NoPacket = NoPacket
  /\ Promises!PacketState = PacketState
  /\ \A p, tenant, parent :
       Promises!AsIssued(p, tenant, parent) = AsIssued(p, tenant, parent)
  /\ \A pkt, x : /\ Promises!AsTaken(pkt, x) = AsTaken(pkt, x)
                 /\ Promises!AsCommented(pkt) = AsCommented(pkt)
                 /\ Promises!AsMoved(pkt, x) = AsMoved(pkt, x)
                 /\ Promises!AsFinished(pkt) = AsFinished(pkt)
                 /\ Promises!AsSuperseded(pkt, x) = AsSuperseded(pkt, x)
  /\ \A pkt : Promises!Open(pkt) <=> Open(pkt)
  /\ \A from, to : Promises!LegalTransition(from, to) <=> LegalTransition(from, to)
<1>1. /\ Promises!NotStarted = NotStarted /\ Promises!InProgress = InProgress
      /\ Promises!Done = Done /\ Promises!Blocked = Blocked
      /\ Promises!ReasonDone = ReasonDone /\ Promises!ReasonSuperseded = ReasonSuperseded
  BY DEF Promises!NotStarted, NotStarted, Promises!InProgress, InProgress, Promises!Done,
         Done, Promises!Blocked, Blocked, Promises!ReasonDone, ReasonDone,
         Promises!ReasonSuperseded, ReasonSuperseded
<1>2. Promises!Statuses = Statuses /\ Promises!CloseReasons = CloseReasons
  BY <1>1 DEF Promises!Statuses, Statuses, Promises!CloseReasons, CloseReasons
<1>3. Promises!NoPacket = NoPacket
  BY DEF Promises!NoPacket, NoPacket
<1>4. Promises!Attachments = Attachments
  BY DEF Promises!Attachments, Attachments
<1>5. Promises!PacketState = PacketState
  BY <1>2, <1>4 DEF Promises!PacketState, PacketState
<1>6. \A pkt : Promises!Open(pkt) <=> Open(pkt)
  BY DEF Promises!Open, Open
<1>7. \A from, to : Promises!LegalTransition(from, to) <=> LegalTransition(from, to)
  BY <1>1 DEF Promises!LegalTransition, LegalTransition
<1>8. \A p, tenant, parent :
        Promises!AsIssued(p, tenant, parent) = AsIssued(p, tenant, parent)
  BY <1>1, <1>3 DEF Promises!AsIssued, AsIssued
<1>9. ASSUME NEW pkt, NEW x
      PROVE  /\ Promises!AsTaken(pkt, x) = AsTaken(pkt, x)
             /\ Promises!AsCommented(pkt) = AsCommented(pkt)
             /\ Promises!AsMoved(pkt, x) = AsMoved(pkt, x)
             /\ Promises!AsFinished(pkt) = AsFinished(pkt)
             /\ Promises!AsSuperseded(pkt, x) = AsSuperseded(pkt, x)
  <2>1. Promises!AsTaken(pkt, x) = AsTaken(pkt, x)
    BY <1>1 DEF Promises!AsTaken, AsTaken
  <2>2. Promises!AsCommented(pkt) = AsCommented(pkt)
    BY DEF Promises!AsCommented, AsCommented
  <2>3. Promises!AsMoved(pkt, x) = AsMoved(pkt, x)
    BY DEF Promises!AsMoved, AsMoved
  <2>4. Promises!AsFinished(pkt) = AsFinished(pkt)
    BY <1>1 DEF Promises!AsFinished, AsFinished
  <2>5. Promises!AsSuperseded(pkt, x) = AsSuperseded(pkt, x)
    BY <1>1 DEF Promises!AsSuperseded, AsSuperseded
  <2> QED BY <2>1, <2>2, <2>3, <2>4, <2>5
<1> QED BY <1>1, <1>2, <1>3, <1>5, <1>6, <1>7, <1>8, <1>9

(* The assumption of the instantiated module. *)
LEMMA PromisesAssumption ==
  None \notin PacketIDs \cup TenantIDs \cup Actors \cup Promises!Statuses
                \cup Promises!CloseReasons
  BY NoneAssumption, PromisesWords

(* An operation of the one is an operation of the other. *)
LEMMA SameOperations == Promises!Next => Ledger!Next
<1> USE DEF Promises!Issued, Ledger!Issued, Promises!Open, Ledger!Open,
            Promises!NotStarted, Ledger!NotStarted, Promises!InProgress, Ledger!InProgress,
            Promises!Done, Ledger!Done, Promises!Blocked, Ledger!Blocked,
            Promises!ReasonDone, Ledger!ReasonDone,
            Promises!ReasonSuperseded, Ledger!ReasonSuperseded,
            Promises!NoPacket, Ledger!NoPacket
<1> SUFFICES ASSUME Promises!Next PROVE Ledger!Next
  OBVIOUS
<1>1. PICK p \in PacketIDs :
        \/ \E tenant \in TenantIDs : Promises!Issue(p, tenant)
        \/ \E a \in Actors : Promises!Take(p, a)
        \/ Promises!Comment(p)
        \/ \E to \in Promises!Statuses : Promises!Move(p, to)
        \/ Promises!Finish(p)
        \/ \E r \in PacketIDs, tenant \in TenantIDs : Promises!Supersede(p, r, tenant)
  BY DEF Promises!Next
<1>2. CASE \E tenant \in TenantIDs : Promises!Issue(p, tenant)
  <2>1. PICK tenant \in TenantIDs : Promises!Issue(p, tenant)
    BY <1>2
  <2>2. Ledger!Issue(p, tenant)
    BY <2>1 DEF Promises!Issue, Ledger!Issue
  <2> QED BY <2>2 DEF Ledger!Next
<1>3. CASE \E a \in Actors : Promises!Take(p, a)
  <2>1. PICK a \in Actors : Promises!Take(p, a)
    BY <1>3
  <2>2. Ledger!Take(p, a)
    BY <2>1 DEF Promises!Take, Ledger!Take
  <2> QED BY <2>2 DEF Ledger!Next
<1>4. CASE Promises!Comment(p)
  <2>1. Ledger!Comment(p)
    BY <1>4 DEF Promises!Comment, Ledger!Comment
  <2> QED BY <2>1 DEF Ledger!Next
<1>5. CASE \E to \in Promises!Statuses : Promises!Move(p, to)
  <2>1. PICK to \in Promises!Statuses : Promises!Move(p, to)
    BY <1>5
  <2>2. Ledger!Move(p, to)
    BY <2>1 DEF Promises!Move, Ledger!Move, Promises!LegalTransition, Ledger!LegalTransition
  <2>3. to \in Ledger!Statuses
    BY <2>1 DEF Promises!Statuses, Ledger!Statuses
  <2> QED BY <2>2, <2>3 DEF Ledger!Next
<1>6. CASE Promises!Finish(p)
  <2>1. Ledger!Finish(p)
    BY <1>6 DEF Promises!Finish, Ledger!Finish
  <2> QED BY <2>1 DEF Ledger!Next
<1>7. CASE \E r \in PacketIDs, tenant \in TenantIDs : Promises!Supersede(p, r, tenant)
  <2>1. PICK r \in PacketIDs, tenant \in TenantIDs : Promises!Supersede(p, r, tenant)
    BY <1>7
  <2>2. Ledger!Supersede(p, r, tenant)
    BY <2>1 DEF Promises!Supersede, Ledger!Supersede
  <2> QED BY <2>2 DEF Ledger!Next
<1> QED BY <1>1, <1>2, <1>3, <1>4, <1>5, <1>6, <1>7

(* What a batch of one or two events does. *)
LEMMA OneEvent ==
  ASSUME NEW pkt, NEW e
  PROVE  /\ ApplyBatch(pkt, <<e>>) = ApplyEvent(pkt, e)
         /\ AcceptsBatch(pkt, <<e>>) => Accepts(pkt, e)
<1>1. Len(<<e>>) = 1 /\ <<e>>[1] = e /\ 1 \in 1..1
  OBVIOUS
<1>2. Len(SubSeq(<<e>>, 1, 1 - 1)) = 0
  OBVIOUS
<1>3. ApplyBatch(pkt, SubSeq(<<e>>, 1, 1 - 1)) = pkt
  BY <1>2 DEF ApplyBatch
<1>4. ApplyBatch(pkt, <<e>>) = ApplyEvent(pkt, e)
  BY <1>1 DEF ApplyBatch
<1> QED BY <1>1, <1>3, <1>4 DEF AcceptsBatch

LEMMA TwoEvents ==
  ASSUME NEW pkt, NEW e, NEW f
  PROVE  /\ ApplyBatch(pkt, <<e, f>>) = ApplyEvent(ApplyEvent(pkt, e), f)
         /\ AcceptsBatch(pkt, <<e, f>>) => Accepts(pkt, e) /\ Accepts(ApplyEvent(pkt, e), f)
<1> DEFINE batch == <<e, f>>
<1>1. Len(batch) = 2 /\ batch[1] = e /\ batch[2] = f /\ 1 \in 1..2 /\ 2 \in 1..2
  OBVIOUS
<1>2. /\ Len(SubSeq(batch, 1, 1 - 1)) = 0
      /\ Len(SubSeq(batch, 1, 2 - 1)) = 1
      /\ SubSeq(batch, 1, 2 - 1)[1] = e
  OBVIOUS
<1> HIDE DEF batch
<1>3. ApplyBatch(pkt, SubSeq(batch, 1, 1 - 1)) = pkt
  BY <1>2 DEF ApplyBatch
<1>4. ApplyBatch(pkt, SubSeq(batch, 1, 2 - 1)) = ApplyEvent(pkt, e)
  BY <1>2 DEF ApplyBatch
<1>5. ApplyBatch(pkt, batch) = ApplyEvent(ApplyEvent(pkt, e), f)
  BY <1>1 DEF ApplyBatch
<1>6. AcceptsBatch(pkt, batch) => Accepts(pkt, e) /\ Accepts(ApplyEvent(pkt, e), f)
  BY <1>1, <1>3, <1>4 DEF AcceptsBatch
<1> QED BY <1>5, <1>6 DEF batch

(* What the events of an admitted command say of the packet they are appended to. *)
LEMMA OwnEffect ==
  ASSUME NEW c, WellFormed(c), NEW pkt \in PacketState,
         AcceptsBatch(pkt, OwnEvents(c, pkt.status)),
         c.op = "issue" => pkt = NoPacket
  PROVE  LET own == ApplyBatch(pkt, OwnEvents(c, pkt.status)) IN
         /\ c.op = "issue" => own = AsIssued(c.packet, c.tenant, None)
         /\ c.op = "take" => /\ Open(pkt) /\ pkt.takenBy = None /\ pkt.status = NotStarted
                             /\ own = AsTaken(pkt, c.actor)
         /\ c.op = "comment" => own = AsCommented(pkt)
         /\ c.op = "transition" /\ c.to # Done =>
              Open(pkt) /\ LegalTransition(pkt.status, c.to) /\ own = AsMoved(pkt, c.to)
         /\ c.op = "transition" /\ c.to = Done =>
              Open(pkt) /\ pkt.status = InProgress /\ own = AsFinished(pkt)
         /\ c.op = "supersede" => Open(pkt) /\ own = AsSuperseded(pkt, c.replacement)
<1> DEFINE own == ApplyBatch(pkt, OwnEvents(c, pkt.status))
<1>1. c.packet \in PacketIDs /\ c.actor \in Actors
  BY DEF WellFormed
<1>2. ASSUME c.op = "issue"
      PROVE  own = AsIssued(c.packet, c.tenant, None)
  <2>1. c.tenant \in TenantIDs /\ pkt = NoPacket /\ None \in PacketIDs \cup {None}
    BY <1>2 DEF WellFormed
  <2>2. own = ApplyEvent(pkt, PacketIssued(c.packet, c.actor, c.tenant, None))
    BY <1>2, OneEvent DEF OwnEvents
  <2> QED BY <1>1, <2>1, <2>2, Issuing
<1>3. ASSUME c.op = "take"
      PROVE  /\ Open(pkt) /\ pkt.takenBy = None /\ pkt.status = NotStarted
             /\ own = AsTaken(pkt, c.actor)
  <2> DEFINE e == PacketTaken(c.packet, c.actor)
             f == PacketStatusTransitioned(c.packet, c.actor, pkt.status, InProgress, "absent")
  <2>1. OwnEvents(c, pkt.status) = <<e, f>>
    BY <1>3 DEF OwnEvents
  <2>2. /\ Accepts(pkt, e) /\ Accepts(ApplyEvent(pkt, e), f)
        /\ own = ApplyEvent(ApplyEvent(pkt, e), f)
    BY <2>1, TwoEvents
  <2>3. Open(pkt) /\ pkt.takenBy = None
    BY <2>2 DEF Accepts, PacketTaken
  <2>4. LegalTransition(ApplyEvent(pkt, e).status, InProgress)
    BY <2>2 DEF Accepts, PacketStatusTransitioned
  <2>5. ApplyEvent(pkt, e).status = pkt.status
    BY DEF ApplyEvent, PacketTaken
  <2>6. pkt.status = NotStarted
    BY <2>4, <2>5 DEF LegalTransition, NotStarted, InProgress, Done, Blocked
  <2>7. own = AsTaken(pkt, c.actor)
    BY <1>1, <2>2, Taking
  <2> QED BY <2>3, <2>6, <2>7
<1>4. ASSUME c.op = "comment"
      PROVE  own = AsCommented(pkt)
  <2>1. own = ApplyEvent(pkt, PacketCommented(c.packet, c.actor, c.attached))
    BY <1>4, OneEvent DEF OwnEvents
  <2> QED BY <1>1, <2>1, Commenting
<1>5. ASSUME c.op = "transition", c.to # Done
      PROVE  Open(pkt) /\ LegalTransition(pkt.status, c.to) /\ own = AsMoved(pkt, c.to)
  <2> DEFINE e == PacketStatusTransitioned(c.packet, c.actor, pkt.status, c.to, c.attached)
  <2>1. OwnEvents(c, pkt.status) = <<e>> /\ c.to \in Statuses
    BY <1>5 DEF OwnEvents, WellFormed
  <2>2. Accepts(pkt, e) /\ own = ApplyEvent(pkt, e)
    BY <2>1, OneEvent
  <2>3. Open(pkt) /\ LegalTransition(pkt.status, c.to)
    BY <2>2 DEF Accepts, PacketStatusTransitioned
  <2>4. own = AsMoved(pkt, c.to)
    BY <1>1, <1>5, <2>1, <2>2, Moving
  <2> QED BY <2>3, <2>4
<1>6. ASSUME c.op = "transition", c.to = Done
      PROVE  Open(pkt) /\ pkt.status = InProgress /\ own = AsFinished(pkt)
  <2> DEFINE e == PacketStatusTransitioned(c.packet, c.actor, pkt.status, Done, c.attached)
             f == PacketClosed(c.packet, c.actor, ReasonDone)
  <2>1. OwnEvents(c, pkt.status) = <<e, f>>
    BY <1>6 DEF OwnEvents
  <2>2. Accepts(pkt, e) /\ own = ApplyEvent(ApplyEvent(pkt, e), f)
    BY <2>1, TwoEvents
  <2>3. Open(pkt) /\ LegalTransition(pkt.status, Done) /\ c.attached = "given"
    BY <2>2 DEF Accepts, PacketStatusTransitioned
  <2>4. pkt.status = InProgress
    BY <2>3 DEF LegalTransition, NotStarted, InProgress, Done, Blocked
  <2>5. own = AsFinished(pkt)
    BY <1>1, <2>2, <2>3, Finishing
  <2> QED BY <2>3, <2>4, <2>5
<1>7. ASSUME c.op = "supersede"
      PROVE  Open(pkt) /\ own = AsSuperseded(pkt, c.replacement)
  <2> DEFINE e == PacketSuperseded(c.packet, c.actor, c.replacement)
             f == PacketClosed(c.packet, c.actor, ReasonSuperseded)
  <2>1. OwnEvents(c, pkt.status) = <<e, f>> /\ c.replacement \in PacketIDs
    BY <1>7 DEF OwnEvents, WellFormed
  <2>2. Accepts(pkt, e) /\ own = ApplyEvent(ApplyEvent(pkt, e), f)
    BY <2>1, TwoEvents
  <2>3. Open(pkt)
    BY <2>2 DEF Accepts, PacketSuperseded
  <2>4. own = AsSuperseded(pkt, c.replacement)
    BY <1>1, <2>1, <2>2, Superseding
  <2> QED BY <2>3, <2>4
<1> QED BY <1>2, <1>3, <1>4, <1>5, <1>6, <1>7

LEMMA StoredIs ==
  ASSUME TypeInv, NEW p \in PacketIDs
  PROVE  /\ Stored(p) \in PacketState
         /\ Stored(p).version = 0 => Stored(p) = NoPacket
         /\ log[p] = <<>> => Stored(p) = NoPacket
         /\ log[p] # <<>> => Stored(p).version # 0
<1>1. log[p] \in Seq(Event)
  BY DEF TypeInv, TypeOK
<1> QED BY <1>1, ProjectType, EmptyStream DEF Stored

LEMMA PromisesTypeOK == TypeInv => Promises!TypeOK
<1> SUFFICES ASSUME TypeInv PROVE Promises!TypeOK
  OBVIOUS
<1>1. [p \in PacketIDs |-> Stored(p)] \in [PacketIDs -> PacketState]
  BY StoredIs
<1> QED BY <1>1, PromisesWords DEF Promises!TypeOK

(* An append that is in time is one operation of the ledger. *)
LEMMA AppendIsOperation ==
  ASSUME TypeInv, StoreInv, NEW r \in Pending, Current(r), AppendToLog(r)
  PROVE  Promises!Next
<1>1. PICK c : WellFormed(c) /\ Admits(c, log) /\ r.batch = Batch(c, Stored(c.packet).status)
  BY DEF StoreInv, Sound, Backed
<1>2. PICK old : old = [p \in PacketIDs |-> Stored(p)]
  OBVIOUS
<1>3. PICK new : new = [p \in PacketIDs |-> Stored(p)']
  OBVIOUS
<1>4. /\ c.packet \in PacketIDs /\ c.actor \in Actors
      /\ c.op \in {"issue", "take", "comment", "transition", "supersede"}
      /\ c.op # "supersede" => c.replacement = None
      /\ c.op = "supersede" => c.replacement \in PacketIDs \ {c.packet}
      /\ c.op \in {"issue", "supersede"} => c.tenant \in TenantIDs
      /\ c.op = "transition" => c.to \in Statuses
  BY <1>1 DEF WellFormed
<1>5. /\ old \in [PacketIDs -> PacketState]
      /\ \A p \in PacketIDs : old[p] = Stored(p) /\ new[p] = Stored(p)'
  BY <1>2, <1>3, StoredIs
<1>6. ASSUME NEW p \in PacketIDs
      PROVE  /\ new[p] = ApplyBatch(old[p], r.batch[p])
             /\ AcceptsBatch(old[p], r.batch[p])
  <2>1. /\ log[p] \in Seq(Event) /\ r.batch[p] \in Seq(Event) /\ Len(r.batch[p]) <= 2
        /\ AcceptsBatch(Project(log[p]), r.batch[p])
    BY BackedBatch DEF Stored, TypeInv, TypeOK, StoreInv, Sound
  <2>2. Project(log[p] \o r.batch[p]) = ApplyBatch(Project(log[p]), r.batch[p])
    BY <2>1, ReplaysBatch
  <2>3. new[p] = Project(log[p] \o r.batch[p]) /\ old[p] = Project(log[p])
    BY <1>5 DEF AppendToLog, Stored
  <2> QED BY <2>1, <2>2, <2>3
<1>7. PICK pkt : pkt = old[c.packet]
  OBVIOUS
<1>8. PICK own : own = ApplyBatch(pkt, OwnEvents(c, pkt.status))
  OBVIOUS
<1>9. /\ pkt \in PacketState /\ pkt = Stored(c.packet)
      /\ r.batch[c.packet] = OwnEvents(c, pkt.status)
      /\ \A p \in PacketIDs : p # c.packet /\ p # c.replacement => r.batch[p] = <<>>
  BY <1>1, <1>4, <1>5, <1>7 DEF Batch
<1>10. /\ c.op = "issue" => pkt = NoPacket
       /\ c.op # "issue" => pkt.version # 0
       /\ c.op = "supersede" => old[c.replacement] = NoPacket
  <2>1. /\ c.op = "issue" => log[c.packet] = <<>>
        /\ c.op # "issue" => log[c.packet] # <<>>
        /\ c.op = "supersede" => log[c.replacement] = <<>>
    BY <1>1 DEF Admits
  <2> QED BY <1>4, <1>5, <1>9, <2>1, StoredIs
<1>11. AcceptsBatch(pkt, OwnEvents(c, pkt.status)) /\ new[c.packet] = own
  BY <1>4, <1>6, <1>7, <1>8, <1>9
<1>12. /\ c.op = "issue" => own = AsIssued(c.packet, c.tenant, None)
       /\ c.op = "take" => /\ Open(pkt) /\ pkt.takenBy = None /\ pkt.status = NotStarted
                           /\ own = AsTaken(pkt, c.actor)
       /\ c.op = "comment" => own = AsCommented(pkt)
       /\ c.op = "transition" /\ c.to # Done =>
            Open(pkt) /\ LegalTransition(pkt.status, c.to) /\ own = AsMoved(pkt, c.to)
       /\ c.op = "transition" /\ c.to = Done =>
            Open(pkt) /\ pkt.status = InProgress /\ own = AsFinished(pkt)
       /\ c.op = "supersede" => Open(pkt) /\ own = AsSuperseded(pkt, c.replacement)
  BY <1>1, <1>8, <1>9, <1>10, <1>11, OwnEffect
<1>13. \A p \in PacketIDs : p # c.packet /\ p # c.replacement => new[p] = old[p]
  BY <1>6, <1>9 DEF ApplyBatch
<1>14. c.op # "supersede" => new = [old EXCEPT ![c.packet] = own]
  <2> SUFFICES ASSUME c.op # "supersede" PROVE new = [old EXCEPT ![c.packet] = own]
    OBVIOUS
  <2>1. \A p \in PacketIDs : p # c.replacement
    BY <1>4, NoneAssumption
  <2> QED BY <1>3, <1>4, <1>5, <1>11, <1>13, <2>1
<1>15. /\ [p \in PacketIDs |-> Stored(p)]' = new
       /\ Promises!TypeOK
       /\ Promises!Issued(c.packet) <=> pkt.version # 0
  BY <1>2, <1>3, <1>4, <1>7, PromisesTypeOK DEF Promises!Issued
<1>16. CASE c.op = "issue"
  <2>1. pkt.version = 0
    BY <1>10, <1>16 DEF NoPacket
  <2>2. new = [old EXCEPT ![c.packet] = Promises!AsIssued(c.packet, c.tenant, None)]
    BY <1>12, <1>14, <1>16, PromisesWords
  <2> QED BY <1>2, <1>4, <1>15, <1>16, <2>1, <2>2, Promises!IsIssue, PromisesAssumption
<1>17. CASE c.op = "take"
  <2>1. new = [old EXCEPT ![c.packet] = Promises!AsTaken(old[c.packet], c.actor)]
    BY <1>7, <1>12, <1>14, <1>17, PromisesWords
  <2>2. /\ Promises!Open(old[c.packet]) /\ old[c.packet].takenBy = None
        /\ old[c.packet].status = Promises!NotStarted
    BY <1>7, <1>12, <1>17, PromisesWords
  <2> QED BY <1>2, <1>4, <1>10, <1>15, <1>17, <2>1, <2>2, Promises!IsTake, PromisesAssumption
<1>18. CASE c.op = "comment"
  <2>1. new = [old EXCEPT ![c.packet] = Promises!AsCommented(old[c.packet])]
    BY <1>7, <1>12, <1>14, <1>18, PromisesWords
  <2> QED BY <1>2, <1>4, <1>10, <1>15, <1>18, <2>1, Promises!IsComment, PromisesAssumption
<1>19. CASE c.op = "transition" /\ c.to # Done
  <2>1. new = [old EXCEPT ![c.packet] = Promises!AsMoved(old[c.packet], c.to)]
    BY <1>7, <1>12, <1>14, <1>19, PromisesWords
  <2>2. /\ Promises!Open(old[c.packet]) /\ c.to \in Promises!Statuses /\ c.to # Promises!Done
        /\ Promises!LegalTransition(old[c.packet].status, c.to)
    BY <1>4, <1>7, <1>12, <1>19, PromisesWords
  <2> QED BY <1>2, <1>4, <1>10, <1>15, <1>19, <2>1, <2>2, Promises!IsMove, PromisesAssumption
<1>20. CASE c.op = "transition" /\ c.to = Done
  <2>1. new = [old EXCEPT ![c.packet] = Promises!AsFinished(old[c.packet])]
    BY <1>7, <1>12, <1>14, <1>20, PromisesWords
  <2>2. Promises!Open(old[c.packet]) /\ old[c.packet].status = Promises!InProgress
    BY <1>7, <1>12, <1>20, PromisesWords
  <2> QED BY <1>2, <1>4, <1>10, <1>15, <1>20, <2>1, <2>2, Promises!IsFinish, PromisesAssumption
<1>21. CASE c.op = "supersede"
  <2>1. PICK q \in PacketIDs : q = c.replacement /\ q # c.packet /\ old[q] = NoPacket
    BY <1>4, <1>10, <1>21
  <2>2. r.batch[q] = <<PacketIssued(q, c.actor, c.tenant, c.packet)>>
    BY <1>1, <1>4, <2>1 DEF Batch
  <2>3. new[q] = AsIssued(q, c.tenant, c.packet)
    <3>1. new[q] = ApplyEvent(NoPacket, PacketIssued(q, c.actor, c.tenant, c.packet))
      BY <1>6, <2>1, <2>2, OneEvent
    <3> QED BY <1>4, <1>21, <3>1, Issuing, NoPacketType
  <2>4. new = [old EXCEPT ![c.packet] = own, ![q] = AsIssued(q, c.tenant, c.packet)]
    BY <1>3, <1>4, <1>5, <1>11, <1>13, <2>1, <2>3
  <2>5. new = [old EXCEPT ![c.packet] = Promises!AsSuperseded(old[c.packet], q),
                          ![q] = Promises!AsIssued(q, c.tenant, c.packet)]
    BY <1>7, <1>12, <1>21, <2>1, <2>4, PromisesWords
  <2>6. /\ Promises!Open(old[c.packet])
        /\ ~Promises!Issued(q)
    BY <1>2, <1>7, <1>12, <1>21, <2>1, PromisesWords DEF Promises!Issued, NoPacket
  <2> QED BY <1>2, <1>4, <1>10, <1>15, <1>21, <2>5, <2>6, Promises!IsSupersede,
             PromisesAssumption
<1> QED BY <1>4, <1>16, <1>17, <1>18, <1>19, <1>20, <1>21


-----------------------------------------------------------------------------
(* Every step is mapped to one operation of the ledger, or to none. *)

LEMMA OnlyAppendsChangeLog ==
  ASSUME [Next]_vars, log' # log
  PROVE  \E r \in Pending : Current(r) /\ AppendToLog(r)
<1>1. ~UNCHANGED vars
  BY DEF vars, storeVars
<1>2. ASSUME NEW t \in Trackers, Call(t)
      PROVE  FALSE
  <2>1. CASE Issue(t) \/ Take(t) \/ Comment(t) \/ Transition(t) \/ Supersede(t)
    <3>1. \E c : Begin(t, c)
      BY <2>1 DEF Issue, Take, Comment, Transition, Supersede
    <3>2. log' = log
      BY <3>1 DEF Begin, storeVars
    <3> QED BY <3>2
  <2>2. CASE ReadPacket(t) \/ ReadHistoryUnprojected(t) \/ ReadPackets(t)
             \/ DropProjection(t) \/ RebuildProjection(t)
    <3>1. log' = log
      BY <2>2 DEF ReadPacket, ReadHistoryUnprojected, ReadPackets, DropProjection,
                  RebuildProjection, storeVars
    <3> QED BY <3>1
  <2> QED BY <1>2, <2>1, <2>2 DEF Call
<1>3. ASSUME NEW t \in Trackers, Progress(t)
      PROVE  Commit(t)
  <2>1. CASE LoadReplacement(t) \/ LoadFails(t) \/ Refuse(t) \/ Acknowledge(t)
             \/ LearnRefusal(t) \/ Reread(t) \/ RereadFails(t)
    <3>1. log' = log
      BY <2>1 DEF LoadReplacement, LoadFails, Refuse, Acknowledge, LearnRefusal, Reread,
                  RereadFails, storeVars
    <3> QED BY <3>1
  <2>2. CASE TimeOut(t)
    <3>1. log' = log
      BY <2>2 DEF TimeOut
    <3> QED BY <3>1
  <2> QED BY <1>3, <2>1, <2>2 DEF Progress
<1>4. ASSUME NEW t \in Trackers, Crash(t) \/ Start(t)
      PROVE  FALSE
  <2>1. log' = log
    BY <1>4 DEF Crash, Start, storeVars
  <2> QED BY <2>1
<1>5. ASSUME NEW r \in late, CommitLate(r) \/ LoseLate(r)
      PROVE  CommitLate(r)
  <2>1. LoseLate(r) => log' = log
    BY DEF LoseLate
  <2> QED BY <1>5, <2>1
<1>6. ASSUME NEW t \in Trackers, Commit(t)
      PROVE  request[t] \in Pending /\ Current(request[t]) /\ AppendToLog(request[t])
  BY <1>6 DEF Commit, Pending
<1>7. ASSUME NEW r \in late, CommitLate(r)
      PROVE  r \in Pending /\ Current(r) /\ AppendToLog(r)
  BY <1>7 DEF CommitLate, Pending
<1>8. Next
  BY <1>1
<1>9. CASE \E t \in Trackers : Call(t) \/ Progress(t) \/ Crash(t) \/ Start(t)
  <2>1. PICK t \in Trackers : Call(t) \/ Progress(t) \/ Crash(t) \/ Start(t)
    BY <1>9
  <2>2. Commit(t)
    BY <1>2, <1>3, <1>4, <2>1
  <2> QED BY <1>6, <2>2
<1>10. CASE \E r \in late : CommitLate(r) \/ LoseLate(r)
  <2>1. PICK r \in late : CommitLate(r)
    BY <1>5, <1>10
  <2> QED BY <1>7, <2>1
<1> QED BY <1>8, <1>9, <1>10 DEF Next

LEMMA StepIsOperation ==
  ASSUME TypeInv, StoreInv, [Next]_vars, log' # log
  PROVE  Promises!Next
<1>1. PICK r \in Pending : Current(r) /\ AppendToLog(r)
  BY OnlyAppendsChangeLog
<1> QED BY <1>1, AppendIsOperation

(* An empty store is the empty ledger. *)
LEMMA EmptyStoreIsEmptyLedger == Init => Ledger!Init /\ Promises!Init
<1> SUFFICES ASSUME Init PROVE Ledger!Init /\ Promises!Init
  OBVIOUS
<1>1. \A p \in PacketIDs : Stored(p) = NoPacket
  BY EmptyStream, ShortStreams DEF Init, NoStreams, Stored
<1>2. Ledger!Init
  BY <1>1 DEF Ledger!Init, Ledger!NoPacket, NoPacket
<1> QED BY <1>2 DEF Ledger!Init, Promises!Init, Ledger!NoPacket, Promises!NoPacket

LEMMA StepIsMapped ==
  TypeInv /\ StoreInv /\ [Next]_vars => [log' # log => Ledger!Next]_vars
  BY StepIsOperation, SameOperations

(* Whatever the trackers race for and whatever answers are lost, every change of the       *)
(* store is one whole operation of the ledger: the Tracker implements PacketLedger.        *)
THEOREM TrackerImplementsLedger == Spec => ImplementsLedger
<1>1. Init => TypeInv /\ StoreInv
  BY InitType, InitStore
<1>2. TypeInv /\ StoreInv /\ [Next]_vars => (TypeInv /\ StoreInv)'
  BY NextType, NextStore
<1>3. Init => Ledger!Init
  BY EmptyStoreIsEmptyLedger
<1> QED BY <1>1, <1>2, <1>3, StepIsMapped, PTL DEF Spec, ImplementsLedger

-----------------------------------------------------------------------------
(* What the ledger promises of its packets holds of those in the store. *)

\* A step of the ledger, seen from the packets alone; a step of a tracker is one.
LEMMA StepOfPromises ==
  ASSUME TypeInv, StoreInv, [Next]_vars
  PROVE  [Promises!Next]_([p \in PacketIDs |-> Stored(p)])
<1>1. CASE log' = log
  <2>1. \A p \in PacketIDs : Stored(p)' = Stored(p)
    BY <1>1 DEF Stored
  <2> QED BY <2>1
<1>2. CASE log' # log
  BY <1>2, StepIsOperation
<1> QED BY <1>1, <1>2

PromisesInv == Promises!Inv

LEMMA PromisesInit == Init => PromisesInv
  BY EmptyStoreIsEmptyLedger, Promises!InvInit, PromisesAssumption DEF PromisesInv

LEMMA PromisesNext == TypeInv /\ StoreInv /\ PromisesInv /\ [Next]_vars => PromisesInv'
<1> SUFFICES ASSUME TypeInv, StoreInv, PromisesInv, [Next]_vars PROVE PromisesInv'
  OBVIOUS
<1>1. [Promises!Next]_([p \in PacketIDs |-> Stored(p)])
  BY StepOfPromises
<1>2. Promises!Inv
  BY DEF PromisesInv
<1>3. Promises!Inv'
  BY <1>1, <1>2, Promises!InvNext, PromisesAssumption
<1> QED BY <1>3 DEF PromisesInv

(* A supersession is whole in both streams or absent from both: the packets of the store  *)
(* name each other as replacement and parent.                                             *)
THEOREM TrackerLinksAgree == Spec => []LinksAgree
<1>1. Init => TypeInv /\ StoreInv /\ PromisesInv
  BY InitType, InitStore, PromisesInit
<1>2. TypeInv /\ StoreInv /\ PromisesInv /\ [Next]_vars => (TypeInv /\ StoreInv /\ PromisesInv)'
  BY NextType, NextStore, PromisesNext
<1>3. PromisesInv => LinksAgree
  <2> SUFFICES ASSUME PromisesInv, NEW p \in PacketIDs, NEW q \in PacketIDs
               PROVE  Stored(p).supersededBy = q <=> Stored(q).parent = p
    BY DEF LinksAgree
  <2>1. Promises!LinksAgree
    BY DEF PromisesInv, Promises!Inv
  <2> QED BY <2>1 DEF Promises!LinksAgree
<1> QED BY <1>1, <1>2, <1>3, PTL DEF Spec

(* However often work in the store is superseded, and whichever trackers race for it, the  *)
(* chain of replacements never closes into a cycle and one packet at most of it is open.   *)
THEOREM TrackerLineages == Spec => [](Ledger!LineageIsFounded /\ Ledger!OneOpenPerLineage)
<1>1. Init => TypeInv /\ StoreInv /\ PromisesInv
  BY InitType, InitStore, PromisesInit
<1>2. TypeInv /\ StoreInv /\ PromisesInv /\ [Next]_vars => (TypeInv /\ StoreInv /\ PromisesInv)'
  BY NextType, NextStore, PromisesNext
<1>3. PromisesInv => Promises!LineageIsFounded /\ Promises!OneOpenPerLineage
  BY Promises!OneOpenOfALineage, PromisesAssumption DEF PromisesInv, Promises!Inv
<1>4. Promises!LineageIsFounded => Ledger!LineageIsFounded
  BY DEF Promises!LineageIsFounded, Ledger!LineageIsFounded
<1>5. \A S : Promises!ClosedUnderLinks(S) <=> Ledger!ClosedUnderLinks(S)
  BY DEF Promises!ClosedUnderLinks, Ledger!ClosedUnderLinks
<1>6. \A p, q : Promises!SameLineage(p, q) <=> Ledger!SameLineage(p, q)
  BY <1>5 DEF Promises!SameLineage, Ledger!SameLineage
<1>7. Promises!OneOpenPerLineage => Ledger!OneOpenPerLineage
  BY <1>6 DEF Promises!OneOpenPerLineage, Ledger!OneOpenPerLineage, Promises!Issued,
              Ledger!Issued, Promises!Open, Ledger!Open
<1> QED BY <1>1, <1>2, <1>3, <1>4, <1>7, PTL DEF Spec

(* What one step does to the packet of one stream. *)
LEMMA StepOfPacket ==
  ASSUME TypeInv, StoreInv, [Next]_vars, NEW p \in PacketIDs
  PROVE  Promises!Lifecycle(Stored(p), Stored(p)')
<1>1. [Promises!Next]_([x \in PacketIDs |-> Stored(x)]) /\ Promises!TypeOK
  BY StepOfPromises, PromisesTypeOK
<1>2. Promises!Lifecycle([x \in PacketIDs |-> Stored(x)][p], [x \in PacketIDs |-> Stored(x)]'[p])
  BY <1>1, Promises!EveryPacketSteps, PromisesAssumption
<1> QED BY <1>2

PacketsAreWhole == \A p \in PacketIDs : Promises!Whole(Stored(p))

LEMMA WholeInit == Init => PacketsAreWhole
<1> SUFFICES ASSUME Init, NEW p \in PacketIDs PROVE Promises!Whole(Stored(p))
  BY DEF PacketsAreWhole
<1>1. Stored(p) = Promises!NoPacket
  BY EmptyStream, ShortStreams, PromisesWords DEF Init, NoStreams, Stored
<1> QED BY <1>1, Promises!NoPacketIsWhole, PromisesAssumption

LEMMA WholeNext == TypeInv /\ StoreInv /\ PacketsAreWhole /\ [Next]_vars => PacketsAreWhole'
<1> SUFFICES ASSUME TypeInv, StoreInv, PacketsAreWhole, [Next]_vars, NEW p \in PacketIDs
             PROVE  Promises!Whole(Stored(p)')
  BY DEF PacketsAreWhole
<1>1. Promises!Lifecycle(Stored(p), Stored(p)') /\ Promises!Whole(Stored(p))
  BY StepOfPacket DEF PacketsAreWhole
<1>2. Stored(p) \in Promises!PacketState
  BY StoredIs, PromisesWords
<1> QED BY <1>1, <1>2, Promises!LifecycleKeepsWhole, PromisesAssumption

(* No stream ever ends inside a mutation of several events: a packet is done, closed and   *)
(* with evidence at once, superseded and closed at once, taken and started at once.        *)
THEOREM TrackerMutationsAreWhole == Spec => []MutationsAreWhole
<1>1. Init => TypeInv /\ StoreInv /\ PacketsAreWhole
  BY InitType, InitStore, WholeInit
<1>2. TypeInv /\ StoreInv /\ PacketsAreWhole /\ [Next]_vars
        => (TypeInv /\ StoreInv /\ PacketsAreWhole)'
  BY NextType, NextStore, WholeNext
<1>3. PacketsAreWhole => MutationsAreWhole
  BY PromisesWords DEF PacketsAreWhole, Promises!Whole, MutationsAreWhole
<1> QED BY <1>1, <1>2, <1>3, PTL DEF Spec

(* A closed packet only ever gains comments, whoever still holds an older version of it.   *)
THEOREM TrackerClosedIsFinal == Spec => ClosedIsFinal
<1>1. Init => TypeInv /\ StoreInv
  BY InitType, InitStore
<1>2. TypeInv /\ StoreInv /\ [Next]_vars => (TypeInv /\ StoreInv)'
  BY NextType, NextStore
<1>3. ASSUME TypeInv, StoreInv, TypeInv', [Next]_vars, NEW p \in PacketIDs,
             Stored(p).closure # None
      PROVE  /\ Stored(p).comments \subseteq Project(log'[p]).comments
             /\ Project(log'[p]) = [Stored(p) EXCEPT !.version = Project(log'[p]).version,
                                                     !.comments = Project(log'[p]).comments]
  <2>1. Promises!Lifecycle(Stored(p), Stored(p)')
    BY <1>3, StepOfPacket
  <2>2. PICK new : new = Stored(p)'
    OBVIOUS
  <2>3. /\ Stored(p) \in Promises!PacketState
        /\ Stored(p).version = 0 => Stored(p) = Promises!NoPacket
    BY <1>3, StoredIs, PromisesWords
  <2>4. new \in Promises!PacketState
    <3>1. log'[p] \in Seq(Event)
      BY <1>3 DEF TypeInv, TypeOK
    <3> QED BY <2>2, <3>1, ProjectType, PromisesWords DEF Stored
  <2>5. /\ Stored(p).comments \subseteq new.comments
        /\ new = [Stored(p) EXCEPT !.version = new.version, !.comments = new.comments]
    BY <1>3, <2>1, <2>2, <2>3, <2>4, Promises!ClosedGainsComments, PromisesAssumption
  <2>6. new = Project(log'[p])
    BY <2>2 DEF Stored
  <2> QED BY <2>5, <2>6
<1>4. TypeInv /\ StoreInv /\ TypeInv' /\ [Next]_vars =>
        [\A p \in {q \in PacketIDs : log'[q] # log[q]} :
           LET pkt == Stored(p)  new == Project(log'[p])
           IN  pkt.closure # None =>
                 /\ pkt.comments \subseteq new.comments
                 /\ new = [pkt EXCEPT !.version = new.version, !.comments = new.comments]]_vars
  BY <1>3
<1> QED BY <1>1, <1>2, <1>4, PTL DEF Spec, ClosedIsFinal

(* What is once known of a packet is never rewritten, whoever raced for it: its tenant and *)
(* its parent, who took it, what replaced it and why it was closed.                        *)
THEOREM TrackerWrittenOnce == Spec => WrittenOnce
<1>1. Init => TypeInv /\ StoreInv /\ PacketsAreWhole
  BY InitType, InitStore, WholeInit
<1>2. TypeInv /\ StoreInv /\ PacketsAreWhole /\ [Next]_vars
        => (TypeInv /\ StoreInv /\ PacketsAreWhole)'
  BY NextType, NextStore, WholeNext
<1>3. ASSUME TypeInv, StoreInv, PacketsAreWhole, [Next]_vars, NEW p \in PacketIDs
      PROVE  LET pkt == Stored(p)  new == Project(log'[p])
             IN  /\ pkt.version # 0 => pkt.tenant = new.tenant /\ pkt.parent = new.parent
                 /\ pkt.takenBy \in {None, new.takenBy}
                 /\ pkt.supersededBy \in {None, new.supersededBy}
                 /\ pkt.closure \in {None, new.closure}
  <2>1. Promises!Lifecycle(Stored(p), Stored(p)')
    BY <1>3, StepOfPacket
  <2>2. PICK new : new = Stored(p)'
    OBVIOUS
  <2>3. /\ Stored(p) \in Promises!PacketState /\ Promises!Whole(Stored(p))
        /\ Stored(p).version = 0 => Stored(p) = Promises!NoPacket
    BY <1>3, StoredIs, PromisesWords DEF PacketsAreWhole
  <2>4. /\ Stored(p).version # 0 => /\ Stored(p).tenant = new.tenant
                                    /\ Stored(p).parent = new.parent
        /\ Stored(p).takenBy \in {None, new.takenBy}
        /\ Stored(p).supersededBy \in {None, new.supersededBy}
        /\ Stored(p).closure \in {None, new.closure}
    BY <2>1, <2>2, <2>3, Promises!LifecycleWritesOnce, PromisesAssumption
  <2>5. new = Project(log'[p])
    BY <2>2 DEF Stored
  <2> QED BY <2>4, <2>5
<1>4. TypeInv /\ StoreInv /\ PacketsAreWhole /\ [Next]_vars =>
        [\A p \in {q \in PacketIDs : log'[q] # log[q]} :
           LET pkt == Stored(p)  new == Project(log'[p])
           IN  /\ pkt.version # 0 => pkt.tenant = new.tenant /\ pkt.parent = new.parent
               /\ pkt.takenBy \in {None, new.takenBy}
               /\ pkt.supersededBy \in {None, new.supersededBy}
               /\ pkt.closure \in {None, new.closure}]_vars
  BY <1>3
<1> QED BY <1>1, <1>2, <1>4, PTL DEF Spec, WrittenOnce

-----------------------------------------------------------------------------
(* The caches.  CacheIsPast and CommittedOnTop say nothing of an append on its way; what  *)
(* they lack to be inductive is that its tracker caches the very streams it was decided   *)
(* against, and that these accept its events.                                             *)

Answering == {"appending", "committed"}

Cached(t) ==
    /\ \A p \in PacketIDs : IsPrefix(streams[t][p], log[p])
    /\ ready[t] => \A p \in PacketIDs : projection[t][p] = Project(streams[t][p])
    /\ phase[t] = "appending" =>
         \A p \in Touched(request[t]) : Len(streams[t][p]) = request[t].expected[p]
    /\ phase[t] = "committed" =>
         \A p \in Touched(request[t]) : IsPrefix(streams[t][p] \o request[t].batch[p], log[p])
    /\ phase[t] \in Answering =>
         \A p \in PacketIDs : AcceptsBatch(Project(streams[t][p]), request[t].batch[p])

CacheInv == \A t \in Trackers : Cached(t)

\* A step leaves the cache of u, or where u is in its command.
KeepsCache(u) ==
    streams'[u] = streams[u] /\ projection'[u] = projection[u] /\ ready'[u] = ready[u]
KeepsCall(u) == phase'[u] = phase[u] /\ request'[u] = request[u]

\* A step of t leaves every other tracker alone.
LeavesOthers(t) == \A u \in Trackers \ {t} : KeepsCache(u) /\ KeepsCall(u)

LogGrows == \A p \in PacketIDs : IsPrefix(log[p], log'[p])

LEMMA LogOnlyGrows ==
  ASSUME TypeInv, StoreInv, [Next]_vars
  PROVE  LogGrows
<1> SUFFICES ASSUME NEW p \in PacketIDs PROVE IsPrefix(log[p], log'[p])
  BY DEF LogGrows
<1>1. log[p] \in Seq(Event)
  BY DEF TypeInv, TypeOK
<1>2. CASE log' = log
  BY <1>1, <1>2, PrefixFacts
<1>3. CASE log' # log
  <2>1. PICK r \in Pending : Current(r) /\ AppendToLog(r)
    BY <1>3, OnlyAppendsChangeLog
  <2>2. Backed(r)
    BY <2>1 DEF StoreInv, Sound
  <2>3. r.batch[p] \in Seq(Event) /\ log'[p] = log[p] \o r.batch[p]
    BY <2>1, <2>2, BackedBatch DEF AppendToLog
  <2> QED BY <1>1, <2>3, PrefixFacts
<1> QED BY <1>2, <1>3

LEMMA CacheTypes ==
  ASSUME TypeInv, NEW t \in Trackers, NEW p \in PacketIDs
  PROVE  /\ log[p] \in Seq(Event) /\ streams[t][p] \in Seq(Event)
         /\ held[t][p] \in Seq(Event)
         /\ request[t].batch[p] \in Seq(Event) /\ Len(request[t].batch[p]) <= 2
         /\ streams[t][p] \o request[t].batch[p] \in Seq(Event)
<1>1. /\ log[p] \in Seq(Event) /\ streams[t][p] \in Seq(Event) /\ held[t][p] \in Seq(Event)
      /\ request[t].batch[p] \in Seq(Event) /\ Len(request[t].batch[p]) <= 2
  BY DEF TypeInv, TypeOK, Request, Small
<1> QED BY <1>1

(* A tracker whose cache a step leaves alone is as it was, or out of its append. *)
LEMMA Unmoved ==
  ASSUME TypeInv, TypeInv', LogGrows, NEW u \in Trackers, Cached(u), KeepsCache(u),
         KeepsCall(u) \/ phase'[u] \notin Answering
  PROVE  Cached(u)'
<1>1. \A p \in PacketIDs : IsPrefix(streams'[u][p], log'[p])
  <2> SUFFICES ASSUME NEW p \in PacketIDs PROVE IsPrefix(streams[u][p], log'[p])
    BY DEF KeepsCache
  <2>1. log[p] \in Seq(Event) /\ streams[u][p] \in Seq(Event) /\ log'[p] \in Seq(Event)
    BY CacheTypes DEF TypeInv, TypeOK
  <2>2. IsPrefix(streams[u][p], log[p]) /\ IsPrefix(log[p], log'[p])
    BY DEF Cached, LogGrows
  <2> QED BY <2>1, <2>2, PrefixTransitive
<1>2. ready'[u] => \A p \in PacketIDs : projection'[u][p] = Project(streams'[u][p])
  BY DEF Cached, KeepsCache
<1>3. CASE phase'[u] \notin Answering
  <2>1. phase'[u] # "appending" /\ phase'[u] # "committed"
    BY <1>3 DEF Answering
  <2> QED BY <1>1, <1>2, <1>3, <2>1 DEF Cached, Answering
<1>4. CASE KeepsCall(u)
  <2>1. phase'[u] = "committed" =>
          \A p \in Touched(request[u]) :
            IsPrefix(streams[u][p] \o request[u].batch[p], log'[p])
    <3> SUFFICES ASSUME phase[u] = "committed", NEW p \in Touched(request[u])
                 PROVE  IsPrefix(streams[u][p] \o request[u].batch[p], log'[p])
      BY <1>4 DEF KeepsCall
    <3>1. p \in PacketIDs /\ IsPrefix(streams[u][p] \o request[u].batch[p], log[p])
      BY DEF Cached, Touched
    <3>2. /\ log[p] \in Seq(Event) /\ log'[p] \in Seq(Event) /\ IsPrefix(log[p], log'[p])
          /\ streams[u][p] \o request[u].batch[p] \in Seq(Event)
      BY <3>1, CacheTypes DEF TypeInv, TypeOK, LogGrows
    <3> QED BY <3>1, <3>2, PrefixTransitive
  <2>2. phase'[u] = "appending" =>
          \A p \in Touched(request[u]) : Len(streams[u][p]) = request[u].expected[p]
    BY <1>4 DEF Cached, KeepsCall
  <2>3. phase'[u] \in Answering =>
          \A p \in PacketIDs : AcceptsBatch(Project(streams[u][p]), request[u].batch[p])
    BY <1>4 DEF Cached, KeepsCall
  <2> QED BY <1>1, <1>2, <1>4, <2>1, <2>2, <2>3 DEF Cached, KeepsCall, KeepsCache, Touched
<1> QED BY <1>3, <1>4

LEMMA StepOfOne ==
  ASSUME TypeInv, TypeInv', LogGrows, CacheInv, NEW t \in Trackers, LeavesOthers(t),
         Cached(t)'
  PROVE  CacheInv'
<1> SUFFICES ASSUME NEW u \in Trackers, u # t PROVE Cached(u)'
  BY DEF CacheInv
<1> QED BY Unmoved DEF CacheInv, LeavesOthers

\* What a step may do to the cache of its tracker: each of its streams becomes an earlier
\* state of the store, and its packets the replay of these.
Recached(t) ==
    /\ \A p \in PacketIDs : IsPrefix(streams'[t][p], log'[p])
    /\ ready'[t] => \A p \in PacketIDs : projection'[t][p] = Project(streams'[t][p])

LEMMA RefreshRecaches ==
  ASSUME TypeInv, CacheInv, log' = log, NEW t \in Trackers,
         NEW targets \in SUBSET PacketIDs, NEW read,
         \A p \in targets : IsPrefix(read[p], log[p]), Refresh(t, targets, read)
  PROVE  /\ Recached(t)
         /\ \A u \in Trackers \ {t} : KeepsCache(u)
<1>1. ready' = ready /\ Cached(t)
  BY DEF Refresh, CacheInv
<1>2. CASE \A p \in targets : Replays(read[p])
  <2>1. /\ streams' = [streams EXCEPT ![t] =
             [p \in PacketIDs |-> IF p \in targets THEN read[p] ELSE @[p]]]
        /\ projection' = [projection EXCEPT ![t] =
             [p \in PacketIDs |-> IF p \in targets THEN Project(read[p]) ELSE @[p]]]
    BY <1>2 DEF Refresh
  <2>2. \A p \in PacketIDs :
          /\ p \in targets => /\ streams'[t][p] = read[p]
                              /\ projection'[t][p] = Project(read[p])
          /\ p \notin targets => /\ streams'[t][p] = streams[t][p]
                                 /\ projection'[t][p] = projection[t][p]
    BY <2>1 DEF TypeInv, TypeOK
  <2>3. \A u \in Trackers \ {t} : KeepsCache(u)
    BY <1>1, <2>1 DEF TypeInv, TypeOK, KeepsCache
  <2>4. Recached(t)
    BY <1>1, <2>2 DEF Recached, Cached
  <2> QED BY <2>3, <2>4
<1>3. CASE ~\A p \in targets : Replays(read[p])
  <2>1. streams' = streams /\ projection' = projection
    BY <1>3 DEF Refresh
  <2> QED BY <1>1, <2>1 DEF Recached, Cached, KeepsCache
<1> QED BY <1>2, <1>3

LEMMA ReloadRecaches ==
  ASSUME TypeInv, CacheInv, log' = log, NEW t \in Trackers, Reload(t)
  PROVE  /\ Recached(t)
         /\ \A u \in Trackers \ {t} : KeepsCache(u)
<1>1. Cached(t)
  BY DEF CacheInv
<1>2. CASE \A p \in PacketIDs : Replays(log[p])
  <2>1. /\ streams' = [streams EXCEPT ![t] = log]
        /\ projection' = [projection EXCEPT ![t] = [p \in PacketIDs |-> Project(log[p])]]
        /\ ready' = [ready EXCEPT ![t] = TRUE]
    BY <1>2 DEF Reload
  <2>2. \A p \in PacketIDs : /\ streams'[t][p] = log[p]
                             /\ projection'[t][p] = Project(log[p])
                             /\ IsPrefix(log[p], log[p])
    BY <2>1, CacheTypes, PrefixFacts DEF TypeInv, TypeOK
  <2>3. \A u \in Trackers \ {t} : KeepsCache(u)
    BY <2>1 DEF TypeInv, TypeOK, KeepsCache
  <2> QED BY <2>2, <2>3 DEF Recached
<1>3. CASE ~\A p \in PacketIDs : Replays(log[p])
  <2>1. UNCHANGED cacheVars
    BY <1>3 DEF Reload
  <2> QED BY <1>1, <2>1 DEF cacheVars, Recached, Cached, KeepsCache
<1> QED BY <1>2, <1>3

LEMMA KeepsRecached ==
  ASSUME CacheInv, log' = log, NEW t \in Trackers, KeepsCache(t)
  PROVE  Recached(t)
  BY DEF CacheInv, Cached, KeepsCache, Recached

(* A step that leaves its tracker outside an append has only its cache to account for. *)
LEMMA OutOfAppend ==
  ASSUME TypeInv, TypeInv', LogGrows, CacheInv, NEW t \in Trackers, Recached(t),
         \A u \in Trackers \ {t} : KeepsCache(u) /\ KeepsCall(u),
         phase'[t] \notin Answering
  PROVE  CacheInv'
<1>1. phase'[t] # "appending" /\ phase'[t] # "committed"
  BY DEF Answering
<1>2. Cached(t)'
  BY <1>1 DEF Cached, Recached, Answering
<1> QED BY <1>2, StepOfOne DEF LeavesOthers

LEMMA IdleKeepsCalls ==
  ASSUME TypeInv, NEW t \in Trackers, BecomeIdle(t)
  PROVE  /\ \A u \in Trackers \ {t} : KeepsCall(u)
         /\ phase'[t] \notin Answering
<1>1. phase'[t] = "idle" /\ "idle" \notin Answering
  BY DEF BecomeIdle, TypeInv, TypeOK, Answering
<1> QED BY <1>1 DEF BecomeIdle, TypeInv, TypeOK, KeepsCall

LEMMA DecideCaches ==
  ASSUME TypeInv, TypeInv', LogGrows, CacheInv, log' = log,
         NEW t \in Trackers, NEW c, WellFormed(c),
         NEW read \in [PacketIDs -> Seq(Event)],
         \A p \in Targets(c) : IsPrefix(read[p], log[p]), Decide(t, c, read)
  PROVE  CacheInv'
<1>1. Targets(c) \in SUBSET PacketIDs /\ Refresh(t, Targets(c), read)
  BY TargetsAre DEF Decide
<1>2. Recached(t) /\ \A u \in Trackers \ {t} : KeepsCache(u)
  BY <1>1, RefreshRecaches
<1>3. CASE BecomeIdle(t)
  BY <1>2, <1>3, IdleKeepsCalls, OutOfAppend
<1>4. CASE ~BecomeIdle(t)
  <2> DEFINE r == [expected |-> [p \in PacketIDs |->
                                   IF p \in Targets(c) THEN Len(read[p]) ELSE 0],
                   batch    |-> Batch(c, Project(read[c.packet]).status)]
  <2>1. /\ Admits(c, read)
        /\ phase'   = [phase EXCEPT ![t] = "appending"]
        /\ request' = [request EXCEPT ![t] = r]
    BY <1>4 DEF Decide
  <2>2. /\ r.batch = Batch(c, Project(read[c.packet]).status)
        /\ \A p \in PacketIDs : p \in Targets(c) => r.expected[p] = Len(read[p])
    OBVIOUS
  <2> HIDE DEF r
  <2>3. Project(read[c.packet]).status \in Statuses \cup {None}
    <3>1. Project(read[c.packet]) \in PacketState
      BY ProjectType DEF WellFormed
    <3> QED BY <3>1 DEF PacketState
  <2>4. Touched(r) = Targets(c)
    BY <2>2, <2>3, BatchType, TargetsAre DEF Touched
  <2>5. phase'[t] = "appending" /\ request'[t] = r
    BY <2>1 DEF TypeInv, TypeOK
  <2>6. \A u \in Trackers \ {t} : KeepsCall(u)
    BY <2>1 DEF TypeInv, TypeOK, KeepsCall
  <2>7. \A p \in Targets(c) : Replays(read[p]) /\ AcceptsBatch(Project(read[p]), r.batch[p])
    BY <2>1, <2>2 DEF Admits
  <2>8. \A p \in Targets(c) : streams'[t][p] = read[p]
    <3>1. streams' = [streams EXCEPT ![t] =
            [p \in PacketIDs |-> IF p \in Targets(c) THEN read[p] ELSE @[p]]]
      BY <1>1, <2>7 DEF Refresh
    <3> QED BY <1>1, <3>1 DEF TypeInv, TypeOK
  <2>9. \A p \in Touched(r) : Len(streams'[t][p]) = r.expected[p]
    BY <1>1, <2>2, <2>4, <2>8
  <2>10. ASSUME NEW p \in PacketIDs
         PROVE  AcceptsBatch(Project(streams'[t][p]), r.batch[p])
    <3>1. CASE p \in Targets(c)
      BY <2>7, <2>8, <3>1
    <3>2. CASE p \notin Targets(c)
      <4>1. r.batch[p] = <<>>
        BY <2>4, <3>2 DEF Touched
      <4>2. Len(r.batch[p]) = 0
        BY <4>1, ShortStreams
      <4> QED BY <4>2 DEF AcceptsBatch
    <3> QED BY <3>1, <3>2
  <2>11. Cached(t)'
    BY <1>2, <2>5, <2>9, <2>10 DEF Cached, Recached, Touched
  <2> QED BY <1>2, <2>6, <2>11, StepOfOne DEF LeavesOthers
<1> QED BY <1>3, <1>4

LEMMA BeginCaches ==
  ASSUME TypeInv, TypeInv', LogGrows, CacheInv, NEW t \in Trackers, NEW c, WellFormed(c),
         Begin(t, c)
  PROVE  CacheInv'
<1> DEFINE read == [NoStreams EXCEPT ![c.packet] = log[c.packet]]
<1>1. log' = log
  BY DEF Begin, storeVars
<1>2. /\ c.packet \in PacketIDs
      /\ log \in [PacketIDs -> Seq(Event)]
  BY DEF WellFormed, TypeInv, TypeOK
<1>3. read \in [PacketIDs -> Seq(Event)] /\ read[c.packet] = log[c.packet]
  <2>1. read = [p \in PacketIDs |-> IF p = c.packet THEN log[c.packet] ELSE <<>>]
    BY <1>2 DEF NoStreams
  <2>2. <<>> \in Seq(Event) /\ log[c.packet] \in Seq(Event)
    BY <1>2, ShortStreams
  <2> HIDE DEF read
  <2> QED BY <1>2, <2>1, <2>2
<1>4. IF Targets(c) = {c.packet} THEN Decide(t, c, read)
      ELSE /\ phase' = [phase EXCEPT ![t] = "loading"]
           /\ request' = request
           /\ UNCHANGED cacheVars
  BY DEF Begin
<1> HIDE DEF read
<1>5. CASE Targets(c) = {c.packet}
  <2>1. \A p \in Targets(c) : IsPrefix(read[p], log[p])
    BY <1>2, <1>3, <1>5, PrefixFacts
  <2> QED BY <1>1, <1>3, <1>4, <1>5, <2>1, DecideCaches
<1>6. CASE Targets(c) # {c.packet}
  <2>1. phase' = [phase EXCEPT ![t] = "loading"] /\ request' = request
    BY <1>4, <1>6
  <2>2. \A u \in Trackers : KeepsCache(u)
    BY <1>4, <1>6 DEF cacheVars, KeepsCache
  <2>3. \A u \in Trackers \ {t} : KeepsCall(u)
    BY <2>1 DEF TypeInv, TypeOK, KeepsCall
  <2>4. phase'[t] \notin Answering
    BY <2>1 DEF TypeInv, TypeOK, Answering
  <2> QED BY <1>1, <2>2, <2>3, <2>4, KeepsRecached, OutOfAppend
<1> QED BY <1>5, <1>6

LEMMA CommandCaches ==
  ASSUME TypeInv, TypeInv', LogGrows, CacheInv, NEW t \in Trackers,
         Issue(t) \/ Take(t) \/ Comment(t) \/ Transition(t) \/ Supersede(t)
  PROVE  CacheInv'
<1>1. \E c : WellFormed(c) /\ Begin(t, c)
  BY IssueIsCommand, TakeIsCommand, CommentIsCommand, TransitionIsCommand,
     SupersedeIsCommand
<1> QED BY <1>1, BeginCaches

LEMMA ReadCaches ==
  ASSUME TypeInv, TypeInv', LogGrows, CacheInv, NEW t \in Trackers,
         \/ ReadPacket(t) \/ ReadHistoryUnprojected(t) \/ ReadPackets(t)
         \/ DropProjection(t) \/ RebuildProjection(t)
  PROVE  CacheInv'
<1>1. UNCHANGED storeVars /\ UNCHANGED callVars /\ phase[t] = "idle"
  BY DEF ReadPacket, ReadHistoryUnprojected, ReadPackets, DropProjection, RebuildProjection
<1>2. /\ log' = log /\ phase'[t] \notin Answering
      /\ \A u \in Trackers : KeepsCall(u)
  BY <1>1 DEF storeVars, callVars, KeepsCall, Answering
<1>3. \A p \in PacketIDs : IsPrefix(log[p], log[p])
  BY CacheTypes, PrefixFacts
<1>4. Cached(t)
  BY DEF CacheInv
<1>5. CASE ReadPacket(t)
  <2>1. PICK p \in PacketIDs : Refresh(t, {p}, log)
    BY <1>5 DEF ReadPacket
  <2>2. {p} \in SUBSET PacketIDs /\ \A q \in {p} : IsPrefix(log[q], log[q])
    BY <1>3
  <2>3. Recached(t) /\ \A u \in Trackers \ {t} : KeepsCache(u)
    BY <1>2, <2>1, <2>2, RefreshRecaches
  <2> QED BY <1>2, <2>3, OutOfAppend
<1>6. CASE ReadHistoryUnprojected(t)
  <2>1. PICK p \in PacketIDs : streams' = [streams EXCEPT ![t][p] = log[p]]
    BY <1>6 DEF ReadHistoryUnprojected
  <2>2. /\ \A u \in Trackers \ {t} : streams'[u] = streams[u]
        /\ \A q \in PacketIDs : streams'[t][q] = log[q] \/ streams'[t][q] = streams[t][q]
    BY <2>1 DEF TypeInv, TypeOK
  <2>3. projection' = projection /\ ready' = ready /\ ~ready[t]
    BY <1>6 DEF ReadHistoryUnprojected
  <2>4. Recached(t)
    BY <1>2, <1>3, <1>4, <2>2, <2>3 DEF Recached, Cached
  <2>5. \A u \in Trackers \ {t} : KeepsCache(u)
    BY <2>2, <2>3 DEF KeepsCache
  <2> QED BY <1>2, <2>4, <2>5, OutOfAppend
<1>7. CASE ReadPackets(t) \/ RebuildProjection(t)
  <2>1. Reload(t)
    BY <1>7 DEF ReadPackets, RebuildProjection
  <2>2. Recached(t) /\ \A u \in Trackers \ {t} : KeepsCache(u)
    BY <1>2, <2>1, ReloadRecaches
  <2> QED BY <1>2, <2>2, OutOfAppend
<1>8. CASE DropProjection(t)
  <2>1. /\ streams' = streams
        /\ projection' = [projection EXCEPT ![t] = [p \in PacketIDs |-> NoPacket]]
        /\ ready' = [ready EXCEPT ![t] = FALSE]
    BY <1>8 DEF DropProjection
  <2>2. \A u \in Trackers \ {t} : KeepsCache(u)
    BY <2>1 DEF TypeInv, TypeOK, KeepsCache
  <2>3. ~ready'[t]
    BY <2>1 DEF TypeInv, TypeOK
  <2>4. Recached(t)
    BY <1>2, <1>4, <2>1, <2>3 DEF Recached, Cached
  <2> QED BY <1>2, <2>2, <2>4, OutOfAppend
<1> QED BY <1>5, <1>6, <1>7, <1>8

LEMMA LoadCaches ==
  ASSUME TypeInv, TypeInv', StoreInv, LogGrows, CacheInv, NEW t \in Trackers,
         LoadReplacement(t) \/ LoadFails(t)
  PROVE  CacheInv'
<1>1. log' = log
  BY DEF LoadReplacement, LoadFails, storeVars
<1>2. CASE LoadReplacement(t)
  <2>1. PICK p \in unread[t] : Decide(t, command[t], [held[t] EXCEPT ![p] = log[p]])
    BY <1>2 DEF LoadReplacement
  <2> DEFINE read == [held[t] EXCEPT ![p] = log[p]]
  <2>2. /\ WellFormed(command[t])
        /\ log \in [PacketIDs -> Seq(Event)]
        /\ held[t] \in [PacketIDs -> Seq(Event)]
    BY <1>2 DEF LoadReplacement, TypeInv, TypeOK
  <2>3. /\ read \in [PacketIDs -> Seq(Event)]
        /\ \A q \in PacketIDs : read[q] = log[q] \/ read[q] = held[t][q]
    BY <2>2
  <2>4. Decide(t, command[t], read)
    BY <2>1
  <2> HIDE DEF read
  <2>5. \A q \in PacketIDs : IsPrefix(held[t][q], log[q]) /\ IsPrefix(log[q], log[q])
    BY <2>2, PrefixFacts DEF StoreInv, HeldIsPast
  <2>6. \A q \in Targets(command[t]) : IsPrefix(read[q], log[q])
    BY <2>2, <2>3, <2>5, TargetsAre
  <2> QED BY <1>1, <2>2, <2>3, <2>4, <2>6, DecideCaches
<1>3. CASE LoadFails(t)
  <2>1. BecomeIdle(t) /\ \A u \in Trackers : KeepsCache(u)
    BY <1>3 DEF LoadFails, cacheVars, KeepsCache
  <2> QED BY <1>1, <2>1, KeepsRecached, IdleKeepsCalls, OutOfAppend
<1> QED BY <1>2, <1>3

LEMMA CommitCaches ==
  ASSUME TypeInv, TypeInv', LogGrows, CacheInv, NEW t \in Trackers, Commit(t)
  PROVE  CacheInv'
<1> DEFINE r == request[t]
<1>1. /\ phase[t] = "appending" /\ Current(r) /\ AppendToLog(r)
      /\ phase' = [phase EXCEPT ![t] = "committed"] /\ request' = request
      /\ streams' = streams /\ projection' = projection /\ ready' = ready
  BY DEF Commit, cacheVars
<1>2. /\ \A u \in Trackers : KeepsCache(u)
      /\ \A u \in Trackers \ {t} : KeepsCall(u)
      /\ phase'[t] = "committed"
  BY <1>1 DEF TypeInv, TypeOK, KeepsCache, KeepsCall
<1>3. Cached(t)
  BY DEF CacheInv
<1>4. ASSUME NEW p \in PacketIDs
      PROVE  IsPrefix(streams[t][p], log'[p])
  <2>1. log[p] \in Seq(Event) /\ streams[t][p] \in Seq(Event) /\ log'[p] \in Seq(Event)
    BY CacheTypes DEF TypeInv, TypeOK
  <2>2. IsPrefix(streams[t][p], log[p]) /\ IsPrefix(log[p], log'[p])
    BY <1>3 DEF Cached, LogGrows
  <2> QED BY <2>1, <2>2, PrefixTransitive
<1>5. ASSUME NEW p \in Touched(r)
      PROVE  IsPrefix(streams[t][p] \o r.batch[p], log'[p])
  <2>1. p \in PacketIDs
    BY DEF Touched
  <2>2. Len(streams[t][p]) = Len(log[p])
    BY <1>1, <1>3 DEF Cached, Current
  <2>3. /\ log[p] \in Seq(Event) /\ streams[t][p] \in Seq(Event) /\ r.batch[p] \in Seq(Event)
        /\ streams[t][p] \o r.batch[p] \in Seq(Event)
    BY <2>1, CacheTypes
  <2>4. streams[t][p] = log[p]
    BY <1>3, <2>1, <2>2, <2>3, PrefixFacts DEF Cached
  <2>5. log'[p] = log[p] \o r.batch[p]
    BY <1>1, <2>1 DEF AppendToLog
  <2>6. IsPrefix(streams[t][p] \o r.batch[p], streams[t][p] \o r.batch[p])
    BY <2>3, PrefixFacts
  <2> QED BY <2>4, <2>5, <2>6
<1>6. \A p \in PacketIDs : AcceptsBatch(Project(streams[t][p]), r.batch[p])
  BY <1>1, <1>3 DEF Cached, Answering
<1>7. Cached(t)'
  BY <1>1, <1>2, <1>3, <1>4, <1>5, <1>6 DEF Cached, Touched
<1> QED BY <1>2, <1>7, StepOfOne DEF LeavesOthers

LEMMA AcknowledgeCaches ==
  ASSUME TypeInv, TypeInv', LogGrows, CacheInv, NEW t \in Trackers, Acknowledge(t)
  PROVE  CacheInv'
<1>1. /\ phase[t] = "committed" /\ BecomeIdle(t) /\ log' = log /\ ready' = ready
      /\ streams' = [streams EXCEPT ![t] = [p \in PacketIDs |-> @[p] \o request[t].batch[p]]]
      /\ projection' = [projection EXCEPT ![t] =
           [p \in PacketIDs |-> ApplyBatch(@[p], request[t].batch[p])]]
  BY DEF Acknowledge, storeVars
<1>2. Cached(t)
  BY DEF CacheInv
<1>3. \A p \in PacketIDs :
        /\ streams'[t][p] = streams[t][p] \o request[t].batch[p]
        /\ projection'[t][p] = ApplyBatch(projection[t][p], request[t].batch[p])
  BY <1>1 DEF TypeInv, TypeOK
<1>4. ASSUME NEW p \in PacketIDs
      PROVE  IsPrefix(streams'[t][p], log'[p])
  <2>1. CASE p \in Touched(request[t])
    BY <1>1, <1>2, <1>3, <2>1 DEF Cached
  <2>2. CASE p \notin Touched(request[t])
    <3>1. request[t].batch[p] = <<>> /\ streams[t][p] \in Seq(Event)
      BY <2>2, CacheTypes DEF Touched
    <3>2. \A s \in Seq(Event) : s \o <<>> = s
      OBVIOUS
    <3>3. streams'[t][p] = streams[t][p]
      BY <1>3, <3>1, <3>2
    <3> QED BY <1>1, <1>2, <3>3 DEF Cached
  <2> QED BY <2>1, <2>2
<1>5. ASSUME ready'[t], NEW p \in PacketIDs
      PROVE  projection'[t][p] = Project(streams'[t][p])
  <2>1. projection[t][p] = Project(streams[t][p])
    BY <1>1, <1>2, <1>5 DEF Cached
  <2>2. AcceptsBatch(Project(streams[t][p]), request[t].batch[p])
    BY <1>1, <1>2 DEF Cached, Answering
  <2>3. Project(streams[t][p] \o request[t].batch[p])
          = ApplyBatch(Project(streams[t][p]), request[t].batch[p])
    BY <2>2, CacheTypes, ReplaysBatch
  <2> QED BY <1>3, <2>1, <2>3
<1>6. Recached(t)
  BY <1>4, <1>5 DEF Recached
<1>7. \A u \in Trackers \ {t} : KeepsCache(u)
  BY <1>1 DEF TypeInv, TypeOK, KeepsCache
<1> QED BY <1>1, <1>6, <1>7, IdleKeepsCalls, OutOfAppend

LEMMA AnswerCaches ==
  ASSUME TypeInv, TypeInv', StoreInv, LogGrows, CacheInv, NEW t \in Trackers,
         Refuse(t) \/ LearnRefusal(t) \/ TimeOut(t) \/ Reread(t) \/ RereadFails(t)
  PROVE  CacheInv'
<1>1. log' = log
  BY DEF Refuse, LearnRefusal, TimeOut, Reread, RereadFails, storeVars
<1>2. CASE Refuse(t) \/ LearnRefusal(t) \/ TimeOut(t)
  <2>1. /\ \A u \in Trackers : KeepsCache(u)
        /\ phase' = [phase EXCEPT ![t] = phase'[t]] /\ request' = request
        /\ phase'[t] \notin Answering
    BY <1>2 DEF Refuse, LearnRefusal, TimeOut, Recover, cacheVars, KeepsCache, TypeInv,
                TypeOK, Answering
  <2>2. \A u \in Trackers \ {t} : KeepsCall(u)
    BY <2>1 DEF TypeInv, TypeOK, KeepsCall
  <2> QED BY <1>1, <2>1, <2>2, KeepsRecached, OutOfAppend
<1>3. CASE RereadFails(t)
  <2>1. BecomeIdle(t) /\ \A u \in Trackers : KeepsCache(u)
    BY <1>3 DEF RereadFails, cacheVars, KeepsCache
  <2> QED BY <1>1, <2>1, KeepsRecached, IdleKeepsCalls, OutOfAppend
<1>4. CASE Reread(t)
  <2>1. PICK p \in unread[t] :
          LET read == [held[t] EXCEPT ![p] = log[p]]
          IN  IF unread[t] = {p}
              THEN Refresh(t, Touched(request[t]), read) /\ BecomeIdle(t)
              ELSE /\ held'   = [held EXCEPT ![t] = read]
                   /\ unread' = [unread EXCEPT ![t] = @ \ {p}]
                   /\ UNCHANGED <<phase, command, request, cacheVars>>
    BY <1>4 DEF Reread
  <2>2. CASE unread[t] = {p}
    <3> DEFINE read == [held[t] EXCEPT ![p] = log[p]]
    <3>1. Refresh(t, Touched(request[t]), read) /\ BecomeIdle(t)
      BY <2>1, <2>2
    <3>2. Touched(request[t]) \in SUBSET PacketIDs
      BY DEF Touched
    <3>3. \A q \in PacketIDs : IsPrefix(read[q], log[q])
      <4>1. \A q \in PacketIDs : read[q] = log[q] \/ read[q] = held[t][q]
        BY DEF TypeInv, TypeOK
      <4>2. \A q \in PacketIDs : IsPrefix(held[t][q], log[q]) /\ IsPrefix(log[q], log[q])
        BY CacheTypes, PrefixFacts DEF StoreInv, HeldIsPast
      <4> HIDE DEF read
      <4> QED BY <4>1, <4>2
    <3> HIDE DEF read
    <3>4. Recached(t) /\ \A u \in Trackers \ {t} : KeepsCache(u)
      BY <1>1, <3>1, <3>2, <3>3, RefreshRecaches
    <3> QED BY <3>1, <3>4, IdleKeepsCalls, OutOfAppend
  <2>3. CASE unread[t] # {p}
    <3>1. UNCHANGED <<phase, request, cacheVars>> /\ phase[t] = "recovering"
      BY <1>4, <2>1, <2>3 DEF Reread
    <3>2. \A u \in Trackers : KeepsCache(u) /\ KeepsCall(u)
      BY <3>1 DEF cacheVars, KeepsCache, KeepsCall
    <3> QED BY <3>2, Unmoved DEF CacheInv
  <2> QED BY <2>2, <2>3
<1> QED BY <1>2, <1>3, <1>4

LEMMA LateCaches ==
  ASSUME TypeInv, TypeInv', LogGrows, CacheInv, NEW r \in late, CommitLate(r) \/ LoseLate(r)
  PROVE  CacheInv'
<1>1. \A u \in Trackers : KeepsCache(u) /\ KeepsCall(u)
  BY DEF CommitLate, LoseLate, callVars, cacheVars, KeepsCache, KeepsCall
<1> QED BY <1>1, Unmoved DEF CacheInv

LEMMA ProcessCaches ==
  ASSUME TypeInv, TypeInv', LogGrows, CacheInv, NEW t \in Trackers, Crash(t) \/ Start(t)
  PROVE  CacheInv'
<1>1. CASE Crash(t)
  <2>1. /\ log' = log
        /\ phase'      = [phase EXCEPT ![t] = "down"]
        /\ request'    = [request EXCEPT ![t] = NoRequest]
        /\ streams'    = [streams EXCEPT ![t] = NoStreams]
        /\ projection' = [projection EXCEPT ![t] = [p \in PacketIDs |-> NoPacket]]
        /\ ready'      = [ready EXCEPT ![t] = FALSE]
    BY <1>1 DEF Crash
  <2>2. \A u \in Trackers \ {t} : KeepsCache(u) /\ KeepsCall(u)
    BY <2>1 DEF TypeInv, TypeOK, KeepsCache, KeepsCall
  <2>3. phase'[t] \notin Answering /\ ~ready'[t] /\ \A p \in PacketIDs : streams'[t][p] = <<>>
    BY <2>1 DEF TypeInv, TypeOK, Answering, NoStreams
  <2>4. Recached(t)
    BY <2>1, <2>3, CacheTypes, PrefixFacts DEF Recached
  <2> QED BY <2>2, <2>3, <2>4, OutOfAppend
<1>2. CASE Start(t)
  <2>1. /\ log' = log /\ Reload(t) /\ request' = request
        /\ phase' = [phase EXCEPT ![t] = IF \A p \in PacketIDs : Replays(log[p])
                                         THEN "idle" ELSE "down"]
    BY <1>2 DEF Start, storeVars
  <2>2. Recached(t) /\ \A u \in Trackers \ {t} : KeepsCache(u)
    BY <2>1, ReloadRecaches
  <2>3. phase'[t] \notin Answering /\ \A u \in Trackers \ {t} : KeepsCall(u)
    BY <2>1 DEF TypeInv, TypeOK, Answering, KeepsCall
  <2> QED BY <2>2, <2>3, OutOfAppend
<1> QED BY <1>1, <1>2

LEMMA InitCache == Init => CacheInv
<1> SUFFICES ASSUME Init, NEW t \in Trackers PROVE Cached(t)
  BY DEF CacheInv
<1>1. /\ phase[t] = "down" /\ ~ready[t]
      /\ \A p \in PacketIDs : streams[t][p] = <<>> /\ log[p] = <<>>
  BY DEF Init, NoStreams
<1>2. IsPrefix(<<>>, <<>>)
  BY ShortStreams, PrefixFacts
<1> QED BY <1>1, <1>2 DEF Cached, Answering

LEMMA NextCache == TypeInv /\ StoreInv /\ CacheInv /\ [Next]_vars => CacheInv'
<1> SUFFICES ASSUME TypeInv, StoreInv, CacheInv, [Next]_vars PROVE CacheInv'
  OBVIOUS
<1>1. TypeInv' /\ LogGrows
  BY NextType, LogOnlyGrows
<1>2. CASE UNCHANGED vars
  <2>1. \A u \in Trackers : KeepsCache(u) /\ KeepsCall(u)
    BY <1>2 DEF vars, callVars, cacheVars, KeepsCache, KeepsCall
  <2> QED BY <1>1, <2>1, Unmoved DEF CacheInv
<1>3. CASE \E t \in Trackers : Call(t)
  BY <1>1, <1>3, CommandCaches, ReadCaches DEF Call
<1>4. CASE \E t \in Trackers : Progress(t)
  BY <1>1, <1>4, LoadCaches, CommitCaches, AcknowledgeCaches, AnswerCaches DEF Progress
<1>5. CASE \E t \in Trackers : Crash(t) \/ Start(t)
  BY <1>1, <1>5, ProcessCaches
<1>6. CASE \E r \in late : CommitLate(r) \/ LoseLate(r)
  BY <1>1, <1>6, LateCaches
<1> QED BY <1>2, <1>3, <1>4, <1>5, <1>6 DEF Next

LEMMA SpecCaches == Spec => []CacheInv
<1>1. Init => TypeInv /\ StoreInv /\ CacheInv
  BY InitType, InitStore, InitCache
<1>2. TypeInv /\ StoreInv /\ CacheInv /\ [Next]_vars => (TypeInv /\ StoreInv /\ CacheInv)'
  BY NextType, NextStore, NextCache
<1> QED BY <1>1, <1>2, PTL DEF Spec

(* A tracker's cache is never anything but an earlier state of the store, also where an    *)
(* acknowledged append extends it without a query.                                        *)
THEOREM TrackerCacheIsPast == Spec => []CacheIsPast
<1>1. CacheInv => CacheIsPast
  BY DEF CacheInv, Cached, CacheIsPast
<1> QED BY <1>1, SpecCaches, PTL

(* The events of a committed append follow directly on the streams its caller decided      *)
(* against: nothing slipped in between.                                                    *)
THEOREM TrackerCommittedOnTop == Spec => []CommittedOnTop
<1>1. CacheInv => CommittedOnTop
  BY DEF CacheInv, Cached, CommittedOnTop
<1> QED BY <1>1, SpecCaches, PTL

-----------------------------------------------------------------------------
(* Whose events are whose.  AcknowledgedApart speaks of two commits; what it lacks to be   *)
(* inductive is that the events of each are in the store, where a later append can only    *)
(* follow them.                                                                            *)

Landed(t) ==
    phase[t] = "committed" =>
      \A p \in Touched(request[t]) :
        request[t].expected[p] + Len(request[t].batch[p]) <= Len(log[p])

ApartInv == AcknowledgedApart /\ \A t \in Trackers : Landed(t)

\* A step of t that does not end in a committed append of t.
Elsewhere(t) == phase'[t] # "committed" /\ \A u \in Trackers \ {t} : KeepsCall(u)

LEMMA IdleIsElsewhere ==
  ASSUME TypeInv, NEW t \in Trackers, BecomeIdle(t)
  PROVE  Elsewhere(t)
  BY DEF BecomeIdle, TypeInv, TypeOK, KeepsCall, Elsewhere

LEMMA DecideIsElsewhere ==
  ASSUME TypeInv, NEW t \in Trackers, NEW c, NEW read, Decide(t, c, read)
  PROVE  Elsewhere(t)
<1>1. CASE BecomeIdle(t)
  BY <1>1, IdleIsElsewhere
<1>2. CASE ~BecomeIdle(t)
  <2>1. PICK r : /\ phase'   = [phase EXCEPT ![t] = "appending"]
                 /\ request' = [request EXCEPT ![t] = r]
    BY <1>2 DEF Decide
  <2> QED BY <2>1 DEF TypeInv, TypeOK, KeepsCall, Elsewhere
<1> QED BY <1>1, <1>2

LEMMA CallIsElsewhere ==
  ASSUME TypeInv, NEW t \in Trackers, Call(t)
  PROVE  Elsewhere(t) \/ \A u \in Trackers : KeepsCall(u)
<1>1. CASE Issue(t) \/ Take(t) \/ Comment(t) \/ Transition(t) \/ Supersede(t)
  <2>1. PICK c : Begin(t, c)
    BY <1>1, IssueIsCommand, TakeIsCommand, CommentIsCommand, TransitionIsCommand,
       SupersedeIsCommand
  <2>2. CASE \E read : Decide(t, c, read)
    BY <2>2, DecideIsElsewhere
  <2>3. CASE phase' = [phase EXCEPT ![t] = "loading"] /\ request' = request
    BY <2>3 DEF TypeInv, TypeOK, KeepsCall, Elsewhere
  <2> QED BY <2>1, <2>2, <2>3 DEF Begin
<1>2. CASE \/ ReadPacket(t) \/ ReadHistoryUnprojected(t) \/ ReadPackets(t)
           \/ DropProjection(t) \/ RebuildProjection(t)
  BY <1>2 DEF ReadPacket, ReadHistoryUnprojected, ReadPackets, DropProjection,
              RebuildProjection, callVars, KeepsCall
<1> QED BY <1>1, <1>2 DEF Call

LEMMA ProgressIsElsewhere ==
  ASSUME TypeInv, NEW t \in Trackers, Progress(t)
  PROVE  Commit(t) \/ Elsewhere(t) \/ \A u \in Trackers : KeepsCall(u)
<1>1. CASE LoadReplacement(t)
  BY <1>1, DecideIsElsewhere DEF LoadReplacement
<1>2. CASE LoadFails(t) \/ Acknowledge(t) \/ RereadFails(t)
  BY <1>2, IdleIsElsewhere DEF LoadFails, Acknowledge, RereadFails
<1>3. CASE Refuse(t) \/ LearnRefusal(t) \/ TimeOut(t)
  <2>1. /\ request' = request
        /\ \/ phase' = [phase EXCEPT ![t] = "refused"]
           \/ phase' = [phase EXCEPT ![t] = "recovering"]
    BY <1>3 DEF Refuse, LearnRefusal, TimeOut, Recover
  <2> QED BY <2>1 DEF TypeInv, TypeOK, KeepsCall, Elsewhere
<1>4. CASE Reread(t)
  <2>1. CASE BecomeIdle(t)
    BY <2>1, IdleIsElsewhere
  <2>2. CASE UNCHANGED <<phase, request>>
    BY <2>2 DEF KeepsCall
  <2> QED BY <1>4, <2>1, <2>2 DEF Reread
<1> QED BY <1>1, <1>2, <1>3, <1>4 DEF Progress

\* A tracker whose append is committed has just committed it, or had before.
LEMMA OnlyCommitCommits ==
  ASSUME TypeInv, [Next]_vars, NEW t \in Trackers, phase'[t] = "committed"
  PROVE  Commit(t) \/ KeepsCall(t)
<1>1. CASE UNCHANGED vars
  BY <1>1 DEF vars, callVars, KeepsCall
<1>2. CASE \E u \in Trackers : Call(u)
  BY <1>2, CallIsElsewhere DEF Elsewhere
<1>3. CASE \E u \in Trackers : Progress(u)
  <2>1. PICK u \in Trackers : Progress(u)
    BY <1>3
  <2>2. CASE Commit(u) /\ u # t
    BY <2>2 DEF Commit, TypeInv, TypeOK, KeepsCall
  <2> QED BY <2>1, <2>2, ProgressIsElsewhere DEF Elsewhere
<1>4. CASE \E u \in Trackers : Crash(u) \/ Start(u)
  <2>1. PICK u \in Trackers : Crash(u) \/ Start(u)
    BY <1>4
  <2>2. Elsewhere(u)
    <3>1. CASE Crash(u)
      BY <3>1 DEF Crash, TypeInv, TypeOK, KeepsCall, Elsewhere
    <3>2. CASE Start(u)
      BY <3>2 DEF Start, TypeInv, TypeOK, KeepsCall, Elsewhere
    <3> QED BY <2>1, <3>1, <3>2
  <2> QED BY <2>2 DEF Elsewhere
<1>5. CASE \E r \in late : CommitLate(r) \/ LoseLate(r)
  BY <1>5 DEF CommitLate, LoseLate, callVars, KeepsCall
<1> QED BY <1>1, <1>2, <1>3, <1>4, <1>5 DEF Next

LEMMA LengthsGrow ==
  ASSUME TypeInv, TypeInv', LogGrows, NEW p \in PacketIDs
  PROVE  Len(log[p]) \in Nat /\ Len(log'[p]) \in Nat /\ Len(log[p]) <= Len(log'[p])
<1>1. log[p] \in Seq(Event) /\ log'[p] \in Seq(Event) /\ IsPrefix(log[p], log'[p])
  BY DEF TypeInv, TypeOK, LogGrows
<1> QED BY <1>1 DEF IsPrefix

LEMMA RequestNumbers ==
  ASSUME TypeInv, NEW t \in Trackers, NEW p \in PacketIDs
  PROVE  /\ request[t].expected[p] \in Nat
         /\ request[t].batch[p] \in Seq(Event) /\ Len(request[t].batch[p]) \in Nat
<1>1. request[t] \in Request
  BY DEF TypeInv, TypeOK
<1> QED BY <1>1 DEF Request

(* The commit puts its events where the streams ended, and there they stay. *)
LEMMA CommitLands ==
  ASSUME TypeInv, NEW t \in Trackers, Commit(t), NEW p \in Touched(request[t])
  PROVE  /\ request[t].expected[p] = Len(log[p])
         /\ Len(log'[p]) = request[t].expected[p] + Len(request[t].batch[p])
<1>1. p \in PacketIDs
  BY DEF Touched
<1>2. request[t].expected[p] = Len(log[p]) /\ log'[p] = log[p] \o request[t].batch[p]
  BY <1>1 DEF Commit, Current, AppendToLog
<1>3. log[p] \in Seq(Event) /\ request[t].batch[p] \in Seq(Event)
  BY <1>1, RequestNumbers DEF TypeInv, TypeOK
<1> QED BY <1>2, <1>3

LEMMA NextLanded ==
  ASSUME TypeInv, TypeInv', LogGrows, ApartInv, [Next]_vars, NEW t \in Trackers
  PROVE  Landed(t)'
<1> SUFFICES ASSUME phase'[t] = "committed", NEW p \in Touched(request'[t])
             PROVE  request'[t].expected[p] + Len(request'[t].batch[p]) <= Len(log'[p])
  BY DEF Landed, Touched
<1>1. p \in PacketIDs
  BY DEF Touched
<1>2. CASE Commit(t)
  <2>1. request' = request
    BY <1>2 DEF Commit
  <2>2. Len(log'[p]) = request[t].expected[p] + Len(request[t].batch[p])
    BY <1>2, <2>1, CommitLands
  <2> QED BY <1>1, <2>1, <2>2, LengthsGrow
<1>3. CASE KeepsCall(t)
  <2>1. p \in Touched(request[t]) /\ request'[t] = request[t] /\ phase[t] = "committed"
    BY <1>3 DEF KeepsCall
  <2>2. request[t].expected[p] + Len(request[t].batch[p]) <= Len(log[p])
    BY <2>1 DEF ApartInv, Landed
  <2>3. \A i, j, k, l \in Nat : i + j <= k /\ k <= l => i + j <= l
    OBVIOUS
  <2>4. /\ request[t].expected[p] \in Nat /\ Len(request[t].batch[p]) \in Nat
        /\ Len(log[p]) \in Nat /\ Len(log'[p]) \in Nat /\ Len(log[p]) <= Len(log'[p])
    BY <1>1, LengthsGrow, RequestNumbers
  <2>5. request[t].expected[p] + Len(request[t].batch[p]) <= Len(log'[p])
    BY <2>2, <2>3, <2>4
  <2> QED BY <2>1, <2>5
<1> QED BY <1>2, <1>3, OnlyCommitCommits

(* What a commit adds comes after all that was acknowledged or is about to be. *)
LEMMA CommitIsApart ==
  ASSUME TypeInv, ApartInv, NEW t \in Trackers, NEW u \in Trackers,
         Commit(t), phase[u] = "committed",
         NEW p \in Touched(request[t]) \cap Touched(request[u])
  PROVE  request[u].expected[p] + 1 + Len(request[u].batch[p]) <= request[t].expected[p] + 1
<1>1. p \in PacketIDs
  BY DEF Touched
<1>2. request[t].expected[p] = Len(log[p])
  BY CommitLands
<1>3. request[u].expected[p] + Len(request[u].batch[p]) <= Len(log[p])
  BY DEF ApartInv, Landed
<1>4. request[u].expected[p] \in Nat /\ Len(request[u].batch[p]) \in Nat /\ Len(log[p]) \in Nat
  <2>1. log[p] \in Seq(Event)
    BY <1>1 DEF TypeInv, TypeOK
  <2> QED BY <1>1, <2>1, RequestNumbers
<1>5. \A i, j, k \in Nat : i + j <= k => i + 1 + j <= k + 1
  OBVIOUS
<1>6. request[u].expected[p] + 1 + Len(request[u].batch[p]) <= Len(log[p]) + 1
  BY <1>3, <1>4, <1>5
<1> QED BY <1>2, <1>6

LEMMA NextApart ==
  ASSUME TypeInv, ApartInv, [Next]_vars
  PROVE  AcknowledgedApart'
<1> SUFFICES ASSUME NEW t \in Trackers, NEW u \in Trackers, t # u,
                    phase'[t] = "committed", phase'[u] = "committed",
                    NEW p \in Touched(request'[t]) \cap Touched(request'[u])
             PROVE  LET First(k) == request'[k].expected[p] + 1
                        Past(k)  == First(k) + Len(request'[k].batch[p])
                    IN  Past(t) <= First(u) \/ Past(u) <= First(t)
  BY DEF AcknowledgedApart, Touched
<1>1. \A k \in {t, u} : Commit(k) \/ KeepsCall(k)
  BY OnlyCommitCommits
<1>2. CASE Commit(t)
  <2>1. request' = request /\ phase[u] = "committed"
    BY <1>2 DEF Commit, TypeInv, TypeOK
  <2> QED BY <1>2, <2>1, CommitIsApart
<1>3. CASE Commit(u)
  <2>1. request' = request /\ phase[t] = "committed"
    BY <1>3 DEF Commit, TypeInv, TypeOK
  <2> QED BY <1>3, <2>1, CommitIsApart
<1>4. CASE KeepsCall(t) /\ KeepsCall(u)
  BY <1>4 DEF KeepsCall, ApartInv, AcknowledgedApart
<1> QED BY <1>1, <1>2, <1>3, <1>4

(* However many commands were decided on one version of a stream, two trackers that are    *)
(* about to report success speak of different events of it.                                *)
THEOREM TrackerAcknowledgedApart == Spec => []AcknowledgedApart
<1>1. Init => TypeInv /\ StoreInv /\ ApartInv
  <2>1. Init => \A t \in Trackers : phase[t] # "committed"
    BY DEF Init
  <2> QED BY <2>1, InitType, InitStore DEF ApartInv, AcknowledgedApart, Landed
<1>2. TypeInv /\ StoreInv /\ ApartInv /\ [Next]_vars => (TypeInv /\ StoreInv /\ ApartInv)'
  <2> SUFFICES ASSUME TypeInv, StoreInv, ApartInv, [Next]_vars
               PROVE  (TypeInv /\ StoreInv /\ ApartInv)'
    OBVIOUS
  <2>1. TypeInv' /\ StoreInv' /\ LogGrows
    BY NextType, NextStore, LogOnlyGrows
  <2>2. AcknowledgedApart' /\ \A t \in Trackers : Landed(t)'
    BY <2>1, NextApart, NextLanded
  <2> QED BY <2>1, <2>2 DEF ApartInv
<1>3. ApartInv => AcknowledgedApart
  BY DEF ApartInv
<1> QED BY <1>1, <1>2, <1>3, PTL DEF Spec
=============================================================================
