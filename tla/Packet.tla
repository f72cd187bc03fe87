------------------------------- MODULE Packet -------------------------------
(***************************************************************************)
(* The pure part of package packet: the events of one packet's stream, the *)
(* rules applyEvent enforces on each of them, and the projection a replay  *)
(* of the stream produces (packet/types.go, packet/tracker.go).            *)
(*                                                                         *)
(* A frozen body is not modelled: no rule reads it.  The tenant stands for *)
(* everything an issue freezes.  Event ids and timestamps are not modelled *)
(* either: an id is 16 random bytes, and the position of an event in its   *)
(* stream identifies it here.                                              *)
(***************************************************************************)
EXTENDS Naturals, Sequences

CONSTANTS
    PacketIDs,      \* the packet ids callers use
    TenantIDs,      \* the tenants a packet may belong to
    Actors,         \* who issues, takes, comments on and moves packets
    None            \* Go's zero value of an id, an actor or a closure

NotStarted == "not started"
InProgress == "in progress"
Done       == "done"
Blocked    == "blocked"
Statuses   == {NotStarted, InProgress, Done, Blocked}

ReasonDone       == "done"
ReasonSuperseded == "superseded"
CloseReasons     == {ReasonDone, ReasonSuperseded}

ASSUME NoneAssumption ==
    None \notin PacketIDs \cup TenantIDs \cup Actors \cup Statuses \cup CloseReasons

(***************************************************************************)
(* What a caller attached as evidence or wrote as a comment: nothing, only *)
(* blank text, or something.                                               *)
(***************************************************************************)
Attachments == {"absent", "blank", "given"}

-----------------------------------------------------------------------------
(* The six event kinds. *)

PacketIssued(p, a, tenant, parent) ==
    [kind |-> "issued", packet |-> p, actor |-> a, tenant |-> tenant, parent |-> parent]
PacketTaken(p, a) ==
    [kind |-> "taken", packet |-> p, actor |-> a]
PacketCommented(p, a, text) ==
    [kind |-> "commented", packet |-> p, actor |-> a, text |-> text]
PacketStatusTransitioned(p, a, from, to, evidence) ==
    [kind |-> "transitioned", packet |-> p, actor |-> a,
     from |-> from, to |-> to, evidence |-> evidence]
PacketSuperseded(p, a, replacement) ==
    [kind |-> "superseded", packet |-> p, actor |-> a, replacement |-> replacement]
PacketClosed(p, a, reason) ==
    [kind |-> "closed", packet |-> p, actor |-> a, reason |-> reason]

Event ==
    [kind : {"issued"}, packet : PacketIDs, actor : Actors,
     tenant : TenantIDs, parent : PacketIDs \cup {None}]
      \cup
    [kind : {"taken"}, packet : PacketIDs, actor : Actors]
      \cup
    [kind : {"commented"}, packet : PacketIDs, actor : Actors, text : Attachments]
      \cup
    [kind : {"transitioned"}, packet : PacketIDs, actor : Actors,
     from : Statuses \cup {None}, to : Statuses, evidence : Attachments]
      \cup
    [kind : {"superseded"}, packet : PacketIDs, actor : Actors, replacement : PacketIDs]
      \cup
    [kind : {"closed"}, packet : PacketIDs, actor : Actors, reason : CloseReasons]

-----------------------------------------------------------------------------
(* The projection of one packet.  A comment is the version that added it. *)

PacketState ==
    [id : PacketIDs \cup {None},
     version : Nat,
     tenant : TenantIDs \cup {None},
     status : Statuses \cup {None},
     takenBy : Actors \cup {None},
     comments : SUBSET Nat,
     evidence : Attachments,
     parent : PacketIDs \cup {None},
     supersededBy : PacketIDs \cup {None},
     closure : CloseReasons \cup {None}]

\* Fault: a blank packet that already claims a status.
NoPacketWithStatus ==
    [id |-> None, version |-> 0, tenant |-> None, status |-> "", takenBy |-> None,
     comments |-> {}, evidence |-> "absent", parent |-> None, supersededBy |-> None,
     closure |-> None]

\* Go's zero Packet: the projection of a stream with no event.
NoPacket ==
    [id |-> None, version |-> 0, tenant |-> None, status |-> None, takenBy |-> None,
     comments |-> {}, evidence |-> "absent", parent |-> None, supersededBy |-> None,
     closure |-> None]

LegalTransition(from, to) ==
    \/ from = NotStarted /\ to \in {InProgress, Blocked}
    \/ from = InProgress /\ to \in {Done, Blocked}

RequireIssued(pkt, e) == pkt.version # 0 /\ pkt.id = e.packet

\* Fault: only completion closes a packet.
OpenUnlessDone(pkt) == pkt.closure # ReasonDone

Open(pkt) == pkt.closure = None

\* applyEvent returns no error.
Accepts(pkt, e) ==
    \/ /\ e.kind = "issued"
       /\ pkt.version = 0
       /\ e.parent # e.packet
    \/ /\ e.kind = "taken"
       /\ RequireIssued(pkt, e) /\ Open(pkt)
       /\ pkt.takenBy = None
    \/ /\ e.kind = "commented"
       /\ RequireIssued(pkt, e)
       /\ e.text = "given"
    \/ /\ e.kind = "transitioned"
       /\ RequireIssued(pkt, e) /\ Open(pkt)
       /\ e.from = pkt.status
       /\ LegalTransition(pkt.status, e.to)
       /\ e.evidence = IF e.to = Done THEN "given" ELSE "absent"
    \/ /\ e.kind = "superseded"
       /\ RequireIssued(pkt, e) /\ Open(pkt)
       /\ e.replacement # e.packet
       /\ pkt.supersededBy = None
    \/ /\ e.kind = "closed"
       /\ RequireIssued(pkt, e) /\ Open(pkt)
       /\ \/ e.reason = ReasonDone /\ pkt.status = Done
          \/ e.reason = ReasonSuperseded /\ pkt.supersededBy # None

\* The packet applyEvent leaves when it returns no error: each kind of event sets its own
\* fields, and every event counts.
ApplyEvent(pkt, e) ==
    [id           |-> IF e.kind = "issued" THEN e.packet ELSE pkt.id,
     version      |-> pkt.version + 1,
     tenant       |-> IF e.kind = "issued" THEN e.tenant ELSE pkt.tenant,
     status       |-> IF e.kind = "issued" THEN NotStarted
                      ELSE IF e.kind = "transitioned" THEN e.to ELSE pkt.status,
     takenBy      |-> IF e.kind = "taken" THEN e.actor ELSE pkt.takenBy,
     comments     |-> IF e.kind = "commented" THEN pkt.comments \cup {pkt.version + 1}
                      ELSE pkt.comments,
     evidence     |-> IF e.kind = "transitioned" /\ e.to = Done THEN e.evidence
                      ELSE pkt.evidence,
     parent       |-> IF e.kind = "issued" THEN e.parent ELSE pkt.parent,
     supersededBy |-> IF e.kind = "superseded" THEN e.replacement ELSE pkt.supersededBy,
     closure      |-> IF e.kind = "closed" THEN e.reason ELSE pkt.closure]

-----------------------------------------------------------------------------
(***************************************************************************)
(* Replaying a stream, in closed form: every field of the projection is    *)
(* what the latest event of one kind says, or its zero value.  Module      *)
(* Replay relates this form to the loop of refreshLocked, which applies    *)
(* the events one after another.                                           *)
(***************************************************************************)
OfKind(s, kind) == {i \in DOMAIN s : s[i].kind = kind}

\* The field f of the latest event of this kind, or what stands when there is none.
Latest(s, kind, f, otherwise) ==
    IF OfKind(s, kind) = {} THEN otherwise
    ELSE s[CHOOSE i \in OfKind(s, kind) : \A j \in OfKind(s, kind) : j <= i][f]

Project(s) ==
    [id           |-> Latest(s, "issued", "packet", None),
     version      |-> Len(s),
     tenant       |-> Latest(s, "issued", "tenant", None),
     status       |-> Latest(s, "transitioned", "to", IF s = <<>> THEN None ELSE NotStarted),
     takenBy      |-> Latest(s, "taken", "actor", None),
     comments     |-> OfKind(s, "commented"),
     evidence     |-> IF \E i \in OfKind(s, "transitioned") : s[i].to = Done
                      THEN "given" ELSE "absent",
     parent       |-> Latest(s, "issued", "parent", None),
     supersededBy |-> Latest(s, "superseded", "replacement", None),
     closure      |-> Latest(s, "closed", "reason", None)]

\* The replay of s meets no event applyEvent refuses.
Replays(s) == \A i \in 1..Len(s) : Accepts(Project(SubSeq(s, 1, i - 1)), s[i])

=============================================================================
