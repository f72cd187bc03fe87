--------------------------- MODULE Packet_proofs ---------------------------
(***************************************************************************)
(* Facts about replaying a stream of events, for every stream: what a      *)
(* replay yields is a packet, and one more event acts on it as applyEvent  *)
(* does.                                                                   *)
(***************************************************************************)
EXTENDS Packet, TLAPS, WellFoundedInduction, NaturalsInduction

(* A non-empty set of positions of a stream has a last one. *)
LEMMA LastPosition ==
  ASSUME NEW n \in Nat, NEW S \in SUBSET (1..n), S # {}
  PROVE  \E i \in S : \A j \in S : j <= i
<1> DEFINE T == {m \in Nat : n - m \in S}
<1>1. T \subseteq Nat /\ T # {}
  <2>1. PICK i \in S : TRUE
    OBVIOUS
  <2>2. n - i \in Nat /\ n - (n - i) = i
    OBVIOUS
  <2> QED BY <2>1, <2>2
<1>2. IsWellFoundedOn(OpToRel(<, Nat), Nat)
  BY NatLessThanWellFounded
<1>3. PICK x \in T : \A y \in T : ~ (<<y, x>> \in OpToRel(<, Nat))
  <2> HIDE DEF T
  <2> QED BY <1>1, <1>2, WFMin
<1>4. \A y \in T : ~ (y < x)
  BY <1>1, <1>3 DEF OpToRel
<1>5. n - x \in S
  OBVIOUS
<1>6. ASSUME NEW j \in S
      PROVE  j <= n - x
  <2>1. n - j \in Nat /\ n - (n - j) = j
    OBVIOUS
  <2>2. n - j \in T
    BY <2>1
  <2> QED BY <1>4, <2>1, <2>2
<1> QED BY <1>5, <1>6

(* A field of the latest event of a kind is a field of some event of that kind. *)
LEMMA LatestIsSome ==
  ASSUME NEW s \in Seq(Event), NEW kind, NEW f, NEW otherwise, OfKind(s, kind) # {}
  PROVE  \E i \in OfKind(s, kind) : Latest(s, kind, f, otherwise) = s[i][f]
<1>1. OfKind(s, kind) \in SUBSET (1..Len(s)) /\ Len(s) \in Nat
  BY DEF OfKind
<1>2. \E i \in OfKind(s, kind) : \A j \in OfKind(s, kind) : j <= i
  BY <1>1, LastPosition
<1> DEFINE last == CHOOSE i \in OfKind(s, kind) : \A j \in OfKind(s, kind) : j <= i
<1>3. last \in OfKind(s, kind)
  BY <1>2
<1> QED BY <1>3 DEF Latest

LEMMA ProjectType ==
  ASSUME NEW s \in Seq(Event)
  PROVE  Project(s) \in PacketState
<1>1. \A i \in DOMAIN s : s[i] \in Event
  OBVIOUS
<1>2. Latest(s, "issued", "packet", None) \in PacketIDs \cup {None}
  <2>1. CASE OfKind(s, "issued") = {}
    BY <2>1 DEF Latest
  <2>2. CASE OfKind(s, "issued") # {}
    BY <1>1, <2>2, LatestIsSome DEF OfKind, Event
  <2> QED BY <2>1, <2>2
<1>3. Latest(s, "issued", "tenant", None) \in TenantIDs \cup {None}
  <2>1. CASE OfKind(s, "issued") = {}
    BY <2>1 DEF Latest
  <2>2. CASE OfKind(s, "issued") # {}
    BY <1>1, <2>2, LatestIsSome DEF OfKind, Event
  <2> QED BY <2>1, <2>2
<1>4. Latest(s, "issued", "parent", None) \in PacketIDs \cup {None}
  <2>1. CASE OfKind(s, "issued") = {}
    BY <2>1 DEF Latest
  <2>2. CASE OfKind(s, "issued") # {}
    BY <1>1, <2>2, LatestIsSome DEF OfKind, Event
  <2> QED BY <2>1, <2>2
<1>5. Latest(s, "taken", "actor", None) \in Actors \cup {None}
  <2>1. CASE OfKind(s, "taken") = {}
    BY <2>1 DEF Latest
  <2>2. CASE OfKind(s, "taken") # {}
    BY <1>1, <2>2, LatestIsSome DEF OfKind, Event
  <2> QED BY <2>1, <2>2
<1>6. Latest(s, "superseded", "replacement", None) \in PacketIDs \cup {None}
  <2>1. CASE OfKind(s, "superseded") = {}
    BY <2>1 DEF Latest
  <2>2. CASE OfKind(s, "superseded") # {}
    BY <1>1, <2>2, LatestIsSome DEF OfKind, Event
  <2> QED BY <2>1, <2>2
<1>7. Latest(s, "closed", "reason", None) \in CloseReasons \cup {None}
  <2>1. CASE OfKind(s, "closed") = {}
    BY <2>1 DEF Latest
  <2>2. CASE OfKind(s, "closed") # {}
    BY <1>1, <2>2, LatestIsSome DEF OfKind, Event
  <2> QED BY <2>1, <2>2
<1>8. ASSUME NEW otherwise \in Statuses \cup {None}
      PROVE  Latest(s, "transitioned", "to", otherwise) \in Statuses \cup {None}
  <2>1. CASE OfKind(s, "transitioned") = {}
    BY <2>1 DEF Latest
  <2>2. CASE OfKind(s, "transitioned") # {}
    BY <1>1, <2>2, LatestIsSome DEF OfKind, Event
  <2> QED BY <2>1, <2>2
<1>9. (IF s = <<>> THEN None ELSE NotStarted) \in Statuses \cup {None}
  BY DEF Statuses
<1>10. Len(s) \in Nat /\ OfKind(s, "commented") \in SUBSET Nat
  BY DEF OfKind
<1> QED
  BY <1>2, <1>3, <1>4, <1>5, <1>6, <1>7, <1>8, <1>9, <1>10
  DEF Project, PacketState, Attachments

-----------------------------------------------------------------------------
(* One more event. *)

LEMMA OfKindAppend ==
  ASSUME NEW s \in Seq(Event), NEW e \in Event, NEW kind
  PROVE  OfKind(Append(s, e), kind) =
           IF e.kind = kind THEN OfKind(s, kind) \cup {Len(s) + 1} ELSE OfKind(s, kind)
<1>1. /\ DOMAIN Append(s, e) = 1..(Len(s) + 1)
      /\ \A i \in 1..Len(s) : Append(s, e)[i] = s[i]
      /\ Append(s, e)[Len(s) + 1] = e
      /\ DOMAIN s = 1..Len(s)
      /\ Len(s) \in Nat
  OBVIOUS
<1>2. 1..(Len(s) + 1) = (1..Len(s)) \cup {Len(s) + 1} /\ Len(s) + 1 \notin 1..Len(s)
  BY <1>1
<1> QED BY <1>1, <1>2, Zenon DEF OfKind

LEMMA LatestAppend ==
  ASSUME NEW s \in Seq(Event), NEW e \in Event, NEW kind, NEW f, NEW otherwise
  PROVE  Latest(Append(s, e), kind, f, otherwise) =
           IF e.kind = kind THEN e[f] ELSE Latest(s, kind, f, otherwise)
<1> DEFINE old == OfKind(s, kind)
           new == OfKind(Append(s, e), kind)
<1>1. Len(s) \in Nat /\ old \subseteq 1..Len(s)
  BY DEF OfKind
<1>2. \A i \in 1..Len(s) : Append(s, e)[i] = s[i]
  OBVIOUS
<1>3. Append(s, e)[Len(s) + 1] = e
  OBVIOUS
<1>4. CASE e.kind = kind
  <2>1. new = old \cup {Len(s) + 1}
    BY <1>4, OfKindAppend
  <2> DEFINE last == CHOOSE i \in new : \A j \in new : j <= i
  <2>2. last = Len(s) + 1
    <3> HIDE DEF new
    <3>1. Len(s) + 1 \in new /\ \A j \in new : j \in Nat /\ j <= Len(s) + 1
      BY <1>1, <2>1
    <3>2. last \in new /\ \A j \in new : j <= last
      BY <3>1
    <3> QED BY <1>1, <3>1, <3>2
  <2>3. new # {}
    BY <2>1
  <2>4. Latest(Append(s, e), kind, f, otherwise) = Append(s, e)[last][f]
    BY <2>3 DEF Latest
  <2> QED BY <1>3, <1>4, <2>2, <2>4
<1>5. CASE e.kind # kind
  <2>1. new = old
    BY <1>5, OfKindAppend
  <2>2. CASE old = {}
    BY <1>5, <2>1, <2>2 DEF Latest
  <2>3. CASE old # {}
    <3> DEFINE last == CHOOSE i \in old : \A j \in old : j <= i
    <3>1. last \in old
      BY <1>1, <2>3, LastPosition
    <3>2. Latest(s, kind, f, otherwise) = s[last][f]
      BY <2>3 DEF Latest
    <3>3. Latest(Append(s, e), kind, f, otherwise) = Append(s, e)[last][f]
      BY <2>1, <2>3 DEF Latest
    <3> QED BY <1>1, <1>2, <1>5, <3>1, <3>2, <3>3
  <2> QED BY <2>2, <2>3
<1> QED BY <1>4, <1>5

(* A stream whose replay has a version and a status says so in its events. *)
LEMMA EmptyStream ==
  ASSUME NEW s \in Seq(Event)
  PROVE  /\ Project(s).version = Len(s)
         /\ Len(s) = 0 <=> s = <<>>
         /\ Project(<<>>) = NoPacket
<1>1. \A kind : OfKind(<<>>, kind) = {}
  BY DEF OfKind
<1>2. Project(<<>>) = NoPacket
  BY <1>1 DEF Project, NoPacket, Latest
<1> QED BY <1>2 DEF Project

LEMMA ApplyEventType ==
  ASSUME NEW pkt \in PacketState, NEW e \in Event
  PROVE  ApplyEvent(pkt, e) \in PacketState
<1>1. /\ e.kind = "issued" => /\ e.packet \in PacketIDs /\ e.tenant \in TenantIDs
                              /\ e.parent \in PacketIDs \cup {None}
      /\ e.kind = "taken" => e.actor \in Actors
      /\ e.kind = "transitioned" => e.to \in Statuses /\ e.evidence \in Attachments
      /\ e.kind = "superseded" => e.replacement \in PacketIDs
      /\ e.kind = "closed" => e.reason \in CloseReasons
  BY DEF Event
<1>2. NotStarted \in Statuses
  BY DEF Statuses
<1> QED BY <1>1, <1>2 DEF ApplyEvent, PacketState

(* Replaying one more accepted event is applying it to the packet replayed so far. *)
LEMMA ProjectAppend ==
  ASSUME NEW s \in Seq(Event), NEW e \in Event, Accepts(Project(s), e)
  PROVE  Project(Append(s, e)) = ApplyEvent(Project(s), e)
<1> DEFINE old == Project(s)
           new == Project(Append(s, e))
<1>1. /\ Len(Append(s, e)) = Len(s) + 1
      /\ Append(s, e) # <<>>
      /\ \A i \in 1..Len(s) : Append(s, e)[i] = s[i]
      /\ Append(s, e)[Len(s) + 1] = e
      /\ Len(s) \in Nat
      /\ Len(s) = 0 <=> s = <<>>
  OBVIOUS
<1>2. /\ new.id = IF e.kind = "issued" THEN e.packet ELSE old.id
      /\ new.tenant = IF e.kind = "issued" THEN e.tenant ELSE old.tenant
      /\ new.parent = IF e.kind = "issued" THEN e.parent ELSE old.parent
      /\ new.takenBy = IF e.kind = "taken" THEN e.actor ELSE old.takenBy
      /\ new.supersededBy = IF e.kind = "superseded" THEN e.replacement ELSE old.supersededBy
      /\ new.closure = IF e.kind = "closed" THEN e.reason ELSE old.closure
  BY LatestAppend DEF Project
<1>3. new.version = old.version + 1
  BY <1>1 DEF Project
<1>4. new.comments = IF e.kind = "commented" THEN old.comments \cup {old.version + 1}
                     ELSE old.comments
  BY OfKindAppend DEF Project
<1>5. new.status = IF e.kind = "issued" THEN NotStarted
                   ELSE IF e.kind = "transitioned" THEN e.to ELSE old.status
  <2>1. new.status = IF e.kind = "transitioned" THEN e.to
                     ELSE Latest(s, "transitioned", "to", NotStarted)
    BY <1>1, LatestAppend DEF Project
  <2>2. CASE e.kind = "issued"
    <3>1. s = <<>>
      BY <1>1, <2>2 DEF Accepts, Project
    <3>2. OfKind(s, "transitioned") = {}
      BY <3>1 DEF OfKind
    <3> QED BY <2>1, <2>2, <3>2 DEF Latest
  <2>3. CASE e.kind # "issued"
    <3>1. s # <<>>
      BY <1>1, <2>3 DEF Accepts, RequireIssued, Project
    <3> QED BY <2>1, <2>3, <3>1 DEF Project
  <2> QED BY <2>2, <2>3
<1>6. new.evidence = IF e.kind = "transitioned" /\ e.to = Done THEN e.evidence
                     ELSE old.evidence
  <2>1. OfKind(Append(s, e), "transitioned") =
          IF e.kind = "transitioned" THEN OfKind(s, "transitioned") \cup {Len(s) + 1}
          ELSE OfKind(s, "transitioned")
    BY OfKindAppend
  <2>2. OfKind(s, "transitioned") \subseteq 1..Len(s)
    BY DEF OfKind
  <2>3. (\E i \in OfKind(Append(s, e), "transitioned") : Append(s, e)[i].to = Done)
          <=> \/ \E i \in OfKind(s, "transitioned") : s[i].to = Done
              \/ e.kind = "transitioned" /\ e.to = Done
    BY <1>1, <2>1, <2>2
  <2>4. e.kind = "transitioned" /\ e.to = Done => e.evidence = "given"
    BY DEF Accepts
  <2>5. new.evidence = IF \E i \in OfKind(Append(s, e), "transitioned") :
                             Append(s, e)[i].to = Done
                       THEN "given" ELSE "absent"
    BY DEF Project
  <2>6. old.evidence = IF \E i \in OfKind(s, "transitioned") : s[i].to = Done
                       THEN "given" ELSE "absent"
    BY DEF Project
  <2> QED BY <2>3, <2>4, <2>5, <2>6
<1>7. new = [id |-> new.id, version |-> new.version, tenant |-> new.tenant,
              status |-> new.status, takenBy |-> new.takenBy, comments |-> new.comments,
              evidence |-> new.evidence, parent |-> new.parent,
              supersededBy |-> new.supersededBy, closure |-> new.closure]
  BY DEF Project
<1> HIDE DEF old, new
<1>8. new = ApplyEvent(old, e)
  BY <1>2, <1>3, <1>4, <1>5, <1>6, <1>7 DEF ApplyEvent
<1> QED BY <1>8 DEF old, new

LEMMA NoPacketType == NoPacket \in PacketState
<1>1. {} \in SUBSET Nat /\ 0 \in Nat
  OBVIOUS
<1> QED BY <1>1 DEF NoPacket, PacketState, Attachments

LEMMA ReplaysEmpty == Replays(<<>>)
  BY DEF Replays

LEMMA ReplaysAppend ==
  ASSUME NEW s \in Seq(Event), NEW e \in Event
  PROVE  Replays(Append(s, e)) <=> Replays(s) /\ Accepts(Project(s), e)
<1>1. /\ Len(Append(s, e)) = Len(s) + 1
      /\ Len(s) \in Nat
      /\ \A i \in 1..Len(s) : Append(s, e)[i] = s[i]
      /\ Append(s, e)[Len(s) + 1] = e
  OBVIOUS
<1>2. \A i \in 1..(Len(s) + 1) : SubSeq(Append(s, e), 1, i - 1) = SubSeq(s, 1, i - 1)
  OBVIOUS
<1>3. SubSeq(s, 1, (Len(s) + 1) - 1) = s
  OBVIOUS
<1>4. 1..(Len(s) + 1) = (1..Len(s)) \cup {Len(s) + 1}
  BY <1>1
<1> QED BY <1>1, <1>2, <1>3, <1>4 DEF Replays

-----------------------------------------------------------------------------
(* What the events of one mutation do to the packet they are applied to. *)

AsIssued(p, tenant, parent) ==
    [NoPacket EXCEPT !.id = p, !.version = 1, !.tenant = tenant, !.status = NotStarted,
                     !.parent = parent]
AsTaken(pkt, a) ==
    [pkt EXCEPT !.takenBy = a, !.status = InProgress, !.version = pkt.version + 2]
AsCommented(pkt) ==
    [pkt EXCEPT !.comments = pkt.comments \cup {pkt.version + 1},
                !.version = pkt.version + 1]
AsMoved(pkt, to) == [pkt EXCEPT !.status = to, !.version = pkt.version + 1]
AsFinished(pkt) ==
    [pkt EXCEPT !.status = Done, !.evidence = "given", !.closure = ReasonDone,
                !.version = pkt.version + 2]
AsSuperseded(pkt, r) ==
    [pkt EXCEPT !.supersededBy = r, !.closure = ReasonSuperseded,
                !.version = pkt.version + 2]

LEMMA SamePacket ==
  ASSUME NEW a \in PacketState, NEW b \in PacketState,
         a.id = b.id, a.version = b.version, a.tenant = b.tenant, a.status = b.status,
         a.takenBy = b.takenBy, a.comments = b.comments, a.evidence = b.evidence,
         a.parent = b.parent, a.supersededBy = b.supersededBy, a.closure = b.closure
  PROVE  a = b
  BY DEF PacketState

LEMMA VersionsAdd ==
  ASSUME NEW pkt \in PacketState
  PROVE  /\ pkt.version \in Nat /\ pkt.version + 1 \in Nat /\ pkt.version + 2 \in Nat
         /\ pkt.version + 1 + 1 = pkt.version + 2
<1>1. pkt.version \in Nat
  BY DEF PacketState
<1> QED BY <1>1

LEMMA StatusFacts ==
  /\ NotStarted \in Statuses /\ InProgress \in Statuses /\ Done \in Statuses
  /\ Blocked \in Statuses
  /\ InProgress # Done /\ NotStarted # Done /\ NotStarted # InProgress
  /\ ReasonDone \in CloseReasons /\ ReasonSuperseded \in CloseReasons
  /\ ReasonDone # ReasonSuperseded
  /\ "given" \in Attachments
  BY DEF Statuses, NotStarted, InProgress, Done, Blocked, CloseReasons, ReasonDone,
         ReasonSuperseded, Attachments

(* A taking and the start that follows it. *)
LEMMA Taking ==
  ASSUME NEW pkt \in PacketState, NEW p \in PacketIDs, NEW a \in Actors
  PROVE  ApplyEvent(ApplyEvent(pkt, PacketTaken(p, a)),
                    PacketStatusTransitioned(p, a, pkt.status, InProgress, "absent"))
           = AsTaken(pkt, a)
<1> DEFINE mid == ApplyEvent(pkt, PacketTaken(p, a))
           last == ApplyEvent(mid, PacketStatusTransitioned(p, a, pkt.status, InProgress, "absent"))
           new == [pkt EXCEPT !.takenBy = a, !.status = InProgress,
                              !.version = pkt.version + 2]
<1>1. /\ pkt.version \in Nat /\ pkt.version + 1 \in Nat /\ pkt.version + 2 \in Nat
      /\ pkt.version + 1 + 1 = pkt.version + 2
      /\ InProgress \in Statuses /\ Done \in Statuses /\ InProgress # Done
      /\ "given" \in Attachments
      /\ ReasonDone \in CloseReasons /\ ReasonSuperseded \in CloseReasons
  BY VersionsAdd, StatusFacts
<1>2. mid = [id |-> pkt.id, version |-> pkt.version + 1, tenant |-> pkt.tenant,
             status |-> pkt.status, takenBy |-> a, comments |-> pkt.comments,
             evidence |-> pkt.evidence, parent |-> pkt.parent,
             supersededBy |-> pkt.supersededBy, closure |-> pkt.closure]
  BY DEF ApplyEvent, PacketTaken
<1> HIDE DEF mid
<1>3. last = [id |-> mid.id, version |-> mid.version + 1, tenant |-> mid.tenant,
              status |-> InProgress, takenBy |-> mid.takenBy,
              comments |-> mid.comments, evidence |-> mid.evidence,
              parent |-> mid.parent, supersededBy |-> mid.supersededBy,
              closure |-> mid.closure]
  BY <1>1 DEF ApplyEvent, PacketStatusTransitioned
<1>4. last = [id |-> pkt.id, version |-> pkt.version + 2, tenant |-> pkt.tenant,
              status |-> InProgress, takenBy |-> a, comments |-> pkt.comments,
              evidence |-> pkt.evidence, parent |-> pkt.parent,
              supersededBy |-> pkt.supersededBy, closure |-> pkt.closure]
  BY <1>1, <1>2, <1>3
<1> HIDE DEF last
<1>5. last \in PacketState
  BY <1>1, <1>4 DEF PacketState
<1>6. new \in PacketState
  BY <1>1 DEF PacketState
<1>7. /\ new.id = pkt.id /\ new.version = pkt.version + 2
      /\ new.tenant = pkt.tenant /\ new.status = InProgress
      /\ new.takenBy = a /\ new.comments = pkt.comments
      /\ new.evidence = pkt.evidence /\ new.parent = pkt.parent
      /\ new.supersededBy = pkt.supersededBy /\ new.closure = pkt.closure
  BY DEF PacketState
<1> HIDE DEF new
<1>8. last = new
  BY <1>4, <1>5, <1>6, <1>7, SamePacket
<1> QED BY <1>8 DEF last, new, mid, AsTaken

(* The transition to done, with its evidence, and the closure that follows it. *)
LEMMA Finishing ==
  ASSUME NEW pkt \in PacketState, NEW p \in PacketIDs, NEW a \in Actors
  PROVE  ApplyEvent(ApplyEvent(pkt, PacketStatusTransitioned(p, a, pkt.status, Done, "given")),
                    PacketClosed(p, a, ReasonDone))
           = AsFinished(pkt)
<1> DEFINE mid == ApplyEvent(pkt, PacketStatusTransitioned(p, a, pkt.status, Done, "given"))
           last == ApplyEvent(mid, PacketClosed(p, a, ReasonDone))
           new == [pkt EXCEPT !.status = Done, !.evidence = "given",
                              !.closure = ReasonDone, !.version = pkt.version + 2]
<1>1. /\ pkt.version \in Nat /\ pkt.version + 1 \in Nat /\ pkt.version + 2 \in Nat
      /\ pkt.version + 1 + 1 = pkt.version + 2
      /\ InProgress \in Statuses /\ Done \in Statuses /\ InProgress # Done
      /\ "given" \in Attachments
      /\ ReasonDone \in CloseReasons /\ ReasonSuperseded \in CloseReasons
  BY VersionsAdd, StatusFacts
<1>2. mid = [id |-> pkt.id, version |-> pkt.version + 1, tenant |-> pkt.tenant,
             status |-> Done, takenBy |-> pkt.takenBy,
             comments |-> pkt.comments, evidence |-> "given",
             parent |-> pkt.parent, supersededBy |-> pkt.supersededBy,
             closure |-> pkt.closure]
  BY DEF ApplyEvent, PacketStatusTransitioned
<1> HIDE DEF mid
<1>3. last = [id |-> mid.id, version |-> mid.version + 1, tenant |-> mid.tenant,
              status |-> mid.status, takenBy |-> mid.takenBy,
              comments |-> mid.comments, evidence |-> mid.evidence,
              parent |-> mid.parent, supersededBy |-> mid.supersededBy,
              closure |-> ReasonDone]
  BY <1>1 DEF ApplyEvent, PacketClosed
<1>4. last = [id |-> pkt.id, version |-> pkt.version + 2, tenant |-> pkt.tenant,
              status |-> Done, takenBy |-> pkt.takenBy,
              comments |-> pkt.comments, evidence |-> "given",
              parent |-> pkt.parent, supersededBy |-> pkt.supersededBy,
              closure |-> ReasonDone]
  BY <1>1, <1>2, <1>3
<1> HIDE DEF last
<1>5. last \in PacketState
  BY <1>1, <1>4 DEF PacketState
<1>6. new \in PacketState
  BY <1>1 DEF PacketState
<1>7. /\ new.id = pkt.id /\ new.version = pkt.version + 2
      /\ new.tenant = pkt.tenant /\ new.status = Done
      /\ new.takenBy = pkt.takenBy /\ new.comments = pkt.comments
      /\ new.evidence = "given" /\ new.parent = pkt.parent
      /\ new.supersededBy = pkt.supersededBy /\ new.closure = ReasonDone
  BY DEF PacketState
<1> HIDE DEF new
<1>8. last = new
  BY <1>4, <1>5, <1>6, <1>7, SamePacket
<1> QED BY <1>8 DEF last, new, mid, AsFinished

(* A supersession and the closure that follows it. *)
LEMMA Superseding ==
  ASSUME NEW pkt \in PacketState, NEW p \in PacketIDs, NEW a \in Actors,
         NEW r \in PacketIDs
  PROVE  ApplyEvent(ApplyEvent(pkt, PacketSuperseded(p, a, r)),
                    PacketClosed(p, a, ReasonSuperseded))
           = AsSuperseded(pkt, r)
<1> DEFINE mid == ApplyEvent(pkt, PacketSuperseded(p, a, r))
           last == ApplyEvent(mid, PacketClosed(p, a, ReasonSuperseded))
           new == [pkt EXCEPT !.supersededBy = r, !.closure = ReasonSuperseded,
                              !.version = pkt.version + 2]
<1>1. /\ pkt.version \in Nat /\ pkt.version + 1 \in Nat /\ pkt.version + 2 \in Nat
      /\ pkt.version + 1 + 1 = pkt.version + 2
      /\ InProgress \in Statuses /\ Done \in Statuses /\ InProgress # Done
      /\ "given" \in Attachments
      /\ ReasonDone \in CloseReasons /\ ReasonSuperseded \in CloseReasons
  BY VersionsAdd, StatusFacts
<1>2. mid = [id |-> pkt.id, version |-> pkt.version + 1, tenant |-> pkt.tenant,
             status |-> pkt.status, takenBy |-> pkt.takenBy,
             comments |-> pkt.comments, evidence |-> pkt.evidence,
             parent |-> pkt.parent, supersededBy |-> r, closure |-> pkt.closure]
  BY DEF ApplyEvent, PacketSuperseded
<1> HIDE DEF mid
<1>3. last = [id |-> mid.id, version |-> mid.version + 1, tenant |-> mid.tenant,
              status |-> mid.status, takenBy |-> mid.takenBy,
              comments |-> mid.comments, evidence |-> mid.evidence,
              parent |-> mid.parent, supersededBy |-> mid.supersededBy,
              closure |-> ReasonSuperseded]
  BY <1>1 DEF ApplyEvent, PacketClosed
<1>4. last = [id |-> pkt.id, version |-> pkt.version + 2, tenant |-> pkt.tenant,
              status |-> pkt.status, takenBy |-> pkt.takenBy,
              comments |-> pkt.comments, evidence |-> pkt.evidence,
              parent |-> pkt.parent, supersededBy |-> r,
              closure |-> ReasonSuperseded]
  BY <1>1, <1>2, <1>3
<1> HIDE DEF last
<1>5. last \in PacketState
  BY <1>1, <1>4 DEF PacketState
<1>6. new \in PacketState
  BY <1>1 DEF PacketState
<1>7. /\ new.id = pkt.id /\ new.version = pkt.version + 2
      /\ new.tenant = pkt.tenant /\ new.status = pkt.status
      /\ new.takenBy = pkt.takenBy /\ new.comments = pkt.comments
      /\ new.evidence = pkt.evidence /\ new.parent = pkt.parent
      /\ new.supersededBy = r /\ new.closure = ReasonSuperseded
  BY DEF PacketState
<1> HIDE DEF new
<1>8. last = new
  BY <1>4, <1>5, <1>6, <1>7, SamePacket
<1> QED BY <1>8 DEF last, new, mid, AsSuperseded

(* A transition to another status than done. *)
LEMMA Moving ==
  ASSUME NEW pkt \in PacketState, NEW p \in PacketIDs, NEW a \in Actors,
         NEW to \in Statuses, to # Done, NEW x
  PROVE  ApplyEvent(pkt, PacketStatusTransitioned(p, a, pkt.status, to, x))
           = AsMoved(pkt, to)
<1> DEFINE last == ApplyEvent(pkt, PacketStatusTransitioned(p, a, pkt.status, to, x))
           new == [pkt EXCEPT !.status = to, !.version = pkt.version + 1]
<1>1. /\ pkt.version \in Nat /\ pkt.version + 1 \in Nat /\ pkt.version + 2 \in Nat
      /\ pkt.version + 1 + 1 = pkt.version + 2
      /\ InProgress \in Statuses /\ Done \in Statuses /\ InProgress # Done
      /\ "given" \in Attachments
      /\ ReasonDone \in CloseReasons /\ ReasonSuperseded \in CloseReasons
  BY VersionsAdd, StatusFacts
<1>2. last = [id |-> pkt.id, version |-> pkt.version + 1, tenant |-> pkt.tenant,
              status |-> to, takenBy |-> pkt.takenBy, comments |-> pkt.comments,
              evidence |-> pkt.evidence, parent |-> pkt.parent,
              supersededBy |-> pkt.supersededBy, closure |-> pkt.closure]
  BY <1>1 DEF ApplyEvent, PacketStatusTransitioned
<1> HIDE DEF last
<1>5. last \in PacketState
  BY <1>1, <1>2 DEF PacketState
<1>6. new \in PacketState
  BY <1>1 DEF PacketState
<1>7. /\ new.id = pkt.id /\ new.version = pkt.version + 1
      /\ new.tenant = pkt.tenant /\ new.status = to
      /\ new.takenBy = pkt.takenBy /\ new.comments = pkt.comments
      /\ new.evidence = pkt.evidence /\ new.parent = pkt.parent
      /\ new.supersededBy = pkt.supersededBy /\ new.closure = pkt.closure
  BY DEF PacketState
<1> HIDE DEF new
<1>8. last = new
  BY <1>2, <1>5, <1>6, <1>7, SamePacket
<1> QED BY <1>8 DEF last, new, AsMoved

(* A comment. *)
LEMMA Commenting ==
  ASSUME NEW pkt \in PacketState, NEW p \in PacketIDs, NEW a \in Actors, NEW x
  PROVE  ApplyEvent(pkt, PacketCommented(p, a, x))
           = AsCommented(pkt)
<1> DEFINE last == ApplyEvent(pkt, PacketCommented(p, a, x))
           new == [pkt EXCEPT !.comments = pkt.comments \cup {pkt.version + 1},
                              !.version = pkt.version + 1]
<1>1. /\ pkt.version \in Nat /\ pkt.version + 1 \in Nat /\ pkt.version + 2 \in Nat
      /\ pkt.version + 1 + 1 = pkt.version + 2
      /\ InProgress \in Statuses /\ Done \in Statuses /\ InProgress # Done
      /\ "given" \in Attachments
      /\ ReasonDone \in CloseReasons /\ ReasonSuperseded \in CloseReasons
  BY VersionsAdd, StatusFacts
<1>2. last = [id |-> pkt.id, version |-> pkt.version + 1, tenant |-> pkt.tenant,
              status |-> pkt.status, takenBy |-> pkt.takenBy,
              comments |-> pkt.comments \cup {pkt.version + 1},
              evidence |-> pkt.evidence, parent |-> pkt.parent,
              supersededBy |-> pkt.supersededBy, closure |-> pkt.closure]
  BY <1>1 DEF ApplyEvent, PacketCommented
<1> HIDE DEF last
<1>5. last \in PacketState
  BY <1>1, <1>2 DEF PacketState
<1>6. new \in PacketState
  BY <1>1 DEF PacketState
<1>7. /\ new.id = pkt.id /\ new.version = pkt.version + 1
      /\ new.tenant = pkt.tenant /\ new.status = pkt.status
      /\ new.takenBy = pkt.takenBy /\ new.comments = pkt.comments \cup {pkt.version + 1}
      /\ new.evidence = pkt.evidence /\ new.parent = pkt.parent
      /\ new.supersededBy = pkt.supersededBy /\ new.closure = pkt.closure
  BY DEF PacketState
<1> HIDE DEF new
<1>8. last = new
  BY <1>2, <1>5, <1>6, <1>7, SamePacket
<1> QED BY <1>8 DEF last, new, AsCommented

(* An issue, which sets what a packet nobody issued does not have. *)
LEMMA Issuing ==
  ASSUME NEW pkt \in PacketState, pkt = NoPacket,
         NEW p \in PacketIDs, NEW a \in Actors, NEW tenant \in TenantIDs,
         NEW parent \in PacketIDs \cup {None}
  PROVE  ApplyEvent(pkt, PacketIssued(p, a, tenant, parent))
           = AsIssued(p, tenant, parent)
<1> DEFINE last == ApplyEvent(pkt, PacketIssued(p, a, tenant, parent))
           new == [pkt EXCEPT !.id = p, !.version = 1, !.tenant = tenant,
                              !.status = NotStarted, !.parent = parent]
<1>1. pkt.version + 1 = 1 /\ 1 \in Nat /\ NotStarted \in Statuses
  BY StatusFacts DEF NoPacket
<1>2. last = [id |-> p, version |-> 1, tenant |-> tenant, status |-> NotStarted,
              takenBy |-> pkt.takenBy, comments |-> pkt.comments,
              evidence |-> pkt.evidence, parent |-> parent,
              supersededBy |-> pkt.supersededBy, closure |-> pkt.closure]
  BY <1>1 DEF ApplyEvent, PacketIssued
<1> HIDE DEF last
<1>5. last \in PacketState
  BY <1>1, <1>2 DEF PacketState
<1>6. new \in PacketState
  BY <1>1 DEF PacketState
<1>7. /\ new.id = p /\ new.version = 1
      /\ new.tenant = tenant /\ new.status = NotStarted
      /\ new.takenBy = pkt.takenBy /\ new.comments = pkt.comments
      /\ new.evidence = pkt.evidence /\ new.parent = parent
      /\ new.supersededBy = pkt.supersededBy /\ new.closure = pkt.closure
  BY DEF PacketState
<1> HIDE DEF new
<1>8. last = new
  BY <1>2, <1>5, <1>6, <1>7, SamePacket
<1> QED BY <1>8 DEF last, new, AsIssued

(* Issued without a parent, a packet has the parent nobody issued has. *)
LEMMA UnparentedIssue ==
  ASSUME NEW p \in PacketIDs, NEW tenant \in TenantIDs
  PROVE  AsIssued(p, tenant, None)
           = [NoPacket EXCEPT !.id = p, !.version = 1, !.tenant = tenant,
                              !.status = NotStarted]
<1> DEFINE a == [NoPacket EXCEPT !.id = p, !.version = 1, !.tenant = tenant,
                                 !.status = NotStarted]
<1>1. a \in PacketState
  <2>1. 1 \in Nat /\ NotStarted \in Statuses
    BY StatusFacts
  <2> QED BY <2>1, NoPacketType DEF PacketState
<1>2. a.parent = None
  BY DEF NoPacket
<1>3. AsIssued(p, tenant, None) = [a EXCEPT !.parent = None]
  BY DEF AsIssued
<1> HIDE DEF a
<1>4. [a EXCEPT !.parent = None] = a
  BY <1>1, <1>2 DEF PacketState
<1> QED BY <1>3, <1>4 DEF a

=============================================================================
