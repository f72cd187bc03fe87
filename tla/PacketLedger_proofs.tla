------------------------ MODULE PacketLedger_proofs ------------------------
(***************************************************************************)
(* The promises of the ledger about supersession, for any packets, tenants *)
(* and actors.  The invariant adds to LinksAgree and LineageIsFounded what *)
(* they need to be inductive: a packet nobody issued has no links, and a   *)
(* packet that names its replacement is closed.                            *)
(***************************************************************************)
EXTENDS PacketLedger, Packet_proofs

UnissuedUnlinked ==
    \A p \in PacketIDs : ~Issued(p) =>
      packets[p].parent = None /\ packets[p].supersededBy = None

SupersededIsClosed ==
    \A p \in PacketIDs : packets[p].supersededBy # None => ~Open(packets[p])

Inv ==
    /\ TypeOK
    /\ UnissuedUnlinked
    /\ LinksAgree
    /\ SupersededIsClosed
    /\ LineageIsFounded

(* No packet has the id None. *)
LEMMA NoneIsNoPacket == None \notin PacketIDs
BY NoneAssumption

(* The version of a packet of the ledger, before and after an operation. *)
LEMMA CurrentPacket ==
  ASSUME Inv, NEW p \in PacketIDs
  PROVE  /\ packets[p] \in PacketState
         /\ packets[p].version \in Nat
         /\ packets[p].version + 1 \in Nat \ {0}
         /\ packets[p].version + 2 \in Nat \ {0}
<1>1. packets[p] \in PacketState
  BY DEF Inv, TypeOK
<1>2. packets[p].version \in Nat
  BY <1>1 DEF PacketState
<1> QED BY <1>1, <1>2

LEMMA InvInit == Init => Inv
<1> SUFFICES ASSUME Init
             PROVE  Inv
  OBVIOUS
<1>1. \A p \in PacketIDs : packets[p] = NoPacket
  BY DEF Init
<1>2. TypeOK
  BY NoneAssumption DEF Init, TypeOK, NoPacket, PacketState, Attachments
<1>3. UnissuedUnlinked /\ LinksAgree /\ SupersededIsClosed
  BY <1>1, NoneIsNoPacket DEF UnissuedUnlinked, LinksAgree, SupersededIsClosed, NoPacket
<1>4. LineageIsFounded
  BY <1>1, NoneIsNoPacket DEF LineageIsFounded, NoPacket
<1> QED BY <1>2, <1>3, <1>4 DEF Inv

(* A step that leaves every link as it is, and every superseded packet closed, keeps the *)
(* whole invariant but for the types.                                                     *)
LEMMA LinksKept ==
  ASSUME Inv, TypeOK',
         \A p \in PacketIDs : /\ packets'[p].parent = packets[p].parent
                              /\ packets'[p].supersededBy = packets[p].supersededBy
                              /\ packets[p].version # 0 => packets'[p].version # 0
                              /\ packets[p].supersededBy # None /\ ~Open(packets[p])
                                   => ~Open(packets'[p])
  PROVE  Inv'
<1>1. UnissuedUnlinked'
  BY DEF Inv, UnissuedUnlinked, Issued
<1>2. LinksAgree'
  BY DEF Inv, LinksAgree
<1>3. SupersededIsClosed'
  BY DEF Inv, SupersededIsClosed
<1>4. LineageIsFounded'
  BY DEF Inv, LineageIsFounded
<1> QED BY <1>1, <1>2, <1>3, <1>4 DEF Inv

-----------------------------------------------------------------------------
(* One lemma for each operation. *)

LEMMA IssueKeeps ==
  ASSUME Inv, NEW p \in PacketIDs, NEW tenant \in TenantIDs, Issue(p, tenant)
  PROVE  Inv'
<1> DEFINE new == [NoPacket EXCEPT !.id = p, !.version = 1, !.tenant = tenant,
                                   !.status = NotStarted]
<1>1. packets' = [q \in PacketIDs |-> IF q = p THEN new ELSE packets[q]]
  BY DEF Inv, TypeOK, Issue
<1>2. new \in PacketState /\ new.version = 1 /\ new.parent = None /\ new.supersededBy = None
  BY DEF NoPacket, PacketState, Attachments, Statuses
<1> HIDE DEF new
<1>3. TypeOK'
  BY <1>1, <1>2 DEF Inv, TypeOK
<1>4. packets[p].version = 0 /\ packets[p].parent = None /\ packets[p].supersededBy = None
  BY DEF Inv, UnissuedUnlinked, Issue, Issued
<1> QED BY <1>1, <1>2, <1>3, <1>4, LinksKept

LEMMA TakeKeeps ==
  ASSUME Inv, NEW p \in PacketIDs, NEW a \in Actors, Take(p, a)
  PROVE  Inv'
<1> DEFINE new == [packets[p] EXCEPT !.takenBy = a, !.status = InProgress, !.version = @ + 2]
<1>1. packets' = [q \in PacketIDs |-> IF q = p THEN new ELSE packets[q]]
  BY DEF Inv, TypeOK, Take
<1>2. /\ new \in PacketState /\ new.version # 0
      /\ new.parent = packets[p].parent /\ new.supersededBy = packets[p].supersededBy
      /\ new.closure = packets[p].closure
  BY CurrentPacket DEF PacketState, Statuses
<1> HIDE DEF new
<1>3. TypeOK'
  BY <1>1, <1>2 DEF Inv, TypeOK
<1> QED BY <1>1, <1>2, <1>3, LinksKept DEF Open

LEMMA CommentKeeps ==
  ASSUME Inv, NEW p \in PacketIDs, Comment(p)
  PROVE  Inv'
<1> DEFINE new == [packets[p] EXCEPT !.comments = @ \cup {packets[p].version + 1},
                                     !.version = @ + 1]
<1>1. packets' = [q \in PacketIDs |-> IF q = p THEN new ELSE packets[q]]
  BY DEF Inv, TypeOK, Comment
<1>2. /\ new \in PacketState /\ new.version # 0
      /\ new.parent = packets[p].parent /\ new.supersededBy = packets[p].supersededBy
      /\ new.closure = packets[p].closure
  BY CurrentPacket DEF PacketState, Statuses
<1> HIDE DEF new
<1>3. TypeOK'
  BY <1>1, <1>2 DEF Inv, TypeOK
<1> QED BY <1>1, <1>2, <1>3, LinksKept DEF Open

LEMMA MoveKeeps ==
  ASSUME Inv, NEW p \in PacketIDs, NEW to \in Statuses, Move(p, to)
  PROVE  Inv'
<1> DEFINE new == [packets[p] EXCEPT !.status = to, !.version = @ + 1]
<1>1. packets' = [q \in PacketIDs |-> IF q = p THEN new ELSE packets[q]]
  BY DEF Inv, TypeOK, Move
<1>2. /\ new \in PacketState /\ new.version # 0
      /\ new.parent = packets[p].parent /\ new.supersededBy = packets[p].supersededBy
      /\ new.closure = packets[p].closure
  BY CurrentPacket DEF PacketState, Statuses
<1> HIDE DEF new
<1>3. TypeOK'
  BY <1>1, <1>2 DEF Inv, TypeOK
<1> QED BY <1>1, <1>2, <1>3, LinksKept DEF Open

LEMMA FinishKeeps ==
  ASSUME Inv, NEW p \in PacketIDs, Finish(p)
  PROVE  Inv'
<1> DEFINE new == [packets[p] EXCEPT !.status = Done, !.evidence = "given",
                                     !.closure = ReasonDone, !.version = @ + 2]
<1>1. packets' = [q \in PacketIDs |-> IF q = p THEN new ELSE packets[q]]
  BY DEF Inv, TypeOK, Finish
<1>2. /\ new \in PacketState /\ new.version # 0
      /\ new.parent = packets[p].parent /\ new.supersededBy = packets[p].supersededBy
      /\ new.closure # None
  BY NoneAssumption, CurrentPacket DEF PacketState, Statuses, Attachments, CloseReasons
<1> HIDE DEF new
<1>3. TypeOK'
  BY <1>1, <1>2 DEF Inv, TypeOK
<1> QED BY <1>1, <1>2, <1>3, LinksKept DEF Open

(* Superseding is the one operation that makes links: p, which is open and so has no      *)
(* replacement, and r, which nobody issued and so has no links, name each other.          *)
LEMMA SupersedeKeeps ==
  ASSUME Inv, NEW p \in PacketIDs, NEW r \in PacketIDs, NEW tenant \in TenantIDs,
         Supersede(p, r, tenant)
  PROVE  Inv'
<1> DEFINE old == [packets[p] EXCEPT !.supersededBy = r, !.closure = ReasonSuperseded,
                                     !.version = @ + 2]
           new == [NoPacket EXCEPT !.id = r, !.version = 1, !.tenant = tenant,
                                   !.status = NotStarted, !.parent = p]
<1>1. p # r
  BY DEF Supersede, Issued
<1>2. packets' = [q \in PacketIDs |-> IF q = r THEN new ELSE IF q = p THEN old
                                      ELSE packets[q]]
  BY <1>1 DEF Inv, TypeOK, Supersede
<1>3. /\ old \in PacketState /\ old.version # 0
      /\ old.parent = packets[p].parent /\ old.supersededBy = r /\ old.closure # None
  BY NoneAssumption, CurrentPacket DEF PacketState, CloseReasons
<1>4. /\ new \in PacketState /\ new.version = 1
      /\ new.parent = p /\ new.supersededBy = None
  BY DEF NoPacket, PacketState, Attachments, Statuses
<1> HIDE DEF old, new
<1>5. packets[p].supersededBy = None
  BY DEF Inv, SupersededIsClosed, Supersede
<1>6. packets[r].parent = None /\ packets[r].supersededBy = None
  BY DEF Inv, UnissuedUnlinked, Supersede
<1>7. TypeOK'
  BY <1>2, <1>3, <1>4 DEF Inv, TypeOK
<1>8. UnissuedUnlinked'
  BY <1>2, <1>3, <1>4 DEF Inv, UnissuedUnlinked, Issued
<1>9. LinksAgree'
  <2> SUFFICES ASSUME NEW x \in PacketIDs, NEW y \in PacketIDs
               PROVE  packets'[x].supersededBy = y <=> packets'[y].parent = x
    BY DEF LinksAgree
  <2>1. packets[x].supersededBy = y <=> packets[y].parent = x
    BY DEF Inv, LinksAgree
  <2>2. None \notin PacketIDs
    BY NoneIsNoPacket
  <2>3. CASE x = p
    BY <1>1, <1>2, <1>3, <1>4, <1>5, <2>1, <2>2, <2>3
  <2>4. CASE x = r
    BY <1>1, <1>2, <1>3, <1>4, <1>6, <2>1, <2>2, <2>4
  <2>5. CASE x # p /\ x # r
    BY <1>1, <1>2, <1>3, <1>4, <1>6, <2>1, <2>2, <2>5
  <2> QED BY <2>3, <2>4, <2>5
<1>10. SupersededIsClosed'
  BY <1>2, <1>3, <1>4 DEF Inv, SupersededIsClosed, Open
<1>11. LineageIsFounded'
  <2> SUFFICES ASSUME NEW S \in SUBSET PacketIDs, S # {}
               PROVE  \E x \in S : packets'[x].parent \notin S
    BY DEF LineageIsFounded
  <2>1. \A x \in PacketIDs : packets'[x].parent = IF x = r THEN p ELSE packets[x].parent
    BY <1>2, <1>3, <1>4
  <2>2. CASE S = {r}
    BY <1>1, <2>1, <2>2
  <2>3. CASE S # {r}
    <3>1. S \ {r} \in SUBSET PacketIDs /\ S \ {r} # {}
      BY <2>3
    <3>2. PICK x \in S \ {r} : packets[x].parent \notin S \ {r}
      BY <3>1 DEF Inv, LineageIsFounded
    <3>3. packets[x].parent # r
      BY <1>6, <3>2, NoneIsNoPacket DEF Inv, LinksAgree
    <3> QED BY <2>1, <3>2, <3>3
  <2> QED BY <2>2, <2>3
<1> QED BY <1>7, <1>8, <1>9, <1>10, <1>11 DEF Inv

LEMMA InvNext == Inv /\ [Next]_packets => Inv'
<1> SUFFICES ASSUME Inv, [Next]_packets
             PROVE  Inv'
  OBVIOUS
<1>1. CASE UNCHANGED packets
  BY <1>1 DEF Inv, TypeOK, UnissuedUnlinked, LinksAgree, SupersededIsClosed,
              LineageIsFounded, Issued
<1>2. CASE Next
  BY <1>2, IssueKeeps, TakeKeeps, CommentKeeps, MoveKeeps, FinishKeeps, SupersedeKeeps
     DEF Next
<1> QED BY <1>1, <1>2

(* Every packet of the ledger keeps its type, whatever operations follow each other. *)
THEOREM LedgerTypeOK == Spec => []TypeOK
<1>1. Inv => TypeOK
  BY DEF Inv
<1> QED BY <1>1, InvInit, InvNext, PTL DEF Spec

(* The parents and the replacements of the packets of the ledger always agree: an         *)
(* observer who follows either link of a packet can follow the other one back.            *)
THEOREM LedgerLinksAgree == Spec => []LinksAgree
<1>1. Inv => LinksAgree
  BY DEF Inv
<1> QED BY <1>1, InvInit, InvNext, PTL DEF Spec

(* No lineage of packets is a cycle: of any set of packets, one at least is an original   *)
(* or replaces a packet that is not in the set.                                           *)
THEOREM LedgerLineageIsFounded == Spec => []LineageIsFounded
<1>1. Inv => LineageIsFounded
  BY DEF Inv
<1> QED BY <1>1, InvInit, InvNext, PTL DEF Spec

-----------------------------------------------------------------------------
(* The ancestors of p, and p: what every set that holds p and the parents of its packets  *)
(* holds.                                                                                  *)
Ancestry(p) ==
    {x \in PacketIDs : \A S \in SUBSET PacketIDs :
       p \in S /\ (\A y \in S : packets[y].parent \in PacketIDs => packets[y].parent \in S)
       => x \in S}

(* An ancestor of p other than p has a replacement in the ancestry of p.                  *)
LEMMA AncestorsHaveReplacements ==
  ASSUME Inv, NEW p \in PacketIDs, NEW x \in Ancestry(p), x # p
  PROVE  packets[x].supersededBy \in Ancestry(p)
<1> DEFINE T == Ancestry(p) \ {x}
<1>1. T \in SUBSET PacketIDs /\ p \in T /\ x \in PacketIDs
  BY DEF Ancestry
<1>2. PICK y \in T : packets[y].parent \in PacketIDs /\ packets[y].parent \notin T
  BY <1>1 DEF Ancestry
<1>3. packets[y].parent \in Ancestry(p)
  BY <1>2 DEF Ancestry
<1>4. packets[y].parent = x
  BY <1>2, <1>3
<1>5. packets[x].supersededBy = y
  BY <1>1, <1>2, <1>4 DEF Inv, LinksAgree
<1> QED BY <1>2, <1>5

(* One packet at most of a lineage is open: the ancestry of an open packet is closed under  *)
(* links, and all of it but the packet itself has been replaced.                            *)
LEMMA OneOpenOfALineage == Inv => OneOpenPerLineage
<1> SUFFICES ASSUME Inv, NEW p \in PacketIDs, NEW q \in PacketIDs,
                    Open(packets[p]), Open(packets[q]), SameLineage(p, q), p # q
             PROVE  FALSE
  BY DEF OneOpenPerLineage
<1> DEFINE A == Ancestry(p)
<1>1. A \in SUBSET PacketIDs /\ p \in A
  BY DEF Ancestry
<1>2. ASSUME NEW x \in A, packets[x].parent \in PacketIDs
      PROVE  packets[x].parent \in A
  BY <1>2 DEF Ancestry
<1>3. ASSUME NEW x \in A, packets[x].supersededBy \in PacketIDs
      PROVE  packets[x].supersededBy \in A
  <2>1. x # p
    BY <1>3, NoneIsNoPacket DEF Inv, SupersededIsClosed
  <2> QED BY <2>1, AncestorsHaveReplacements
<1>4. ClosedUnderLinks(A)
  BY <1>2, <1>3 DEF ClosedUnderLinks
<1>5. q \in A
  BY <1>1, <1>4 DEF SameLineage
<1>6. packets[q].supersededBy \in PacketIDs
  BY <1>1, <1>5, AncestorsHaveReplacements
<1> QED BY <1>6, NoneIsNoPacket DEF Inv, SupersededIsClosed

(* However often a piece of work is superseded, one packet at most of its lineage is open: *)
(* a superseded packet and its replacements can never be worked on side by side.           *)
THEOREM LedgerOneOpenPerLineage == Spec => []OneOpenPerLineage
<1> QED BY OneOpenOfALineage, InvInit, InvNext, PTL DEF Spec

-----------------------------------------------------------------------------
(* Each operation from its effect: what a step that writes these packets has done. *)

LEMMA IsIssue ==
  ASSUME TypeOK, NEW p \in PacketIDs, NEW tenant \in TenantIDs, ~Issued(p),
         packets' = [packets EXCEPT ![p] = AsIssued(p, tenant, None)]
  PROVE  Next
<1>1. AsIssued(p, tenant, None) = [NoPacket EXCEPT !.id = p, !.version = 1, !.tenant = tenant,
                                                   !.status = NotStarted]
  BY UnparentedIssue
<1>2. Issue(p, tenant)
  BY <1>1 DEF Issue
<1> QED BY <1>2 DEF Next

LEMMA IsTake ==
  ASSUME TypeOK, NEW p \in PacketIDs, NEW a \in Actors, Issued(p), Open(packets[p]),
         packets[p].takenBy = None, packets[p].status = NotStarted,
         packets' = [packets EXCEPT ![p] = AsTaken(packets[p], a)]
  PROVE  Next
<1>1. Take(p, a)
  BY DEF Take, TypeOK, AsTaken
<1> QED BY <1>1 DEF Next

LEMMA IsComment ==
  ASSUME TypeOK, NEW p \in PacketIDs, Issued(p),
         packets' = [packets EXCEPT ![p] = AsCommented(packets[p])]
  PROVE  Next
<1>1. Comment(p)
  BY DEF Comment, TypeOK, AsCommented
<1> QED BY <1>1 DEF Next

LEMMA IsMove ==
  ASSUME TypeOK, NEW p \in PacketIDs, NEW to \in Statuses, Issued(p), Open(packets[p]),
         to # Done, LegalTransition(packets[p].status, to),
         packets' = [packets EXCEPT ![p] = AsMoved(packets[p], to)]
  PROVE  Next
<1>1. Move(p, to)
  BY DEF Move, TypeOK, AsMoved
<1> QED BY <1>1 DEF Next

LEMMA IsFinish ==
  ASSUME TypeOK, NEW p \in PacketIDs, Issued(p), Open(packets[p]),
         packets[p].status = InProgress,
         packets' = [packets EXCEPT ![p] = AsFinished(packets[p])]
  PROVE  Next
<1>1. Finish(p)
  BY DEF Finish, TypeOK, AsFinished
<1> QED BY <1>1 DEF Next

LEMMA IsSupersede ==
  ASSUME TypeOK, NEW p \in PacketIDs, NEW r \in PacketIDs, NEW tenant \in TenantIDs,
         Issued(p), Open(packets[p]), ~Issued(r),
         packets' = [packets EXCEPT ![p] = AsSuperseded(packets[p], r),
                                    ![r] = AsIssued(r, tenant, p)]
  PROVE  Next
<1>1. Supersede(p, r, tenant)
  BY DEF Supersede, TypeOK, Issued, AsSuperseded, AsIssued
<1> QED BY <1>1 DEF Next

-----------------------------------------------------------------------------
(* What one step does to one packet, as far as its lifecycle is concerned. *)

\* Nothing but its issue says whose packet it is and what it replaces.
SameOrigin(pkt, new) == new.tenant = pkt.tenant /\ new.parent = pkt.parent

Lifecycle(pkt, new) ==
    \/ new = pkt
    \/ new = AsCommented(pkt)
    \/ /\ pkt.version = 0
       /\ new.closure = None /\ new.status = NotStarted /\ new.takenBy = None
       /\ new.evidence = "absent" /\ new.supersededBy = None
    \/ /\ Open(pkt) /\ pkt.status = NotStarted /\ pkt.takenBy = None /\ SameOrigin(pkt, new)
       /\ new.closure = pkt.closure /\ new.status = InProgress
       /\ new.evidence = pkt.evidence /\ new.supersededBy = pkt.supersededBy
    \/ /\ Open(pkt) /\ new.takenBy = pkt.takenBy /\ SameOrigin(pkt, new)
       /\ new.closure = pkt.closure /\ new.status \in Statuses \ {Done, NotStarted}
       /\ new.evidence = pkt.evidence /\ new.supersededBy = pkt.supersededBy
    \/ /\ Open(pkt) /\ pkt.status = InProgress /\ SameOrigin(pkt, new)
       /\ new.closure = ReasonDone /\ new.status = Done /\ new.takenBy = pkt.takenBy
       /\ new.evidence = "given" /\ new.supersededBy = pkt.supersededBy
    \/ /\ Open(pkt) /\ SameOrigin(pkt, new)
       /\ new.closure = ReasonSuperseded /\ new.status = pkt.status
       /\ new.takenBy = pkt.takenBy /\ new.evidence = pkt.evidence
       /\ new.supersededBy \in PacketIDs

LEMMA EveryPacketSteps ==
  ASSUME TypeOK, [Next]_packets, NEW x \in PacketIDs
  PROVE  Lifecycle(packets[x], packets'[x])
<1>1. ASSUME NEW p \in PacketIDs, NEW tenant \in TenantIDs, Issue(p, tenant)
      PROVE  Lifecycle(packets[x], packets'[x])
  <2> DEFINE new == [NoPacket EXCEPT !.id = p, !.version = 1, !.tenant = tenant,
                                     !.status = NotStarted]
  <2>1. packets' = [q \in PacketIDs |-> IF q = p THEN new ELSE packets[q]]
    BY <1>1 DEF TypeOK, Issue
  <2>2. /\ new.closure = None /\ new.status = NotStarted /\ new.takenBy = None
        /\ new.evidence = "absent" /\ new.supersededBy = None
    BY DEF NoPacket
  <2> HIDE DEF new
  <2> QED BY <1>1, <2>1, <2>2 DEF Lifecycle, Issue, Issued
<1>2. ASSUME NEW p \in PacketIDs, NEW a \in Actors, Take(p, a)
      PROVE  Lifecycle(packets[x], packets'[x])
  <2> DEFINE new == [packets[p] EXCEPT !.takenBy = a, !.status = InProgress,
                                       !.version = @ + 2]
  <2>1. packets' = [q \in PacketIDs |-> IF q = p THEN new ELSE packets[q]]
    BY <1>2 DEF TypeOK, Take
  <2>2. /\ SameOrigin(packets[p], new)
        /\ new.closure = packets[p].closure /\ new.status = InProgress
        /\ new.evidence = packets[p].evidence /\ new.supersededBy = packets[p].supersededBy
    BY DEF TypeOK, PacketState, SameOrigin
  <2> HIDE DEF new
  <2> QED BY <1>2, <2>1, <2>2 DEF Lifecycle, Take
<1>3. ASSUME NEW p \in PacketIDs, Comment(p)
      PROVE  Lifecycle(packets[x], packets'[x])
  <2> DEFINE new == [packets[p] EXCEPT !.comments = @ \cup {packets[p].version + 1},
                                       !.version = @ + 1]
  <2>1. packets' = [q \in PacketIDs |-> IF q = p THEN new ELSE packets[q]]
    BY <1>3 DEF TypeOK, Comment
  <2>2. new = AsCommented(packets[p])
    BY DEF AsCommented
  <2> HIDE DEF new
  <2>3. packets'[x] = packets[x] \/ (x = p /\ packets'[x] = new)
    BY <2>1
  <2>4. Lifecycle(packets[x], packets[x])
    BY DEF Lifecycle
  <2>5. Lifecycle(packets[p], new)
    BY <2>2 DEF Lifecycle
  <2> QED BY <2>3, <2>4, <2>5
<1>4. ASSUME NEW p \in PacketIDs, NEW to \in Statuses, Move(p, to)
      PROVE  Lifecycle(packets[x], packets'[x])
  <2> DEFINE new == [packets[p] EXCEPT !.status = to, !.version = @ + 1]
  <2>1. packets' = [q \in PacketIDs |-> IF q = p THEN new ELSE packets[q]]
    BY <1>4 DEF TypeOK, Move
  <2>2. /\ SameOrigin(packets[p], new) /\ new.takenBy = packets[p].takenBy
        /\ new.closure = packets[p].closure /\ new.status = to
        /\ new.evidence = packets[p].evidence /\ new.supersededBy = packets[p].supersededBy
    BY DEF TypeOK, PacketState, SameOrigin
  <2>3. to \in Statuses \ {Done, NotStarted}
    BY <1>4, StatusFacts DEF Move, LegalTransition, InProgress, Blocked, Done, NotStarted
  <2> HIDE DEF new
  <2> QED BY <1>4, <2>1, <2>2, <2>3 DEF Lifecycle, Move
<1>5. ASSUME NEW p \in PacketIDs, Finish(p)
      PROVE  Lifecycle(packets[x], packets'[x])
  <2> DEFINE new == [packets[p] EXCEPT !.status = Done, !.evidence = "given",
                                       !.closure = ReasonDone, !.version = @ + 2]
  <2>1. packets' = [q \in PacketIDs |-> IF q = p THEN new ELSE packets[q]]
    BY <1>5 DEF TypeOK, Finish
  <2>2. /\ SameOrigin(packets[p], new)
        /\ new.closure = ReasonDone /\ new.status = Done /\ new.evidence = "given"
        /\ new.takenBy = packets[p].takenBy /\ new.supersededBy = packets[p].supersededBy
    BY DEF TypeOK, PacketState, SameOrigin
  <2> HIDE DEF new
  <2> QED BY <1>5, <2>1, <2>2 DEF Lifecycle, Finish
<1>6. ASSUME NEW p \in PacketIDs, NEW r \in PacketIDs, NEW tenant \in TenantIDs,
             Supersede(p, r, tenant)
      PROVE  Lifecycle(packets[x], packets'[x])
  <2> DEFINE own == [packets[p] EXCEPT !.supersededBy = r, !.closure = ReasonSuperseded,
                                       !.version = @ + 2]
             new == [NoPacket EXCEPT !.id = r, !.version = 1, !.tenant = tenant,
                                     !.status = NotStarted, !.parent = p]
  <2>1. p # r /\ Open(packets[p]) /\ packets[r].version = 0
    BY <1>6 DEF Supersede, Issued
  <2>2. packets' = [q \in PacketIDs |-> IF q = r THEN new ELSE IF q = p THEN own
                                        ELSE packets[q]]
    BY <1>6, <2>1 DEF TypeOK, Supersede
  <2>3. /\ SameOrigin(packets[p], own)
        /\ own.closure = ReasonSuperseded /\ own.status = packets[p].status
        /\ own.takenBy = packets[p].takenBy /\ own.evidence = packets[p].evidence
        /\ own.supersededBy = r
    BY DEF TypeOK, PacketState, SameOrigin
  <2>4. /\ new.closure = None /\ new.status = NotStarted /\ new.takenBy = None
        /\ new.evidence = "absent" /\ new.supersededBy = None
    BY DEF NoPacket
  <2> HIDE DEF own, new
  <2> QED BY <2>1, <2>2, <2>3, <2>4 DEF Lifecycle
<1>7. CASE UNCHANGED packets
  BY <1>7 DEF Lifecycle
<1> QED BY <1>1, <1>2, <1>3, <1>4, <1>5, <1>6, <1>7 DEF Next

(* Every mutation of several events shows in a packet as a whole. *)
Whole(pkt) ==
    /\ pkt.closure = ReasonDone <=> pkt.status = Done
    /\ pkt.status = Done <=> pkt.evidence = "given"
    /\ pkt.closure = ReasonSuperseded <=> pkt.supersededBy # None
    /\ pkt.takenBy # None => pkt.status \notin {None, NotStarted}

LEMMA NoPacketIsWhole == Whole(NoPacket)
<1>1. None \notin Statuses /\ None \notin CloseReasons
  BY NoneAssumption
<1> QED BY <1>1, StatusFacts DEF Whole, NoPacket

LEMMA LifecycleKeepsWhole ==
  ASSUME NEW pkt \in PacketState, NEW new, Lifecycle(pkt, new), Whole(pkt)
  PROVE  Whole(new)
<1>1. /\ None \notin Statuses /\ None \notin CloseReasons
      /\ None \notin PacketIDs
  BY NoneAssumption
<1>2. CASE new = pkt \/ new = AsCommented(pkt)
  <2>1. /\ new.closure = pkt.closure /\ new.status = pkt.status
        /\ new.takenBy = pkt.takenBy /\ new.evidence = pkt.evidence
        /\ new.supersededBy = pkt.supersededBy
    BY <1>2 DEF PacketState, AsCommented
  <2> QED BY <2>1 DEF Whole
<1>3. CASE /\ new.closure = None /\ new.status = NotStarted /\ new.takenBy = None
           /\ new.evidence = "absent" /\ new.supersededBy = None
  BY <1>1, <1>3, StatusFacts DEF Whole
<1>4. CASE /\ Open(pkt)
           /\ new.closure = pkt.closure /\ new.status \in Statuses \ {Done, NotStarted}
           /\ new.evidence = pkt.evidence /\ new.supersededBy = pkt.supersededBy
  BY <1>1, <1>4, StatusFacts DEF Whole, Open
<1>5. CASE /\ Open(pkt) /\ pkt.status = InProgress
           /\ new.closure = ReasonDone /\ new.status = Done /\ new.takenBy = pkt.takenBy
           /\ new.evidence = "given" /\ new.supersededBy = pkt.supersededBy
  BY <1>1, <1>5, StatusFacts DEF Whole, Open
<1>6. CASE /\ Open(pkt)
           /\ new.closure = ReasonSuperseded /\ new.status = pkt.status
           /\ new.takenBy = pkt.takenBy /\ new.evidence = pkt.evidence
           /\ new.supersededBy \in PacketIDs
  BY <1>1, <1>6, StatusFacts DEF Whole, Open
<1> QED BY <1>2, <1>3, <1>4, <1>5, <1>6, StatusFacts DEF Lifecycle

(* A closed packet that changes has gained a comment. *)
LEMMA ClosedGainsComments ==
  ASSUME NEW pkt \in PacketState, NEW new \in PacketState, Lifecycle(pkt, new),
         pkt.closure # None, pkt.version = 0 => pkt = NoPacket
  PROVE  /\ pkt.comments \subseteq new.comments
         /\ new = [pkt EXCEPT !.version = new.version, !.comments = new.comments]
<1> DEFINE same == [pkt EXCEPT !.version = new.version, !.comments = new.comments]
<1>1. new = pkt \/ new = AsCommented(pkt)
  BY DEF Lifecycle, Open, NoPacket
<1>2. /\ new.id = pkt.id /\ new.tenant = pkt.tenant /\ new.status = pkt.status
      /\ new.takenBy = pkt.takenBy /\ new.evidence = pkt.evidence
      /\ new.parent = pkt.parent /\ new.supersededBy = pkt.supersededBy
      /\ new.closure = pkt.closure
      /\ pkt.comments \subseteq new.comments
  BY <1>1 DEF PacketState, AsCommented
<1>3. new.version \in Nat /\ new.comments \in SUBSET Nat
  BY DEF PacketState
<1>4. same \in PacketState
  BY <1>3 DEF PacketState
<1>5. /\ same.id = pkt.id /\ same.version = new.version
      /\ same.tenant = pkt.tenant /\ same.status = pkt.status
      /\ same.takenBy = pkt.takenBy /\ same.comments = new.comments
      /\ same.evidence = pkt.evidence /\ same.parent = pkt.parent
      /\ same.supersededBy = pkt.supersededBy /\ same.closure = pkt.closure
  BY DEF PacketState
<1> HIDE DEF same
<1>6. new = same
  BY <1>2, <1>4, <1>5, SamePacket
<1> QED BY <1>2, <1>6 DEF same

(* What is known of a packet stays as it is: its origin, its taker, its replacement and *)
(* its closure.                                                                         *)
LEMMA LifecycleWritesOnce ==
  ASSUME NEW pkt \in PacketState, NEW new, Lifecycle(pkt, new), Whole(pkt),
         pkt.version = 0 => pkt = NoPacket
  PROVE  /\ pkt.version # 0 => pkt.tenant = new.tenant /\ pkt.parent = new.parent
         /\ pkt.takenBy \in {None, new.takenBy}
         /\ pkt.supersededBy \in {None, new.supersededBy}
         /\ pkt.closure \in {None, new.closure}
<1>1. CASE new = pkt \/ new = AsCommented(pkt)
  BY <1>1 DEF PacketState, AsCommented
<1>2. CASE pkt.version = 0
  BY <1>2 DEF NoPacket
<1>3. CASE /\ Open(pkt) /\ SameOrigin(pkt, new)
           /\ pkt.takenBy \in {None, new.takenBy}
  <2>1. pkt.closure = None /\ pkt.supersededBy = None
    BY <1>3, NoneAssumption DEF Open, Whole, ReasonSuperseded, CloseReasons
  <2> QED BY <1>3, <2>1 DEF SameOrigin
<1> QED BY <1>1, <1>2, <1>3 DEF Lifecycle

=============================================================================
