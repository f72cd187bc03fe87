---------------------------- MODULE PacketLedger ----------------------------
(***************************************************************************)
(* What the tracker promises its callers: one current packet per id, and   *)
(* every lifecycle operation one indivisible step on it, whatever number   *)
(* of trackers share the event store and however their calls to it fail.   *)
(* There is no event, no stream, no cache and no process here.             *)
(***************************************************************************)
EXTENDS Packet

VARIABLE packets        \* the current packet of every id

Init == packets = [p \in PacketIDs |-> NoPacket]

Issued(p) == packets[p].version # 0

Issue(p, tenant) ==
    /\ ~Issued(p)
    /\ packets' = [packets EXCEPT ![p] =
         [NoPacket EXCEPT !.id = p, !.version = 1, !.tenant = tenant, !.status = NotStarted]]

\* Taking attributes the work and starts it, and only a packet nobody started can be taken.
Take(p, a) ==
    /\ Issued(p) /\ Open(packets[p])
    /\ packets[p].takenBy = None
    /\ packets[p].status = NotStarted
    /\ packets' = [packets EXCEPT ![p].takenBy = a, ![p].status = InProgress,
                                  ![p].version = @ + 2]

\* A comment is accepted for ever, after the packet is closed too.
Comment(p) ==
    /\ Issued(p)
    /\ packets' = [packets EXCEPT ![p].comments = @ \cup {packets[p].version + 1},
                                  ![p].version = @ + 1]

Move(p, to) ==
    /\ Issued(p) /\ Open(packets[p])
    /\ to # Done
    /\ LegalTransition(packets[p].status, to)
    /\ packets' = [packets EXCEPT ![p].status = to, ![p].version = @ + 1]

\* Finishing needs evidence and closes the packet in the same step.
Finish(p) ==
    /\ Issued(p) /\ Open(packets[p])
    /\ packets[p].status = InProgress
    /\ packets' = [packets EXCEPT ![p].status = Done, ![p].evidence = "given",
                                  ![p].closure = ReasonDone, ![p].version = @ + 2]

\* Fault: a packet that exists already is issued again as the replacement.
SupersedeAny(p, r, tenant) ==
    /\ Issued(p) /\ Open(packets[p])
    /\ p # r
    /\ packets' = [packets EXCEPT
         ![p].supersededBy = r, ![p].closure = ReasonSuperseded, ![p].version = @ + 2,
         ![r] = [NoPacket EXCEPT !.id = r, !.version = 1, !.tenant = tenant,
                                 !.status = NotStarted, !.parent = p]]

\* Fault: the superseded packet is not closed.
SupersedeWithoutClosing(p, r, tenant) ==
    /\ Issued(p) /\ Open(packets[p])
    /\ packets[p].supersededBy = None
    /\ ~Issued(r)
    /\ packets' = [packets EXCEPT
         ![p].supersededBy = r, ![p].version = @ + 1,
         ![r] = [NoPacket EXCEPT !.id = r, !.version = 1, !.tenant = tenant,
                                 !.status = NotStarted, !.parent = p]]

\* Superseding closes the parent and issues its replacement in the same step; the two
\* name each other.
Supersede(p, r, tenant) ==
    /\ Issued(p) /\ Open(packets[p])
    /\ ~Issued(r)
    /\ packets' = [packets EXCEPT
         ![p].supersededBy = r, ![p].closure = ReasonSuperseded, ![p].version = @ + 2,
         ![r] = [NoPacket EXCEPT !.id = r, !.version = 1, !.tenant = tenant,
                                 !.status = NotStarted, !.parent = p]]

Next ==
    \E p \in PacketIDs :
      \/ \E tenant \in TenantIDs : Issue(p, tenant)
      \/ \E a \in Actors : Take(p, a)
      \/ Comment(p)
      \/ \E to \in Statuses : Move(p, to)
      \/ Finish(p)
      \/ \E r \in PacketIDs, tenant \in TenantIDs : Supersede(p, r, tenant)

Spec == Init /\ [][Next]_packets

-----------------------------------------------------------------------------
(* Properties. *)

TypeOK == packets \in [PacketIDs -> PacketState]

\* A packet names its replacement exactly when the replacement names it as its parent: no
\* packet has two replacements and none is issued for a parent that went another way.
LinksAgree ==
    \A p, q \in PacketIDs : packets[p].supersededBy = q <=> packets[q].parent = p

\* Following parents leads to an original packet: no set of packets holds the parents of
\* all its members, so no chain of supersessions closes into a cycle.
LineageIsFounded ==
    \A S \in SUBSET PacketIDs : S # {} => \E p \in S : packets[p].parent \notin S

\* A set that holds the parent and the replacement of each of its packets.
ClosedUnderLinks(S) ==
    \A p \in S : {packets[p].parent, packets[p].supersededBy} \cap PacketIDs \subseteq S

\* p and q belong to one chain of supersessions.
SameLineage(p, q) ==
    \A S \in SUBSET PacketIDs : p \in S /\ ClosedUnderLinks(S) => q \in S

\* However often a piece of work is superseded, one packet at most of its lineage can
\* still be worked on.
OneOpenPerLineage ==
    \A p, q \in PacketIDs :
      /\ Issued(p) /\ Open(packets[p])
      /\ Issued(q) /\ Open(packets[q])
      /\ SameLineage(p, q)
      => p = q

=============================================================================
