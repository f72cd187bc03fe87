----------------------- MODULE LedgerClients_proofs ------------------------
(***************************************************************************)
(* What the two clients of the ledger keep, whatever else changes it.      *)
(*                                                                         *)
(* Export: an export that verifies shows one moment of the ledger, for any *)
(* packets and however often the ledger changes between the reads of a     *)
(* build.  An operation that changes a packet raises its version.  What    *)
(* was listed was the ledger of one moment; a history read later has a     *)
(* higher version, or is the packet that was listed.  Comparing versions   *)
(* is therefore enough.                                                    *)
(*                                                                         *)
(* Authoring: what drafts, issues and packets say of each other, for any   *)
(* number of instances, drafts, packets and tenants.  The properties speak *)
(* of drafts and packets only; what carries them from one to the other is  *)
(* an issue on its way, so the invariant says that every issue on its way  *)
(* still names a version its draft has, and that the draft of an issue its *)
(* instance still waits for has not changed.                               *)
(***************************************************************************)
EXTENDS Export, Authoring, PacketLedger_proofs

-----------------------------------------------------------------------------
(* Exports. *)

\* now is before, or something has happened to the packet in between.
Follows(now, before) ==
    /\ before.version <= now.version
    /\ before.version = now.version => now = before

\* What a ledger of one moment looks like.
Moment(ledger) ==
    /\ ledger \in [PacketIDs -> PacketState]
    /\ \A p, q \in PacketIDs : ledger[p].supersededBy = q <=> ledger[q].parent = p
    /\ \A p \in PacketIDs : ledger[p].version = 0 =>
         ledger[p].parent = None /\ ledger[p].supersededBy = None

\* What a status and a closure say of each other.
ClosedForAReason ==
    \A p \in PacketIDs :
      /\ packets[p].version = 0 => packets[p] = NoPacket
      /\ ~Open(packets[p]) => packets[p].status = Done \/ packets[p].supersededBy # None

\* Records of the live export that were the ledger's are still the ledger's.
LiveIsOld ==
    \A p \in DOMAIN live :
      /\ p \in PacketIDs /\ live[p] \in Origins
      /\ live[p] = "app" => packets[p].version # 0

BuildFollows ==
    build # NoBuild =>
      /\ build \in Build
      /\ Moment(build.listed)
      /\ \A p \in PacketIDs : Follows(packets[p], build.listed[p])
      /\ \A p \in Listed(build) :
           build.history[p] # NoPacket => Follows(build.history[p], build.listed[p])
      /\ \A p \in DOMAIN live : live[p] = "app" => p \in Listed(build)

ExportInv == Inv /\ ClosedForAReason /\ LiveIsOld /\ BuildFollows

-----------------------------------------------------------------------------
(* The ledger. *)

LEMMA FollowsItself ==
  ASSUME NEW pkt \in PacketState
  PROVE  Follows(pkt, pkt)
BY DEF Follows, PacketState

LEMMA FollowsTransitive ==
  ASSUME NEW a \in PacketState, NEW b \in PacketState, NEW c \in PacketState,
         Follows(b, a), Follows(c, b)
  PROVE  Follows(c, a)
<1>1. a.version \in Nat /\ b.version \in Nat /\ c.version \in Nat
  BY DEF PacketState
<1> QED BY <1>1 DEF Follows

\* A step of the ledger that gives p the packet new, with a higher version.
LEMMA OnePacketChanges ==
  ASSUME Inv, ClosedForAReason, NEW p \in PacketIDs, NEW new,
         packets' = [q \in PacketIDs |-> IF q = p THEN new ELSE packets[q]],
         packets[p].version < new.version, new.version \in Nat \ {0},
         new.closure # None => new.status = Done \/ new.supersededBy # None
  PROVE  /\ \A q \in PacketIDs : Follows(packets'[q], packets[q])
         /\ ClosedForAReason'
<1>1. \A q \in PacketIDs : packets[q] \in PacketState /\ packets[q].version \in Nat
  BY CurrentPacket
<1>2. ASSUME NEW q \in PacketIDs PROVE Follows(packets'[q], packets[q])
  <2>1. CASE q = p BY <1>1, <2>1 DEF Follows
  <2>2. CASE q # p BY <1>1, <2>2, FollowsItself
  <2> QED BY <2>1, <2>2
<1>3. ClosedForAReason' BY DEF ClosedForAReason, Open
<1> QED BY <1>2, <1>3

LEMMA LedgerStep ==
  ASSUME Inv, ClosedForAReason, Next
  PROVE  /\ \A q \in PacketIDs : Follows(packets'[q], packets[q])
         /\ ClosedForAReason'
<1>1. ASSUME NEW p \in PacketIDs, NEW tenant \in TenantIDs, Issue(p, tenant)
      PROVE  /\ \A q \in PacketIDs : Follows(packets'[q], packets[q])
             /\ ClosedForAReason'
  <2> DEFINE new == [NoPacket EXCEPT !.id = p, !.version = 1, !.tenant = tenant,
                                     !.status = NotStarted]
  <2>1. packets' = [q \in PacketIDs |-> IF q = p THEN new ELSE packets[q]]
    BY <1>1 DEF Inv, TypeOK, Issue
  <2>2. new.version = 1 /\ new.closure = None BY DEF NoPacket
  <2>3. packets[p].version = 0 BY <1>1 DEF Issue, Issued
  <2> HIDE DEF new
  <2> QED BY <2>1, <2>2, <2>3, OnePacketChanges
<1>2. ASSUME NEW p \in PacketIDs, NEW a \in Actors, Take(p, a)
      PROVE  /\ \A q \in PacketIDs : Follows(packets'[q], packets[q])
             /\ ClosedForAReason'
  <2> DEFINE new == [packets[p] EXCEPT !.takenBy = a, !.status = InProgress,
                                       !.version = packets[p].version + 2]
  <2>1. packets' = [q \in PacketIDs |-> IF q = p THEN new ELSE packets[q]]
    BY <1>2 DEF Inv, TypeOK, Take
  <2>2. new.version = packets[p].version + 2 /\ new.closure = None
    BY <1>2, CurrentPacket DEF Take, Open, PacketState
  <2>3. packets[p].version < new.version /\ new.version \in Nat \ {0} BY <2>2, CurrentPacket
  <2> HIDE DEF new
  <2> QED BY <2>1, <2>2, <2>3, OnePacketChanges
<1>3. ASSUME NEW p \in PacketIDs, Comment(p)
      PROVE  /\ \A q \in PacketIDs : Follows(packets'[q], packets[q])
             /\ ClosedForAReason'
  <2> DEFINE new == [packets[p] EXCEPT
                       !.comments = packets[p].comments \cup {packets[p].version + 1},
                       !.version = packets[p].version + 1]
  <2>1. packets' = [q \in PacketIDs |-> IF q = p THEN new ELSE packets[q]]
    BY <1>3 DEF Inv, TypeOK, Comment
  <2>2. /\ new.version = packets[p].version + 1 /\ new.closure = packets[p].closure
        /\ new.status = packets[p].status /\ new.supersededBy = packets[p].supersededBy
    BY CurrentPacket DEF PacketState
  <2>3. packets[p].version < new.version /\ new.version \in Nat \ {0} BY <2>2, CurrentPacket
  <2>4. new.closure # None => new.status = Done \/ new.supersededBy # None
    BY <2>2 DEF ClosedForAReason, Open
  <2> HIDE DEF new
  <2> QED BY <2>1, <2>3, <2>4, OnePacketChanges
<1>4. ASSUME NEW p \in PacketIDs, NEW to \in Statuses, Move(p, to)
      PROVE  /\ \A q \in PacketIDs : Follows(packets'[q], packets[q])
             /\ ClosedForAReason'
  <2> DEFINE new == [packets[p] EXCEPT !.status = to, !.version = packets[p].version + 1]
  <2>1. packets' = [q \in PacketIDs |-> IF q = p THEN new ELSE packets[q]]
    BY <1>4 DEF Inv, TypeOK, Move
  <2>2. new.version = packets[p].version + 1 /\ new.closure = None
    BY <1>4, CurrentPacket DEF Move, Open, PacketState
  <2>3. packets[p].version < new.version /\ new.version \in Nat \ {0} BY <2>2, CurrentPacket
  <2> HIDE DEF new
  <2> QED BY <2>1, <2>2, <2>3, OnePacketChanges
<1>5. ASSUME NEW p \in PacketIDs, Finish(p)
      PROVE  /\ \A q \in PacketIDs : Follows(packets'[q], packets[q])
             /\ ClosedForAReason'
  <2> DEFINE new == [packets[p] EXCEPT !.status = Done, !.evidence = "given",
                       !.closure = ReasonDone, !.version = packets[p].version + 2]
  <2>1. packets' = [q \in PacketIDs |-> IF q = p THEN new ELSE packets[q]]
    BY <1>5 DEF Inv, TypeOK, Finish
  <2>2. new.version = packets[p].version + 2 /\ new.status = Done
    BY CurrentPacket DEF PacketState
  <2>3. packets[p].version < new.version /\ new.version \in Nat \ {0} BY <2>2, CurrentPacket
  <2> HIDE DEF new
  <2> QED BY <2>1, <2>2, <2>3, OnePacketChanges
<1>6. ASSUME NEW p \in PacketIDs, NEW r \in PacketIDs, NEW tenant \in TenantIDs,
             Supersede(p, r, tenant)
      PROVE  /\ \A q \in PacketIDs : Follows(packets'[q], packets[q])
             /\ ClosedForAReason'
  <2> DEFINE old == [packets[p] EXCEPT !.supersededBy = r, !.closure = ReasonSuperseded,
                                       !.version = packets[p].version + 2]
             new == [NoPacket EXCEPT !.id = r, !.version = 1, !.tenant = tenant,
                                     !.status = NotStarted, !.parent = p]
  <2>1. p # r BY <1>6 DEF Supersede, Issued
  <2>2. packets' = [q \in PacketIDs |-> IF q = r THEN new ELSE IF q = p THEN old
                                        ELSE packets[q]]
    BY <1>6, <2>1 DEF Inv, TypeOK, Supersede
  <2>3. old.version = packets[p].version + 2 /\ old.supersededBy = r
    BY CurrentPacket DEF PacketState
  <2>4. new.version = 1 /\ new.closure = None BY DEF NoPacket
  <2> HIDE DEF old, new
  <2>5. packets[r].version = 0 BY <1>6 DEF Supersede, Issued
  <2>6. packets[p].version < old.version /\ old.version # 0 BY <2>3, CurrentPacket
  <2>7. ASSUME NEW q \in PacketIDs PROVE Follows(packets'[q], packets[q])
    <3>1. CASE q = r BY <2>2, <2>4, <2>5, <3>1 DEF Follows
    <3>2. CASE q = p /\ q # r
      <4>1. packets'[q] = old BY <2>2, <3>2
      <4>2. packets[p].version \in Nat /\ old.version \in Nat BY <2>3, CurrentPacket
      <4> QED BY <2>6, <3>2, <4>1, <4>2 DEF Follows
    <3>3. CASE q # p /\ q # r BY <2>2, <3>3, CurrentPacket, FollowsItself
    <3> QED BY <3>1, <3>2, <3>3
  <2>8. ClosedForAReason'
    BY <2>2, <2>3, <2>4, <2>6, NoneIsNoPacket DEF ClosedForAReason, Open
  <2> QED BY <2>7, <2>8
<1> QED BY <1>1, <1>2, <1>3, <1>4, <1>5, <1>6 DEF Next

LEMMA LedgerIsAMoment == Inv => Moment(packets)
BY DEF Inv, TypeOK, LinksAgree, UnissuedUnlinked, Issued, Moment

-----------------------------------------------------------------------------
(* The build. *)

\* Where the records of an export are from: the ledger before the repository, and both
\* before the live export.
LEMMA ExportedIs ==
  ASSUME NEW b, NEW repository \in SUBSET PacketIDs
  PROVE  /\ DOMAIN Exported(b, repository) = DOMAIN live \cup repository \cup Listed(b)
         /\ \A q \in DOMAIN Exported(b, repository) :
              Exported(b, repository)[q] = IF q \in Listed(b) THEN "listed"
                                           ELSE IF q \in repository THEN "repository"
                                           ELSE live[q]
BY DEF Exported, Reconcile

LEMMA LedgerChangesKeep == ASSUME ExportInv, LedgerChanges PROVE ExportInv'
<1>1. Next /\ live' = live /\ build' = build
  BY DEF LedgerChanges
<1>2. Inv' BY <1>1, InvNext DEF ExportInv
<1>3. /\ \A q \in PacketIDs : Follows(packets'[q], packets[q])
      /\ ClosedForAReason'
  BY <1>1, LedgerStep DEF ExportInv
<1>4. \A q \in PacketIDs : packets[q] \in PacketState /\ packets'[q] \in PacketState
  BY <1>2 DEF ExportInv, Inv, TypeOK
<1>5. LiveIsOld'
  <2>1. \A q \in PacketIDs : packets[q].version # 0 => packets'[q].version # 0
    BY <1>3, <1>4 DEF Follows, PacketState
  <2> QED BY <1>1, <2>1 DEF ExportInv, LiveIsOld
<1>6. BuildFollows'
  <2> SUFFICES ASSUME build # NoBuild
               PROVE  \A p \in PacketIDs : Follows(packets'[p], build.listed[p])
    BY <1>1 DEF ExportInv, BuildFollows, Listed
  <2>1. \A p \in PacketIDs : Follows(packets[p], build.listed[p])
                             /\ build.listed[p] \in PacketState
    BY DEF ExportInv, BuildFollows, Build
  <2> QED BY <1>3, <1>4, <2>1, FollowsTransitive
<1> QED BY <1>2, <1>3, <1>5, <1>6 DEF ExportInv

LEMMA ListKeeps == ASSUME ExportInv, List PROVE ExportInv'
<1> DEFINE new == [listed |-> packets, history |-> [p \in PacketIDs |-> NoPacket]]
<1>1. build' = new /\ packets' = packets /\ live' = live
  BY DEF List
<1>2. new.listed = packets /\ \A p \in PacketIDs : new.history[p] = NoPacket
  OBVIOUS
<1>3. packets \in [PacketIDs -> PacketState] BY DEF ExportInv, Inv, TypeOK
<1>4. NoPacket \in PacketState
  BY DEF NoPacket, PacketState, Attachments
<1>5. new \in Build BY <1>3, <1>4 DEF Build
<1> HIDE DEF new
<1>6. Listed(new) = {p \in PacketIDs : packets[p].version # 0} BY <1>2 DEF Listed
<1>7. \A p \in PacketIDs : Follows(packets[p], new.listed[p])
  BY <1>2, <1>3, FollowsItself
<1>8. Moment(new.listed) BY <1>2, LedgerIsAMoment DEF ExportInv
<1>9. BuildFollows'
  BY <1>1, <1>2, <1>5, <1>6, <1>7, <1>8 DEF ExportInv, BuildFollows, LiveIsOld
<1>10. Inv' /\ ClosedForAReason' /\ LiveIsOld'
  BY <1>1 DEF ExportInv, Inv, TypeOK, UnissuedUnlinked, LinksAgree, SupersededIsClosed,
              LineageIsFounded, Issued, ClosedForAReason, LiveIsOld
<1> QED BY <1>9, <1>10 DEF ExportInv

LEMMA ReadHistoryKeeps ==
  ASSUME ExportInv, NEW p \in PacketIDs, ReadHistory(p)
  PROVE  ExportInv'
<1>1. /\ build # NoBuild /\ packets' = packets /\ live' = live
      /\ build' = [build EXCEPT !.history[p] = packets[p]]
  BY DEF ReadHistory
<1>2. build \in Build BY <1>1 DEF ExportInv, BuildFollows
<1>3. /\ build'.listed = build.listed
      /\ build'.history = [build.history EXCEPT ![p] = packets[p]]
      /\ build' \in Build
  <2>1. packets[p] \in PacketState BY DEF ExportInv, Inv, TypeOK
  <2> QED BY <1>1, <1>2, <2>1 DEF Build
<1>4. Listed(build') = Listed(build) BY <1>3 DEF Listed
<1>5. \A q \in PacketIDs :
        build'.history[q] = IF q = p THEN packets[p] ELSE build.history[q]
  BY <1>2, <1>3 DEF Build
<1>6. \A q \in Listed(build) :
        build'.history[q] # NoPacket => Follows(build'.history[q], build.listed[q])
  BY <1>1, <1>5 DEF ExportInv, BuildFollows, Listed
<1>7. BuildFollows'
  BY <1>1, <1>3, <1>4, <1>6 DEF ExportInv, BuildFollows
<1>8. Inv' /\ ClosedForAReason' /\ LiveIsOld'
  BY <1>1 DEF ExportInv, Inv, TypeOK, UnissuedUnlinked, LinksAgree, SupersededIsClosed,
              LineageIsFounded, Issued, ClosedForAReason, LiveIsOld
<1> QED BY <1>7, <1>8 DEF ExportInv

LEMMA BuildEndsKeeps == ASSUME ExportInv, Release \/ BuildFails PROVE ExportInv'
<1>1. build' = NoBuild /\ packets' = packets
  BY DEF Release, BuildFails
<1>2. BuildFollows' BY <1>1 DEF BuildFollows
<1>3. LiveIsOld'
  <2>1. CASE Release
    <3>1. PICK repository \in SUBSET PacketIDs :
            live' = [p \in DOMAIN Exported(build, repository) |->
                       IF Exported(build, repository)[p] = "listed" THEN "app"
                       ELSE Exported(build, repository)[p]]
      BY <2>1 DEF Release
    <3>2. build # NoBuild BY <2>1 DEF Release, Verified
    <3>3. \A p \in Listed(build) : p \in PacketIDs /\ packets[p].version # 0
      <4>1. \A p \in Listed(build) : /\ p \in PacketIDs /\ build.listed[p].version # 0
                                     /\ Follows(packets[p], build.listed[p])
                                     /\ build.listed[p].version \in Nat
                                     /\ packets[p].version \in Nat
        BY <3>2 DEF ExportInv, BuildFollows, Listed, Build, PacketState, Inv, TypeOK
      <4> QED BY <4>1 DEF Follows
    <3>4. \A p \in DOMAIN live : /\ p \in PacketIDs /\ live[p] \in {"repository", "app"}
                                 /\ live[p] = "app" => packets[p].version # 0
      BY DEF ExportInv, LiveIsOld, Origins
    <3>5. \A p \in DOMAIN live' :
            live'[p] = IF p \in Listed(build) THEN "app"
                       ELSE IF p \in repository THEN "repository" ELSE live[p]
      <4> SUFFICES ASSUME NEW p \in DOMAIN Exported(build, repository)
                   PROVE  live'[p] = IF p \in Listed(build) THEN "app"
                                     ELSE IF p \in repository THEN "repository" ELSE live[p]
        BY <3>1
      <4>1. /\ DOMAIN Exported(build, repository)
                 = DOMAIN live \cup repository \cup Listed(build)
            /\ Exported(build, repository)[p] = IF p \in Listed(build) THEN "listed"
                                                ELSE IF p \in repository THEN "repository"
                                                ELSE live[p]
        <5>1. /\ DOMAIN Exported(build, repository)
                   = DOMAIN live \cup repository \cup Listed(build)
              /\ \A q \in DOMAIN Exported(build, repository) :
                   Exported(build, repository)[q] = IF q \in Listed(build) THEN "listed"
                                                    ELSE IF q \in repository THEN "repository"
                                                    ELSE live[q]
          BY ExportedIs
        <5> QED BY <5>1
      <4>2. p \in DOMAIN live => live[p] # "listed" BY <3>4
      <4> QED BY <3>1, <4>1, <4>2
    <3>6. DOMAIN live' = DOMAIN live \cup repository \cup Listed(build)
      BY <3>1, ExportedIs
    <3> QED BY <1>1, <3>3, <3>4, <3>5, <3>6 DEF LiveIsOld, Origins
  <2>2. CASE BuildFails
    BY <2>2 DEF BuildFails, ExportInv, LiveIsOld
  <2> QED BY <2>1, <2>2
<1>4. Inv' /\ ClosedForAReason'
  BY <1>1 DEF ExportInv, Inv, TypeOK, UnissuedUnlinked, LinksAgree, SupersededIsClosed,
              LineageIsFounded, Issued, ClosedForAReason
<1> QED BY <1>2, <1>3, <1>4 DEF ExportInv

LEMMA ExportInvInit == ExportInit => ExportInv
<1> SUFFICES ASSUME ExportInit PROVE ExportInv
  OBVIOUS
<1>1. Inv BY InvInit DEF ExportInit
<1>2. ClosedForAReason BY DEF ExportInit, Init, ClosedForAReason, NoPacket, Open
<1>3. LiveIsOld /\ BuildFollows BY DEF ExportInit, LiveIsOld, BuildFollows
<1> QED BY <1>1, <1>2, <1>3 DEF ExportInv

LEMMA ExportInvNext == ExportInv /\ [ExportNext]_exportVars => ExportInv'
<1> SUFFICES ASSUME ExportInv, [ExportNext]_exportVars PROVE ExportInv'
  OBVIOUS
<1>1. CASE UNCHANGED exportVars
  BY <1>1 DEF exportVars, ExportInv, Inv, TypeOK, UnissuedUnlinked, LinksAgree,
              SupersededIsClosed, LineageIsFounded, Issued, ClosedForAReason, LiveIsOld,
              BuildFollows, Listed
<1> QED BY <1>1, LedgerChangesKeep, ListKeeps, ReadHistoryKeeps, BuildEndsKeeps
        DEF ExportNext

LEMMA ExportAlwaysInv == ExportSpec => []ExportInv
<1> QED BY ExportInvInit, ExportInvNext, PTL DEF ExportSpec

-----------------------------------------------------------------------------

\* The packets keep their types (packet/types.go), while exports are built.
THEOREM ExportTypeOK == ExportSpec => []TypeOK
<1>1. ExportInv => TypeOK BY DEF ExportInv, Inv
<1> QED BY <1>1, ExportAlwaysInv, PTL

\* An export validateRecord (packetexport/export.go) lets pass shows one moment of the
\* ledger, although a build reads the ledger packet by packet.
THEOREM ExportIsAlwaysAMoment == ExportSpec => []ExportIsAMoment
<1>1. ExportInv => ExportIsAMoment
  <2> SUFFICES ASSUME ExportInv, Verified(build), NEW repository \in SUBSET PacketIDs
               PROVE  LET shown == Shown(build, repository)
                      IN  /\ \A p \in DOMAIN shown : shown[p] = build.history[p]
                          /\ \A p, q \in DOMAIN shown :
                               shown[p].supersededBy = q <=> shown[q].parent = p
                          /\ \A p \in DOMAIN shown :
                               {shown[p].supersededBy, shown[p].parent}
                                 \subseteq DOMAIN shown \cup {None}
                          /\ \A p \in DOMAIN live : live[p] = "app" => p \in DOMAIN shown
    BY DEF ExportIsAMoment
  <2> DEFINE listed == build.listed
  <2>1. /\ build # NoBuild /\ Moment(listed) /\ build \in Build
        /\ \A p \in DOMAIN live : live[p] = "app" => p \in Listed(build)
        /\ \A p \in Listed(build) :
             build.history[p] # NoPacket => Follows(build.history[p], listed[p])
    BY DEF Verified, ExportInv, BuildFollows
  <2>2. \A p \in Listed(build) : build.history[p] = listed[p]
    BY <2>1 DEF Verified, Unread, ValidateRecords, Follows
  <2>3. Shown(build, repository) = [p \in Listed(build) |-> listed[p]]
    <3>1. {q \in DOMAIN Exported(build, repository) :
             Exported(build, repository)[q] = "listed"} = Listed(build)
      <4>1. \A q \in DOMAIN live : live[q] # "listed"
        BY DEF ExportInv, LiveIsOld, Origins
      <4>2. /\ DOMAIN Exported(build, repository)
                 = DOMAIN live \cup repository \cup Listed(build)
            /\ \A q \in DOMAIN Exported(build, repository) :
                 Exported(build, repository)[q] = IF q \in Listed(build) THEN "listed"
                                                  ELSE IF q \in repository THEN "repository"
                                                  ELSE live[q]
        BY ExportedIs
      <4>3. \A q \in DOMAIN Exported(build, repository) :
              Exported(build, repository)[q] = "listed" <=> q \in Listed(build)
        BY <4>1, <4>2
      <4> QED BY <4>2, <4>3
    <3> QED BY <3>1 DEF Shown
  <2>4. /\ Listed(build) \subseteq PacketIDs
        /\ \A p \in PacketIDs : p \in Listed(build) <=> listed[p].version # 0
    BY DEF Listed
  <2>5. \A p \in PacketIDs : /\ listed[p].supersededBy \in PacketIDs \cup {None}
                             /\ listed[p].parent \in PacketIDs \cup {None}
    BY <2>1 DEF Moment, PacketState
  <2>6. /\ \A p, q \in PacketIDs : listed[p].supersededBy = q <=> listed[q].parent = p
        /\ \A p \in PacketIDs : listed[p].version = 0 =>
             listed[p].parent = None /\ listed[p].supersededBy = None
    BY <2>1 DEF Moment
  <2> HIDE DEF listed
  <2>7. \A p \in Listed(build) : /\ listed[p].supersededBy \in Listed(build) \cup {None}
                                 /\ listed[p].parent \in Listed(build) \cup {None}
    <3> SUFFICES ASSUME NEW p \in Listed(build)
                 PROVE  /\ listed[p].supersededBy \in Listed(build) \cup {None}
                        /\ listed[p].parent \in Listed(build) \cup {None}
      OBVIOUS
    <3>1. \A q \in PacketIDs : listed[q].parent = p => q \in Listed(build)
      BY <2>4, <2>6, NoneIsNoPacket
    <3>2. \A q \in PacketIDs : listed[q].supersededBy = p => q \in Listed(build)
      BY <2>4, <2>6, NoneIsNoPacket
    <3> QED BY <2>4, <2>5, <2>6, <3>1, <3>2
  <2> DEFINE shown == Shown(build, repository)
  <2>8. DOMAIN shown = Listed(build) /\ \A p \in Listed(build) : shown[p] = listed[p]
    BY <2>3
  <2> HIDE DEF shown
  <2>9. /\ \A p \in DOMAIN shown : shown[p] = build.history[p]
        /\ \A p, q \in DOMAIN shown : shown[p].supersededBy = q <=> shown[q].parent = p
        /\ \A p \in DOMAIN shown :
             {shown[p].supersededBy, shown[p].parent} \subseteq DOMAIN shown \cup {None}
        /\ \A p \in DOMAIN live : live[p] = "app" => p \in DOMAIN shown
    BY <2>1, <2>2, <2>4, <2>6, <2>7, <2>8
  <2> QED BY <2>9 DEF shown
<1> QED BY <1>1, ExportAlwaysInv, PTL

\* What a summary (surface/view.go, isUnclaimed) calls unclaimed can be taken, and no packet
\* that can be taken is missing.
THEOREM UnclaimedIsAlwaysTakeable == ExportSpec => []UnclaimedIsTakeable
<1>1. ExportInv => UnclaimedIsTakeable
  <2> SUFFICES ASSUME ExportInv, NEW p \in PacketIDs
               PROVE  IsUnclaimed(packets[p]) <=>
                        /\ Issued(p) /\ Open(packets[p])
                        /\ packets[p].takenBy = None /\ packets[p].status = NotStarted
    BY DEF UnclaimedIsTakeable
  <2>1. /\ packets[p].version = 0 => packets[p].status = None
        /\ ~Open(packets[p]) => packets[p].status = Done \/ packets[p].supersededBy # None
        /\ packets[p].supersededBy # None => ~Open(packets[p])
    BY DEF ExportInv, ClosedForAReason, Inv, SupersededIsClosed, NoPacket
  <2>2. NotStarted # None /\ NotStarted # Done
    BY NoneAssumption DEF Statuses, NotStarted, Done
  <2> QED BY <2>1, <2>2 DEF IsUnclaimed, Issued
<1> QED BY <1>1, ExportAlwaysInv, PTL

-----------------------------------------------------------------------------
(* Drafts. *)

Types ==
    /\ drafts \in [DraftIDs -> {NoDraft} \cup Draft]
    /\ calls \in [Instances -> {NoCall} \cup Call]
    /\ late \subseteq Call
    /\ frozen \in [PacketIDs -> {NotFrozen} \cup Freeze]

\* c was sent for a version its draft has.
Sent(c) ==
    /\ c \in Call
    /\ drafts[c.draft] # NoDraft
    /\ c.version \in 1 .. Len(drafts[c.draft].contents)
    /\ drafts[c.draft].contents[c.version] = c.content
    /\ drafts[c.draft].parent = c.parent /\ drafts[c.draft].tenant = c.tenant
    /\ c.content.body \in Bodies

FrozenBy(c) ==
    /\ Issued(c.content.packet)
    /\ frozen[c.content.packet] =
         [draft |-> c.draft, version |-> c.version, body |-> c.content.body]

\* The instance waits for c: nobody has changed the draft.
AwaitedBy(i, c) ==
    /\ Sent(c)
    /\ drafts[c.draft].home = i /\ drafts[c.draft].state = "draft"
    /\ Len(drafts[c.draft].contents) = c.version
    /\ c.state = "committed" => FrozenBy(c)

CallsSound ==
    /\ \A c \in late : Sent(c)
    /\ \A i \in Instances : calls[i] # NoCall => AwaitedBy(i, calls[i])

\* A draft has contents, and its parent is a packet of its tenant.
DraftsSound ==
    \A d \in DraftIDs : drafts[d] # NoDraft =>
      /\ Len(drafts[d].contents) # 0
      /\ drafts[d].parent # None =>
           Issued(drafts[d].parent) /\ packets[drafts[d].parent].tenant = drafts[d].tenant

\* A frozen packet names a version of a draft.
FrozenSound ==
    \A p \in PacketIDs : frozen[p] # NotFrozen =>
      /\ drafts[frozen[p].draft] # NoDraft
      /\ frozen[p].version \in 1 .. Len(drafts[frozen[p].draft].contents)

LineageSound ==
    \A p \in PacketIDs : packets[p].parent # None =>
      Issued(packets[p].parent) /\ packets[packets[p].parent].tenant = packets[p].tenant

AuthoringInv ==
    /\ Inv
    /\ Types
    /\ CallsSound
    /\ DraftsSound
    /\ FrozenSound /\ FrozenAsSeen
    /\ IssuedDraftIsPacket
    /\ LineageSound

-----------------------------------------------------------------------------
(* What no step changes. *)

\* A draft only grows, and not at all once it is issued or lost.
DraftGrows(d) ==
    drafts[d] # NoDraft =>
      /\ drafts'[d] # NoDraft
      /\ drafts'[d].parent = drafts[d].parent /\ drafts'[d].tenant = drafts[d].tenant
      /\ Len(drafts[d].contents) <= Len(drafts'[d].contents)
      /\ \A k \in 1 .. Len(drafts[d].contents) :
           drafts'[d].contents[k] = drafts[d].contents[k]
      /\ drafts[d].state # "draft" =>
           /\ drafts'[d].contents = drafts[d].contents
           /\ drafts'[d].state # "draft"
           /\ drafts'[d].state = "issued" => drafts[d].state = "issued"

\* An issued packet keeps its tenant, its parent and what it froze.
PacketStays(p) ==
    Issued(p) =>
      /\ Issued(p)'
      /\ packets'[p].parent = packets[p].parent /\ packets'[p].tenant = packets[p].tenant

LEMMA NothingIsNothing ==
  NoDraft \notin Draft /\ NoCall \notin Call /\ NotFrozen \notin Freeze
<1>1. NoDraft \notin Draft BY DEF NoDraft, Draft
<1>2. NoCall \notin Call BY DEF NoCall, Call
<1>3. NotFrozen \notin Freeze BY DEF NotFrozen, Freeze
<1> QED BY <1>1, <1>2, <1>3

LEMMA DraftType ==
  ASSUME Types, NEW d \in DraftIDs, drafts[d] # NoDraft
  PROVE  /\ drafts[d] \in Draft
         /\ drafts[d].contents \in Seq(Contents) /\ Len(drafts[d].contents) \in Nat
         /\ drafts[d].parent \in PacketIDs \cup {None} /\ drafts[d].tenant \in TenantIDs
<1>1. drafts[d] \in Draft BY DEF Types
<1> QED BY <1>1 DEF Draft

LEMMA CallType ==
  ASSUME NEW c \in Call
  PROVE  /\ c.draft \in DraftIDs /\ c.version \in Nat /\ c.tenant \in TenantIDs
         /\ c.parent \in PacketIDs \cup {None} /\ c.content.packet \in PacketIDs
         /\ c.content.body \in Bodies \cup {Incomplete} /\ c.state \in {"sent", "committed"}
BY DEF Call, Contents

\* A draft that does not change grows.
LEMMA DraftUnchanged ==
  ASSUME Types, NEW d \in DraftIDs, drafts'[d] = drafts[d]
  PROVE  DraftGrows(d)
<1>1. drafts[d] # NoDraft => Len(drafts[d].contents) \in Nat BY DraftType
<1> QED BY <1>1 DEF DraftGrows

LEMMA SentStays ==
  ASSUME Types, NEW c, Sent(c), DraftGrows(c.draft), Types'
  PROVE  Sent(c)'
<1>1. c.draft \in DraftIDs BY CallType DEF Sent
<1>2. Len(drafts[c.draft].contents) \in Nat /\ Len(drafts'[c.draft].contents) \in Nat
  <2>1. drafts'[c.draft] \in Draft BY <1>1 DEF Sent, DraftGrows, Types
  <2> QED BY <1>1, <2>1, DraftType DEF Sent, Draft
<1>3. c.version \in 1 .. Len(drafts'[c.draft].contents) BY <1>2 DEF Sent, DraftGrows
<1> QED BY <1>3 DEF Sent, DraftGrows

-----------------------------------------------------------------------------
(* Steps of the ledger. *)

LEMMA AgentKeeps ==
  ASSUME Inv, AgentStep
  PROVE  /\ Inv'
         /\ \A p \in PacketIDs : PacketStays(p)
         /\ \A p \in PacketIDs : /\ Issued(p)' <=> Issued(p)
                                 /\ packets'[p].parent = packets[p].parent
                                 /\ packets'[p].tenant = packets[p].tenant
<1> DEFINE Goal == /\ Inv'
                   /\ \A q \in PacketIDs : /\ Issued(q)' <=> Issued(q)
                                           /\ packets'[q].parent = packets[q].parent
                                           /\ packets'[q].tenant = packets[q].tenant
<1>1. ASSUME NEW p \in PacketIDs, NEW a \in Actors, Take(p, a) PROVE Goal
  <2>1. Inv' BY <1>1, TakeKeeps
  <2>2. packets' = [packets EXCEPT ![p] = [packets[p] EXCEPT
                      !.takenBy = a, !.status = InProgress, !.version = @ + 2]]
    BY <1>1 DEF Take
  <2>3. packets[p].version \in Nat /\ packets[p] \in PacketState BY CurrentPacket
  <2> QED BY <1>1, <2>1, <2>2, <2>3 DEF Inv, TypeOK, PacketState, Issued, Take
<1>2. ASSUME NEW p \in PacketIDs, Comment(p) PROVE Goal
  <2>1. Inv' BY <1>2, CommentKeeps
  <2>2. packets' = [packets EXCEPT ![p] = [packets[p] EXCEPT
                      !.comments = @ \cup {packets[p].version + 1}, !.version = @ + 1]]
    BY <1>2 DEF Comment
  <2>3. packets[p].version \in Nat /\ packets[p] \in PacketState BY CurrentPacket
  <2> QED BY <1>2, <2>1, <2>2, <2>3 DEF Inv, TypeOK, PacketState, Issued, Comment
<1>3. ASSUME NEW p \in PacketIDs, NEW to \in Statuses, Move(p, to) PROVE Goal
  <2>1. Inv' BY <1>3, MoveKeeps
  <2>2. packets' = [packets EXCEPT ![p] = [packets[p] EXCEPT
                      !.status = to, !.version = @ + 1]]
    BY <1>3 DEF Move
  <2>3. packets[p].version \in Nat /\ packets[p] \in PacketState BY CurrentPacket
  <2> QED BY <1>3, <2>1, <2>2, <2>3 DEF Inv, TypeOK, PacketState, Issued, Move
<1>4. ASSUME NEW p \in PacketIDs, Finish(p) PROVE Goal
  <2>1. Inv' BY <1>4, FinishKeeps
  <2>2. packets' = [packets EXCEPT ![p] = [packets[p] EXCEPT
                      !.status = Done, !.evidence = "given", !.closure = ReasonDone,
                      !.version = @ + 2]]
    BY <1>4 DEF Finish
  <2>3. packets[p].version \in Nat /\ packets[p] \in PacketState BY CurrentPacket
  <2> QED BY <1>4, <2>1, <2>2, <2>3 DEF Inv, TypeOK, PacketState, Issued, Finish
<1>5. Goal BY <1>1, <1>2, <1>3, <1>4 DEF AgentStep
<1> QED BY <1>5 DEF PacketStays

LEMMA CommitKeeps ==
  ASSUME Inv, Types, NEW c, Sent(c), Commit(c)
  PROVE  /\ Inv' /\ frozen' \in [PacketIDs -> {NotFrozen} \cup Freeze]
         /\ \A p \in PacketIDs : PacketStays(p)
         /\ ~Issued(c.content.packet) /\ FrozenBy(c)'
         /\ packets'[c.content.packet].tenant = c.tenant
         /\ packets'[c.content.packet].parent = c.parent
         /\ \A p \in PacketIDs \ {c.content.packet} :
              /\ frozen'[p] = frozen[p]
              /\ Issued(p)' <=> Issued(p)
              /\ packets'[p].parent = packets[p].parent
              /\ packets'[p].tenant = packets[p].tenant
<1> DEFINE r == c.content.packet
<1>1. /\ c \in Call /\ r \in PacketIDs /\ c.tenant \in TenantIDs
      /\ c.parent \in PacketIDs \cup {None}
  BY CallType DEF Sent
<1>2. frozen' = [frozen EXCEPT ![r] =
        [draft |-> c.draft, version |-> c.version, body |-> c.content.body]]
  BY DEF Commit
<1>3. frozen' \in [PacketIDs -> {NotFrozen} \cup Freeze]
  <2>1. [draft |-> c.draft, version |-> c.version, body |-> c.content.body] \in Freeze
    BY <1>1, CallType DEF Sent, Freeze
  <2> QED BY <1>2, <2>1 DEF Types
<1>4. CASE c.parent = None
  <2>1. Issue(r, c.tenant) BY <1>4 DEF Commit
  <2>2. Inv' BY <1>1, <2>1, IssueKeeps
  <2>3. ~Issued(r) BY <2>1 DEF Issue
  <2> DEFINE new == [NoPacket EXCEPT !.id = r, !.version = 1, !.tenant = c.tenant,
                                     !.status = NotStarted]
  <2>4. packets' = [q \in PacketIDs |-> IF q = r THEN new ELSE packets[q]]
    BY <2>1 DEF Inv, TypeOK, Issue
  <2>5. new.version = 1 /\ new.parent = None /\ new.tenant = c.tenant BY DEF NoPacket
  <2> HIDE DEF new
  <2> QED BY <1>1, <1>2, <1>3, <1>4, <2>2, <2>3, <2>4, <2>5
          DEF Issued, PacketStays, FrozenBy, Types
<1>5. CASE c.parent # None
  <2>1. Supersede(c.parent, r, c.tenant) BY <1>5 DEF Commit
  <2>2. Inv' BY <1>1, <1>5, <2>1, SupersedeKeeps
  <2>3. ~Issued(r) /\ Issued(c.parent) /\ c.parent # r BY <2>1 DEF Supersede
  <2> DEFINE old == [packets[c.parent] EXCEPT !.supersededBy = r,
                       !.closure = ReasonSuperseded,
                       !.version = packets[c.parent].version + 2]
             new == [NoPacket EXCEPT !.id = r, !.version = 1, !.tenant = c.tenant,
                                     !.status = NotStarted, !.parent = c.parent]
  <2>4. packets' = [q \in PacketIDs |-> IF q = r THEN new ELSE IF q = c.parent THEN old
                                        ELSE packets[q]]
    BY <2>1, <2>3 DEF Inv, TypeOK, Supersede
  <2>5. /\ new.version = 1 /\ new.parent = c.parent /\ new.tenant = c.tenant
    BY DEF NoPacket
  <2>6. /\ old.version = packets[c.parent].version + 2
        /\ old.parent = packets[c.parent].parent /\ old.tenant = packets[c.parent].tenant
    BY <1>1, <1>5, CurrentPacket DEF PacketState
  <2>7. old.version # 0 BY <1>1, <1>5, <2>6, CurrentPacket
  <2> HIDE DEF old, new
  <2> QED BY <1>1, <1>2, <1>3, <1>5, <2>2, <2>3, <2>4, <2>5, <2>6, <2>7
          DEF Issued, PacketStays, FrozenBy, Types
<1> QED BY <1>4, <1>5

LEMMA AgentStepKeeps ==
  ASSUME AuthoringInv, AgentStep
  PROVE  AuthoringInv' /\ \A d \in DraftIDs : DraftGrows(d)
<1>1. /\ Inv'
      /\ \A p \in PacketIDs : PacketStays(p)
      /\ \A p \in PacketIDs : /\ Issued(p)' <=> Issued(p)
                              /\ packets'[p].parent = packets[p].parent
                              /\ packets'[p].tenant = packets[p].tenant
  BY AgentKeeps DEF AuthoringInv
<1>2. drafts' = drafts /\ calls' = calls /\ late' = late /\ frozen' = frozen
  BY DEF AgentStep
<1>3. Types' BY <1>2 DEF AuthoringInv, Types
<1>4. \A c : Sent(c) => Sent(c)' BY <1>2 DEF Sent
<1>5. \A c : Sent(c) /\ FrozenBy(c) => FrozenBy(c)'
  BY <1>1, <1>2, CallType DEF Sent, FrozenBy
<1>6. CallsSound'
  BY <1>2, <1>4, <1>5 DEF AuthoringInv, CallsSound, AwaitedBy
<1>7. DraftsSound'
  <2>1. \A d \in DraftIDs : drafts[d] # NoDraft => drafts[d].parent \in PacketIDs \cup {None}
    BY DraftType DEF AuthoringInv
  <2> QED BY <1>1, <1>2, <2>1 DEF AuthoringInv, DraftsSound
<1>8. FrozenSound' /\ FrozenAsSeen'
  BY <1>1, <1>2 DEF AuthoringInv, FrozenSound, FrozenAsSeen
<1>9. IssuedDraftIsPacket'
  <2> SUFFICES ASSUME NEW d \in DraftIDs, drafts[d] # NoDraft, drafts[d].state = "issued"
               PROVE  /\ packets'[Last(drafts[d].contents).packet].version # 0
                      /\ frozen[Last(drafts[d].contents).packet].draft = d
                      /\ frozen[Last(drafts[d].contents).packet].version
                           = Len(drafts[d].contents) - 1
    BY <1>2 DEF IssuedDraftIsPacket, Version, Issued
  <2>1. Last(drafts[d].contents).packet \in PacketIDs
    <3>1. drafts[d].contents \in Seq(Contents) /\ Len(drafts[d].contents) # 0
      BY DraftType DEF AuthoringInv, DraftsSound
    <3>2. Last(drafts[d].contents) \in Contents BY <3>1 DEF Last
    <3> QED BY <3>2 DEF Contents
  <2> QED BY <1>1, <2>1 DEF AuthoringInv, IssuedDraftIsPacket, Version, Issued
<1>10. LineageSound'
  <2>1. \A p \in PacketIDs : packets[p].parent \in PacketIDs \cup {None}
    BY DEF AuthoringInv, Inv, TypeOK, PacketState
  <2> QED BY <1>1, <2>1 DEF AuthoringInv, LineageSound
<1>11. \A d \in DraftIDs : DraftGrows(d)
  BY <1>2, DraftUnchanged DEF AuthoringInv
<1> QED BY <1>1, <1>3, <1>6, <1>7, <1>8, <1>9, <1>10, <1>11 DEF AuthoringInv

\* An issue that reaches the ledger.  What its instance makes of the answer is left open.
LEMMA CommitStepKeeps ==
  ASSUME AuthoringInv, NEW c, Sent(c), Commit(c), drafts' = drafts
  PROVE  /\ Inv' /\ FrozenSound' /\ FrozenAsSeen' /\ IssuedDraftIsPacket'
         /\ DraftsSound' /\ LineageSound'
         /\ \A d \in DraftIDs : DraftGrows(d)
         /\ FrozenBy(c)' /\ frozen' \in [PacketIDs -> {NotFrozen} \cup Freeze]
         /\ \A e : Sent(e) => Sent(e)'
         /\ \A e : Sent(e) /\ FrozenBy(e) => FrozenBy(e)'
<1> DEFINE r == c.content.packet
<1>1. /\ Inv' /\ frozen' \in [PacketIDs -> {NotFrozen} \cup Freeze]
      /\ \A p \in PacketIDs : PacketStays(p)
      /\ ~Issued(r) /\ FrozenBy(c)'
      /\ packets'[r].tenant = c.tenant /\ packets'[r].parent = c.parent
      /\ \A p \in PacketIDs \ {r} : /\ frozen'[p] = frozen[p]
                                    /\ Issued(p)' <=> Issued(p)
                                    /\ packets'[p].parent = packets[p].parent
                                    /\ packets'[p].tenant = packets[p].tenant
  BY CommitKeeps DEF AuthoringInv
<1>2. /\ c.draft \in DraftIDs /\ r \in PacketIDs /\ c.parent \in PacketIDs \cup {None}
      /\ c.version \in Nat
  BY CallType DEF Sent
<1>3. Issued(r)' /\ frozen'[r] = [draft |-> c.draft, version |-> c.version,
                                  body |-> c.content.body]
  BY <1>1 DEF FrozenBy
<1>4. \A e : Sent(e) => Sent(e)' BY DEF Sent
<1>5. \A e : Sent(e) /\ FrozenBy(e) => FrozenBy(e)'
  BY <1>1, CallType DEF Sent, FrozenBy
<1>6. c.parent # None => Issued(c.parent) /\ packets[c.parent].tenant = c.tenant
  BY <1>2 DEF AuthoringInv, DraftsSound, Sent
<1>7. DraftsSound'
  <2>1. \A d \in DraftIDs : drafts[d] # NoDraft => drafts[d].parent \in PacketIDs \cup {None}
    BY DraftType DEF AuthoringInv
  <2> QED BY <1>1, <2>1 DEF AuthoringInv, DraftsSound, PacketStays
<1>8. FrozenSound'
  <2>1. /\ drafts[c.draft] # NoDraft
        /\ c.version \in 1 .. Len(drafts[c.draft].contents)
    BY DEF Sent
  <2>2. ASSUME NEW p \in PacketIDs, frozen'[p] # NotFrozen
        PROVE  /\ drafts[frozen'[p].draft] # NoDraft
               /\ frozen'[p].version \in 1 .. Len(drafts[frozen'[p].draft].contents)
    <3>1. CASE p = r BY <1>3, <2>1, <3>1
    <3>2. CASE p # r BY <1>1, <2>2, <3>2 DEF AuthoringInv, FrozenSound
    <3> QED BY <3>1, <3>2
  <2> QED BY <2>2 DEF FrozenSound
<1>9. FrozenAsSeen'
  <2> SUFFICES ASSUME NEW p \in PacketIDs
               PROVE  IF ~Issued(p)' THEN frozen'[p] = NotFrozen
                      ELSE /\ frozen'[p] # NotFrozen
                           /\ drafts[frozen'[p].draft].contents[frozen'[p].version]
                                = [packet |-> p, body |-> frozen'[p].body]
                           /\ packets'[p].parent = drafts[frozen'[p].draft].parent
                           /\ packets'[p].tenant = drafts[frozen'[p].draft].tenant
    BY DEF FrozenAsSeen
  <2>1. CASE p = r
    <3>1. frozen'[r] # NotFrozen
      BY <1>2, <1>3 DEF NotFrozen
    <3>2. c.content = [packet |-> r, body |-> c.content.body]
      BY DEF Sent, Call, Contents
    <3> QED BY <1>1, <1>3, <2>1, <3>1, <3>2 DEF Sent
  <2>2. CASE p # r BY <1>1, <2>2 DEF AuthoringInv, FrozenAsSeen
  <2> QED BY <2>1, <2>2
<1>10. IssuedDraftIsPacket'
  <2> SUFFICES ASSUME NEW d \in DraftIDs, drafts[d] # NoDraft, drafts[d].state = "issued"
               PROVE  /\ packets'[Last(drafts[d].contents).packet].version # 0
                      /\ frozen'[Last(drafts[d].contents).packet].draft = d
                      /\ frozen'[Last(drafts[d].contents).packet].version
                           = Len(drafts[d].contents) - 1
    BY DEF IssuedDraftIsPacket, Version, Issued
  <2>1. Last(drafts[d].contents).packet \in PacketIDs
    <3>1. drafts[d].contents \in Seq(Contents) /\ Len(drafts[d].contents) # 0
      BY DraftType DEF AuthoringInv, DraftsSound
    <3>2. Last(drafts[d].contents) \in Contents BY <3>1 DEF Last
    <3> QED BY <3>2 DEF Contents
  <2>2. /\ Issued(Last(drafts[d].contents).packet)
        /\ frozen[Last(drafts[d].contents).packet].draft = d
        /\ frozen[Last(drafts[d].contents).packet].version = Len(drafts[d].contents) - 1
    BY DEF AuthoringInv, IssuedDraftIsPacket, Version
  <2>3. Last(drafts[d].contents).packet # r BY <1>1, <2>2
  <2> QED BY <1>1, <2>1, <2>2, <2>3 DEF Issued
<1>11. LineageSound'
  <2> SUFFICES ASSUME NEW p \in PacketIDs, packets'[p].parent # None
               PROVE  /\ packets'[packets'[p].parent].version # 0
                      /\ packets'[packets'[p].parent].tenant = packets'[p].tenant
    BY DEF LineageSound, Issued
  <2>1. CASE p = r
    <3>1. c.parent \in PacketIDs \ {r} BY <1>1, <1>2, <1>6, <2>1
    <3> QED BY <1>1, <1>6, <2>1, <3>1 DEF Issued
  <2>2. CASE p # r
    <3>1. packets[p].parent \in PacketIDs \cup {None}
      BY DEF AuthoringInv, Inv, TypeOK, PacketState
    <3>2. Issued(packets[p].parent) /\ packets[packets[p].parent].tenant = packets[p].tenant
      BY <1>1, <2>2 DEF AuthoringInv, LineageSound
    <3>3. packets[p].parent \in PacketIDs \ {r} BY <1>1, <2>2, <3>1, <3>2
    <3> QED BY <1>1, <2>2, <3>2, <3>3 DEF Issued
  <2> QED BY <2>1, <2>2
<1>12. \A d \in DraftIDs : DraftGrows(d)
  BY DraftUnchanged DEF AuthoringInv
<1> QED BY <1>1, <1>4, <1>5, <1>7, <1>8, <1>9, <1>10, <1>11, <1>12

\* The instance still waits for a call whose draft does not change.
LEMMA AwaitedStays ==
  ASSUME NEW j, NEW c, AwaitedBy(j, c), drafts'[c.draft] = drafts[c.draft],
         FrozenBy(c) => FrozenBy(c)'
  PROVE  AwaitedBy(j, c)'
BY DEF AwaitedBy, Sent

LEMMA LedgerIssuesKeeps ==
  ASSUME AuthoringInv, NEW i \in Instances, LedgerIssues(i)
  PROVE  AuthoringInv' /\ \A d \in DraftIDs : DraftGrows(d)
<1>1. PICK c : /\ c = calls[i] /\ c # NoCall /\ c.state = "sent" /\ Commit(c)
               /\ calls' = [calls EXCEPT ![i].state = "committed"]
               /\ drafts' = drafts /\ late' = late
  BY DEF LedgerIssues
<1>2. AwaitedBy(i, c) /\ c \in Call
  BY <1>1 DEF AuthoringInv, CallsSound, AwaitedBy, Sent
<1>3. Sent(c) BY <1>2 DEF AwaitedBy
<1>4. PICK new : new = [c EXCEPT !.state = "committed"] OBVIOUS
<1>5. calls' = [j \in Instances |-> IF j = i THEN new ELSE calls[j]]
  BY <1>1, <1>4 DEF AuthoringInv, Types
<1>6. /\ new \in Call /\ new.draft = c.draft /\ new.version = c.version
      /\ new.content = c.content /\ new.parent = c.parent /\ new.tenant = c.tenant
  BY <1>2, <1>4 DEF Call
<1>7. /\ Inv' /\ FrozenSound' /\ FrozenAsSeen' /\ IssuedDraftIsPacket'
      /\ DraftsSound' /\ LineageSound'
      /\ \A d \in DraftIDs : DraftGrows(d)
      /\ FrozenBy(c)' /\ frozen' \in [PacketIDs -> {NotFrozen} \cup Freeze]
      /\ \A e : Sent(e) => Sent(e)'
      /\ \A e : Sent(e) /\ FrozenBy(e) => FrozenBy(e)'
  BY <1>1, <1>3, CommitStepKeeps
<1>8. Types' BY <1>1, <1>5, <1>6, <1>7 DEF AuthoringInv, Types
<1>9. AwaitedBy(i, new)'
  BY <1>1, <1>2, <1>6, <1>7 DEF AwaitedBy, Sent, FrozenBy
<1>10. CallsSound'
  <2>1. \A e \in late' : Sent(e)' BY <1>1, <1>7 DEF AuthoringInv, CallsSound
  <2>2. ASSUME NEW j \in Instances, calls'[j] # NoCall PROVE AwaitedBy(j, calls[j])'
    <3>1. CASE j = i
      <4>1. calls'[j] = new BY <1>5, <3>1
      <4> QED BY <1>9, <3>1, <4>1
    <3>2. CASE j # i
      <4>1. PICK e : e = calls[j] OBVIOUS
      <4>2. calls'[j] = e BY <1>5, <3>2, <4>1
      <4>3. AwaitedBy(j, e) BY <2>2, <4>1, <4>2 DEF AuthoringInv, CallsSound
      <4>4. AwaitedBy(j, e)' BY <1>1, <1>7, <4>3, AwaitedStays DEF AwaitedBy
      <4> QED BY <4>2, <4>4
    <3> QED BY <3>1, <3>2
  <2> QED BY <2>1, <2>2 DEF CallsSound
<1> QED BY <1>7, <1>8, <1>10 DEF AuthoringInv

LEMMA LateIssueKeeps ==
  ASSUME AuthoringInv, LateIssue
  PROVE  AuthoringInv' /\ \A d \in DraftIDs : DraftGrows(d)
<1>1. PICK c : /\ c \in late /\ Commit(c) /\ late' = late \ {c}
               /\ drafts' = drafts /\ calls' = calls
  BY DEF LateIssue
<1>2. Sent(c) BY <1>1 DEF AuthoringInv, CallsSound
<1>3. /\ Inv' /\ FrozenSound' /\ FrozenAsSeen' /\ IssuedDraftIsPacket'
      /\ DraftsSound' /\ LineageSound'
      /\ \A d \in DraftIDs : DraftGrows(d)
      /\ frozen' \in [PacketIDs -> {NotFrozen} \cup Freeze]
      /\ \A e : Sent(e) => Sent(e)'
      /\ \A e : Sent(e) /\ FrozenBy(e) => FrozenBy(e)'
  BY <1>1, <1>2, CommitStepKeeps
<1>4. Types' BY <1>1, <1>3 DEF AuthoringInv, Types
<1>5. CallsSound'
  <2>1. \A e \in late' : Sent(e)' BY <1>1, <1>3 DEF AuthoringInv, CallsSound
  <2>2. ASSUME NEW j \in Instances, calls'[j] # NoCall PROVE AwaitedBy(j, calls[j])'
    <3>1. PICK e : e = calls[j] OBVIOUS
    <3>2. calls'[j] = e BY <1>1, <3>1
    <3>3. AwaitedBy(j, e) BY <2>2, <3>1, <3>2 DEF AuthoringInv, CallsSound
    <3>4. AwaitedBy(j, e)' BY <1>1, <1>3, <3>3, AwaitedStays DEF AwaitedBy
    <3> QED BY <3>2, <3>4
  <2> QED BY <2>1, <2>2 DEF CallsSound
<1> QED BY <1>3, <1>4, <1>5 DEF AuthoringInv

-----------------------------------------------------------------------------
(* Steps of the drafts. *)

\* What IssuedDraftIsPacket says of one draft.
IssuedIsPacket(d) ==
    drafts[d] # NoDraft /\ drafts[d].state = "issued" =>
      LET p == Last(drafts[d].contents).packet
      IN  Issued(p) /\ frozen[p].draft = d /\ frozen[p].version = Version(d) - 1

LEMMA DraftStep ==
  ASSUME AuthoringInv, Types', packets' = packets, frozen' = frozen,
         \A d \in DraftIDs : DraftGrows(d)
  PROVE  /\ Inv' /\ LineageSound' /\ FrozenSound' /\ FrozenAsSeen'
         /\ \A e : Sent(e) => Sent(e)'
         /\ \A e : FrozenBy(e) => FrozenBy(e)'
         /\ \A d \in DraftIDs : drafts[d] # NoDraft =>
              /\ Len(drafts'[d].contents) # 0
              /\ drafts'[d].parent # None =>
                   /\ packets[drafts'[d].parent].version # 0
                   /\ packets[drafts'[d].parent].tenant = drafts'[d].tenant
         /\ \A d \in DraftIDs :
              drafts[d] # NoDraft /\ drafts[d].state # "draft" => IssuedIsPacket(d)'
<1>1. Inv' /\ LineageSound'
  BY DEF AuthoringInv, LineageSound, Inv, TypeOK, UnissuedUnlinked, LinksAgree,
         SupersededIsClosed, LineageIsFounded, Issued
<1>2. \A d \in DraftIDs : drafts[d] # NoDraft =>
        Len(drafts[d].contents) \in Nat /\ Len(drafts'[d].contents) \in Nat
  <2> SUFFICES ASSUME NEW d \in DraftIDs, drafts[d] # NoDraft
               PROVE  Len(drafts[d].contents) \in Nat /\ Len(drafts'[d].contents) \in Nat
    OBVIOUS
  <2>1. drafts'[d] \in Draft BY DEF DraftGrows, Types
  <2> QED BY <2>1, DraftType DEF AuthoringInv, Draft
<1>3. \A p \in PacketIDs : frozen[p] # NotFrozen => frozen[p].draft \in DraftIDs
                                                    /\ frozen[p].version \in Nat
  BY DEF AuthoringInv, Types, Freeze
<1>4. FrozenSound'
  <2> SUFFICES ASSUME NEW p \in PacketIDs, frozen[p] # NotFrozen
               PROVE  /\ drafts'[frozen[p].draft] # NoDraft
                      /\ frozen[p].version \in 1 .. Len(drafts'[frozen[p].draft].contents)
    BY DEF FrozenSound
  <2>1. /\ drafts[frozen[p].draft] # NoDraft
        /\ frozen[p].version \in 1 .. Len(drafts[frozen[p].draft].contents)
    BY DEF AuthoringInv, FrozenSound
  <2> QED BY <1>2, <1>3, <2>1 DEF DraftGrows
<1>5. FrozenAsSeen'
  <2> SUFFICES ASSUME NEW p \in PacketIDs, Issued(p)
               PROVE  /\ frozen[p] # NotFrozen
                      /\ drafts'[frozen[p].draft].contents[frozen[p].version]
                           = [packet |-> p, body |-> frozen[p].body]
                      /\ packets[p].parent = drafts'[frozen[p].draft].parent
                      /\ packets[p].tenant = drafts'[frozen[p].draft].tenant
    BY DEF AuthoringInv, FrozenAsSeen, Issued
  <2>1. /\ frozen[p] # NotFrozen
        /\ drafts[frozen[p].draft].contents[frozen[p].version]
             = [packet |-> p, body |-> frozen[p].body]
        /\ packets[p].parent = drafts[frozen[p].draft].parent
        /\ packets[p].tenant = drafts[frozen[p].draft].tenant
    BY DEF AuthoringInv, FrozenAsSeen
  <2>2. /\ drafts[frozen[p].draft] # NoDraft
        /\ frozen[p].version \in 1 .. Len(drafts[frozen[p].draft].contents)
    BY <2>1 DEF AuthoringInv, FrozenSound
  <2> QED BY <1>3, <2>1, <2>2 DEF DraftGrows
<1>6. \A e : Sent(e) => Sent(e)'
  <2> SUFFICES ASSUME NEW e, Sent(e) PROVE Sent(e)'
    OBVIOUS
  <2>1. e.draft \in DraftIDs BY CallType DEF Sent
  <2> QED BY <2>1, SentStays DEF AuthoringInv
<1>7. \A e : FrozenBy(e) => FrozenBy(e)' BY DEF FrozenBy, Issued
<1>8. \A d \in DraftIDs : drafts[d] # NoDraft =>
        /\ Len(drafts'[d].contents) # 0
        /\ drafts'[d].parent # None =>
             /\ packets[drafts'[d].parent].version # 0
             /\ packets[drafts'[d].parent].tenant = drafts'[d].tenant
  BY <1>2 DEF AuthoringInv, DraftsSound, DraftGrows, Issued
<1>9. \A d \in DraftIDs :
        drafts[d] # NoDraft /\ drafts[d].state # "draft" => IssuedIsPacket(d)'
  BY DEF AuthoringInv, IssuedDraftIsPacket, IssuedIsPacket, DraftGrows, Version, Issued
<1> QED BY <1>1, <1>4, <1>5, <1>6, <1>7, <1>8, <1>9

LEMMA NewDraftKeeps ==
  ASSUME AuthoringInv, NEW i \in Instances, NEW d \in DraftIDs, NEW a \in Actors,
         NEW tenant \in TenantIDs, NEW parent \in PacketIDs \cup {None},
         NEW content \in Contents,
         parent # None => ParentIsOwn(parent, tenant),
         NewDraft(i, d, a, tenant, parent, content)
  PROVE  AuthoringInv' /\ \A e \in DraftIDs : DraftGrows(e)
<1>1. PICK new : new = [home |-> i, author |-> a, tenant |-> tenant, parent |-> parent,
                        state |-> "draft", contents |-> <<content>>]
  OBVIOUS
<1>2. /\ drafts' = [e \in DraftIDs |-> IF e = d THEN new ELSE drafts[e]]
      /\ drafts[d] = NoDraft
      /\ packets' = packets /\ calls' = calls /\ late' = late /\ frozen' = frozen
  BY <1>1 DEF NewDraft, AuthoringInv, Types
<1>3. /\ new \in Draft /\ new.state = "draft" /\ new.parent = parent
      /\ new.tenant = tenant /\ Len(new.contents) # 0
  <2>1. <<content>> \in Seq(Contents) /\ Len(<<content>>) = 1 OBVIOUS
  <2> QED BY <1>1, <2>1 DEF Draft
<1>4. Types' BY <1>2, <1>3 DEF AuthoringInv, Types
<1>5. \A e \in DraftIDs : DraftGrows(e)
  <2> SUFFICES ASSUME NEW e \in DraftIDs PROVE DraftGrows(e)
    OBVIOUS
  <2>1. CASE e = d BY <1>2, <2>1 DEF DraftGrows
  <2>2. CASE e # d BY <1>2, <2>2, DraftUnchanged DEF AuthoringInv
  <2> QED BY <2>1, <2>2
<1>6. /\ Inv' /\ LineageSound' /\ FrozenSound' /\ FrozenAsSeen'
      /\ \A e : Sent(e) => Sent(e)'
      /\ \A e : FrozenBy(e) => FrozenBy(e)'
  BY <1>2, <1>4, <1>5, DraftStep
<1>7. DraftsSound'
  BY <1>2, <1>3 DEF AuthoringInv, DraftsSound, Issued, ParentIsOwn
<1>8. IssuedDraftIsPacket'
  BY <1>2, <1>3 DEF AuthoringInv, IssuedDraftIsPacket, Version, Issued
<1>9. CallsSound'
  <2>1. \A e \in late' : Sent(e)' BY <1>2, <1>6 DEF AuthoringInv, CallsSound
  <2>2. ASSUME NEW j \in Instances, calls'[j] # NoCall PROVE AwaitedBy(j, calls[j])'
    <3>1. PICK e : e = calls[j] OBVIOUS
    <3>2. calls'[j] = e BY <1>2, <3>1
    <3>3. AwaitedBy(j, e) BY <2>2, <3>1, <3>2 DEF AuthoringInv, CallsSound
    <3>4. e.draft \in DraftIDs /\ e.draft # d
      BY <1>2, <3>3, CallType DEF AwaitedBy, Sent
    <3>5. AwaitedBy(j, e)' BY <1>2, <1>6, <3>3, <3>4, AwaitedStays
    <3> QED BY <3>2, <3>5
  <2> QED BY <2>1, <2>2 DEF CallsSound
<1> QED BY <1>4, <1>5, <1>6, <1>7, <1>8, <1>9 DEF AuthoringInv

\* A draft of an instance that waits for no answer is no draft an instance waits for.
LEMMA FreeDraft ==
  ASSUME AuthoringInv, NEW i \in Instances, NEW d \in DraftIDs, Free(i),
         drafts[d].home = i, NEW j \in Instances, NEW c, c = calls[j], c # NoCall
  PROVE  c.draft \in DraftIDs /\ c.draft # d
<1>1. AwaitedBy(j, c) BY DEF AuthoringInv, CallsSound
<1>2. c.draft \in DraftIDs BY <1>1, CallType DEF AwaitedBy, Sent
<1>3. j # i BY DEF Free
<1> QED BY <1>1, <1>2, <1>3 DEF AwaitedBy

LEMMA EditDraftKeeps ==
  ASSUME AuthoringInv, NEW i \in Instances, NEW d \in DraftIDs, NEW v,
         NEW content \in Contents, EditDraft(i, d, v, content)
  PROVE  AuthoringInv' /\ \A e \in DraftIDs : DraftGrows(e)
<1>1. PICK new : new = [drafts[d] EXCEPT !.contents = Append(drafts[d].contents, content)]
  OBVIOUS
<1>2. /\ drafts' = [e \in DraftIDs |-> IF e = d THEN new ELSE drafts[e]]
      /\ Free(i) /\ drafts[d] # NoDraft /\ drafts[d].home = i /\ drafts[d].state = "draft"
      /\ packets' = packets /\ calls' = calls /\ late' = late /\ frozen' = frozen
  BY <1>1 DEF EditDraft, Editable, AuthoringInv, Types
<1>3. /\ drafts[d] \in Draft /\ drafts[d].contents \in Seq(Contents)
      /\ Len(drafts[d].contents) \in Nat
  BY <1>2, DraftType DEF AuthoringInv
<1>4. /\ new.contents = Append(drafts[d].contents, content)
      /\ new.parent = drafts[d].parent /\ new.tenant = drafts[d].tenant
      /\ new.state = "draft" /\ new.home = i
  BY <1>1, <1>2, <1>3 DEF Draft
<1>5. /\ new.contents \in Seq(Contents)
      /\ Len(new.contents) = Len(drafts[d].contents) + 1
      /\ \A k \in 1 .. Len(drafts[d].contents) : new.contents[k] = drafts[d].contents[k]
  BY <1>3, <1>4
<1>6. new \in Draft /\ new # NoDraft
  <2>1. new \in Draft BY <1>1, <1>3, <1>4, <1>5 DEF Draft
  <2> QED BY <2>1, NothingIsNothing
<1>7. Types' BY <1>2, <1>6 DEF AuthoringInv, Types
<1>8. \A e \in DraftIDs : DraftGrows(e)
  <2> SUFFICES ASSUME NEW e \in DraftIDs PROVE DraftGrows(e)
    OBVIOUS
  <2>1. CASE e = d
    <3>1. drafts'[d] = new BY <1>2
    <3>2. Len(drafts[d].contents) <= Len(new.contents) BY <1>3, <1>5
    <3> QED BY <1>2, <1>4, <1>5, <1>6, <2>1, <3>1, <3>2 DEF DraftGrows
  <2>2. CASE e # d BY <1>2, <2>2, DraftUnchanged DEF AuthoringInv
  <2> QED BY <2>1, <2>2
<1>9. /\ Inv' /\ LineageSound' /\ FrozenSound' /\ FrozenAsSeen'
      /\ \A e : Sent(e) => Sent(e)'
      /\ \A e : FrozenBy(e) => FrozenBy(e)'
      /\ \A e \in DraftIDs : drafts[e] # NoDraft =>
              /\ Len(drafts'[e].contents) # 0
              /\ drafts'[e].parent # None =>
                   /\ packets[drafts'[e].parent].version # 0
                   /\ packets[drafts'[e].parent].tenant = drafts'[e].tenant
  BY <1>2, <1>7, <1>8, DraftStep
<1>10. DraftsSound'
  BY <1>2, <1>9 DEF DraftsSound, Issued
<1>11. IssuedDraftIsPacket'
  BY <1>2, <1>4 DEF AuthoringInv, IssuedDraftIsPacket, Version, Issued
<1>12. CallsSound'
  <2>1. \A e \in late' : Sent(e)' BY <1>2, <1>9 DEF AuthoringInv, CallsSound
  <2>2. ASSUME NEW j \in Instances, calls'[j] # NoCall PROVE AwaitedBy(j, calls[j])'
    <3>1. PICK e : e = calls[j] OBVIOUS
    <3>2. calls'[j] = e BY <1>2, <3>1
    <3>3. AwaitedBy(j, e) BY <2>2, <3>1, <3>2 DEF AuthoringInv, CallsSound
    <3>4. e.draft \in DraftIDs /\ e.draft # d
      BY <1>2, <2>2, <3>1, <3>2, FreeDraft
    <3>5. AwaitedBy(j, e)' BY <1>2, <1>9, <3>3, <3>4, AwaitedStays
    <3> QED BY <3>2, <3>5
  <2> QED BY <2>1, <2>2 DEF CallsSound
<1> QED BY <1>7, <1>8, <1>9, <1>10, <1>11, <1>12 DEF AuthoringInv

-----------------------------------------------------------------------------
(* Steps of an issue that do not touch the ledger. *)

LEMMA BeginIssueKeeps ==
  ASSUME AuthoringInv, NEW i \in Instances, NEW d \in DraftIDs,
         NEW v \in 1 .. Version(d), BeginIssue(i, d, v)
  PROVE  AuthoringInv' /\ \A e \in DraftIDs : DraftGrows(e)
<1>1. /\ drafts[d] # NoDraft /\ drafts[d].home = i /\ drafts[d].state = "draft"
      /\ v = Len(drafts[d].contents)
      /\ drafts' = drafts /\ packets' = packets /\ late' = late /\ frozen' = frozen
  BY DEF BeginIssue, Editable, Version
<1>2. /\ drafts[d].contents \in Seq(Contents) /\ v \in Nat /\ v # 0
      /\ drafts[d].parent \in PacketIDs \cup {None} /\ drafts[d].tenant \in TenantIDs
  BY <1>1, DraftType DEF AuthoringInv, DraftsSound
<1>3. PICK expected : expected = IF drafts[d].parent = None THEN 0
                                 ELSE packets[drafts[d].parent].version
  OBVIOUS
<1>4. expected \in Nat BY <1>2, <1>3, CurrentPacket DEF AuthoringInv
<1>5. PICK content : content = Last(drafts[d].contents) OBVIOUS
<1>6. /\ content = drafts[d].contents[v] /\ content \in Contents /\ content.body \in Bodies
  <2>1. content = drafts[d].contents[v] BY <1>1, <1>5 DEF Last
  <2>2. content \in Contents BY <1>1, <1>2, <2>1
  <2>3. content.body # Incomplete BY <1>5 DEF BeginIssue, Complete
  <2> QED BY <2>1, <2>2, <2>3 DEF Contents
<1>7. PICK new : new = [draft |-> d, version |-> v, tenant |-> drafts[d].tenant,
                        parent |-> drafts[d].parent, content |-> content,
                        expected |-> expected, state |-> "sent"]
  OBVIOUS
<1>8. calls' = [j \in Instances |-> IF j = i THEN new ELSE calls[j]]
  BY <1>3, <1>5, <1>7 DEF BeginIssue, AuthoringInv, Types
<1>9. new \in Call BY <1>2, <1>4, <1>6, <1>7 DEF Call
<1>10. AwaitedBy(i, new)
  BY <1>1, <1>2, <1>6, <1>7, <1>9 DEF AwaitedBy, Sent
<1>11. Types' BY <1>1, <1>8, <1>9 DEF AuthoringInv, Types
<1>12. \A e \in DraftIDs : DraftGrows(e) BY <1>1, DraftUnchanged DEF AuthoringInv
<1>13. /\ Inv' /\ LineageSound' /\ FrozenSound' /\ FrozenAsSeen'
       /\ \A e : Sent(e) => Sent(e)'
       /\ \A e : FrozenBy(e) => FrozenBy(e)'
  BY <1>1, <1>11, <1>12, DraftStep
<1>14. DraftsSound' /\ IssuedDraftIsPacket'
  BY <1>1 DEF AuthoringInv, DraftsSound, IssuedDraftIsPacket, Version, Issued
<1>15. CallsSound'
  <2>1. \A e \in late' : Sent(e)' BY <1>1, <1>13 DEF AuthoringInv, CallsSound
  <2>2. ASSUME NEW j \in Instances, calls'[j] # NoCall PROVE AwaitedBy(j, calls[j])'
    <3>1. PICK e : e = IF j = i THEN new ELSE calls[j] OBVIOUS
    <3>2. calls'[j] = e BY <1>8, <3>1
    <3>3. AwaitedBy(j, e) BY <1>10, <2>2, <3>1, <3>2 DEF AuthoringInv, CallsSound
    <3>4. AwaitedBy(j, e)' BY <1>1, <1>13, <3>3, AwaitedStays
    <3> QED BY <3>2, <3>4
  <2> QED BY <2>1, <2>2 DEF CallsSound
<1> QED BY <1>11, <1>12, <1>13, <1>14, <1>15 DEF AuthoringInv

LEMMA IssueSucceedsKeeps ==
  ASSUME AuthoringInv, NEW i \in Instances, IssueSucceeds(i)
  PROVE  AuthoringInv' /\ \A e \in DraftIDs : DraftGrows(e)
<1>1. PICK c : c = calls[i] /\ c # NoCall /\ c.state = "committed"
  BY DEF IssueSucceeds, Answered
<1>2. AwaitedBy(i, c) /\ Sent(c) /\ FrozenBy(c)
  BY <1>1 DEF AuthoringInv, CallsSound, AwaitedBy
<1>3. PICK d : d = c.draft OBVIOUS
<1>4. /\ d \in DraftIDs /\ drafts[d] # NoDraft /\ drafts[d].home = i
      /\ drafts[d].state = "draft" /\ c.version = Len(drafts[d].contents)
      /\ drafts[d].contents[c.version] = c.content
  BY <1>2, <1>3, CallType DEF AwaitedBy, Sent
<1>5. /\ drafts[d] \in Draft /\ drafts[d].contents \in Seq(Contents)
      /\ c.version \in Nat /\ c.version # 0
  BY <1>4, DraftType DEF AuthoringInv, DraftsSound
<1>6. c.content \in Contents /\ Last(drafts[d].contents) = c.content
  BY <1>4, <1>5 DEF Last
<1>7. PICK new : new = [drafts[d] EXCEPT !.state = "issued",
                          !.contents = Append(drafts[d].contents, c.content)]
  OBVIOUS
<1>8. /\ drafts' = [e \in DraftIDs |-> IF e = d THEN new ELSE drafts[e]]
      /\ calls' = [j \in Instances |-> IF j = i THEN NoCall ELSE calls[j]]
      /\ packets' = packets /\ late' = late /\ frozen' = frozen
  BY <1>1, <1>3, <1>4, <1>6, <1>7 DEF IssueSucceeds, Issues, AuthoringInv, Types
<1>9. /\ new.contents = Append(drafts[d].contents, c.content)
      /\ new.parent = drafts[d].parent /\ new.tenant = drafts[d].tenant
      /\ new.state = "issued" /\ new.home = i
  BY <1>4, <1>5, <1>7 DEF Draft
<1>10. /\ new.contents \in Seq(Contents) /\ Len(new.contents) = c.version + 1
       /\ \A k \in 1 .. Len(drafts[d].contents) : new.contents[k] = drafts[d].contents[k]
       /\ Last(new.contents) = c.content
  BY <1>4, <1>5, <1>6, <1>9 DEF Last
<1>11. new \in Draft /\ new # NoDraft
  <2>1. new \in Draft BY <1>5, <1>7, <1>9, <1>10 DEF Draft
  <2> QED BY <2>1, NothingIsNothing
<1>12. Types' BY <1>8, <1>11 DEF AuthoringInv, Types
<1>13. \A e \in DraftIDs : DraftGrows(e)
  <2> SUFFICES ASSUME NEW e \in DraftIDs PROVE DraftGrows(e)
    OBVIOUS
  <2>1. CASE e = d
    <3>1. drafts'[d] = new BY <1>4, <1>8
    <3>2. Len(drafts[d].contents) <= Len(new.contents) BY <1>4, <1>5, <1>10
    <3> QED BY <1>4, <1>9, <1>10, <1>11, <2>1, <3>1, <3>2 DEF DraftGrows
  <2>2. CASE e # d BY <1>8, <2>2, DraftUnchanged DEF AuthoringInv
  <2> QED BY <2>1, <2>2
<1>14. /\ Inv' /\ LineageSound' /\ FrozenSound' /\ FrozenAsSeen'
       /\ \A e : Sent(e) => Sent(e)'
       /\ \A e : FrozenBy(e) => FrozenBy(e)'
       /\ \A e \in DraftIDs : drafts[e] # NoDraft =>
              /\ Len(drafts'[e].contents) # 0
              /\ drafts'[e].parent # None =>
                   /\ packets[drafts'[e].parent].version # 0
                   /\ packets[drafts'[e].parent].tenant = drafts'[e].tenant
  BY <1>8, <1>12, <1>13, DraftStep
<1>15. DraftsSound'
  BY <1>4, <1>8, <1>14 DEF DraftsSound, Issued
<1>16. IssuedDraftIsPacket'
  <2> SUFFICES ASSUME NEW e \in DraftIDs, drafts'[e] # NoDraft, drafts'[e].state = "issued"
               PROVE  /\ packets[Last(drafts'[e].contents).packet].version # 0
                      /\ frozen[Last(drafts'[e].contents).packet].draft = e
                      /\ frozen[Last(drafts'[e].contents).packet].version
                           = Len(drafts'[e].contents) - 1
    BY <1>8 DEF IssuedDraftIsPacket, Version, Issued
  <2>1. CASE e = d
    <3>1. drafts'[e] = new BY <1>8, <2>1
    <3>2. /\ packets[c.content.packet].version # 0
          /\ frozen[c.content.packet].draft = d
          /\ frozen[c.content.packet].version = c.version
      BY <1>2, <1>3 DEF FrozenBy, Issued
    <3>3. Last(drafts'[e].contents) = c.content BY <1>10, <3>1
    <3>4. Len(drafts'[e].contents) - 1 = c.version BY <1>5, <1>10, <3>1
    <3> QED BY <2>1, <3>2, <3>3, <3>4
  <2>2. CASE e # d
    BY <1>8, <2>2 DEF AuthoringInv, IssuedDraftIsPacket, Version, Issued
  <2> QED BY <2>1, <2>2
<1>17. CallsSound'
  <2>1. \A e \in late' : Sent(e)' BY <1>8, <1>14 DEF AuthoringInv, CallsSound
  <2>2. ASSUME NEW j \in Instances, calls'[j] # NoCall PROVE AwaitedBy(j, calls[j])'
    <3>1. PICK e : e = calls[j] OBVIOUS
    <3>2. calls'[j] = e /\ j # i BY <1>8, <2>2, <3>1
    <3>3. AwaitedBy(j, e) BY <2>2, <3>1, <3>2 DEF AuthoringInv, CallsSound
    <3>4. e.draft \in DraftIDs /\ e.draft # d
      BY <1>4, <3>2, <3>3, CallType DEF AwaitedBy, Sent
    <3>5. AwaitedBy(j, e)' BY <1>8, <1>14, <3>3, <3>4, AwaitedStays
    <3> QED BY <3>2, <3>5
  <2> QED BY <2>1, <2>2 DEF CallsSound
<1> QED BY <1>12, <1>13, <1>14, <1>15, <1>16, <1>17 DEF AuthoringInv

\* The issue an instance leaves behind, if any, is one that was sent.
LEMMA GivenUp ==
  ASSUME AuthoringInv, NEW i \in Instances,
         \/ late' = late
         \/ calls[i] # NoCall /\ GiveUp(calls[i])
  PROVE  late' \subseteq Call /\ \A c \in late' : Sent(c)
<1>1. late \subseteq Call /\ \A c \in late : Sent(c)
  BY DEF AuthoringInv, Types, CallsSound
<1>2. calls[i] # NoCall => calls[i] \in Call /\ Sent(calls[i])
  BY DEF AuthoringInv, CallsSound, AwaitedBy, Sent
<1> QED BY <1>1, <1>2 DEF GiveUp

LEMMA IssueFailsKeeps ==
  ASSUME AuthoringInv, NEW i \in Instances, IssueFails(i)
  PROVE  AuthoringInv' /\ \A e \in DraftIDs : DraftGrows(e)
<1>1. /\ drafts' = drafts /\ packets' = packets /\ frozen' = frozen
      /\ calls' = [j \in Instances |-> IF j = i THEN NoCall ELSE calls[j]]
  BY DEF IssueFails, AuthoringInv, Types
<1>2. late' \subseteq Call /\ \A c \in late' : Sent(c)
  BY GivenUp DEF IssueFails
<1>3. Types' BY <1>1, <1>2 DEF AuthoringInv, Types
<1>4. \A e \in DraftIDs : DraftGrows(e) BY <1>1, DraftUnchanged DEF AuthoringInv
<1>5. /\ Inv' /\ LineageSound' /\ FrozenSound' /\ FrozenAsSeen'
      /\ \A e : Sent(e) => Sent(e)'
      /\ \A e : FrozenBy(e) => FrozenBy(e)'
  BY <1>1, <1>3, <1>4, DraftStep
<1>6. DraftsSound' /\ IssuedDraftIsPacket'
  BY <1>1 DEF AuthoringInv, DraftsSound, IssuedDraftIsPacket, Version, Issued
<1>7. CallsSound'
  <2>1. \A e \in late' : Sent(e)' BY <1>2, <1>5
  <2>2. ASSUME NEW j \in Instances, calls'[j] # NoCall PROVE AwaitedBy(j, calls[j])'
    <3>1. PICK e : e = calls[j] OBVIOUS
    <3>2. calls'[j] = e BY <1>1, <2>2, <3>1
    <3>3. AwaitedBy(j, e) BY <2>2, <3>1, <3>2 DEF AuthoringInv, CallsSound
    <3>4. AwaitedBy(j, e)' BY <1>1, <1>5, <3>3, AwaitedStays
    <3> QED BY <3>2, <3>4
  <2> QED BY <2>1, <2>2 DEF CallsSound
<1> QED BY <1>3, <1>4, <1>5, <1>6, <1>7 DEF AuthoringInv

LEMMA StopKeeps ==
  ASSUME AuthoringInv, NEW i \in Instances, Stop(i)
  PROVE  AuthoringInv' /\ \A e \in DraftIDs : DraftGrows(e)
<1>1. /\ packets' = packets /\ frozen' = frozen
      /\ drafts' = [d \in DraftIDs |->
           IF drafts[d] # NoDraft /\ drafts[d].home = i
           THEN [drafts[d] EXCEPT !.state = "lost"] ELSE drafts[d]]
      /\ calls' = [j \in Instances |-> IF j = i THEN NoCall ELSE calls[j]]
  BY DEF Stop, Free, AuthoringInv, Types
<1>2. late' \subseteq Call /\ \A c \in late' : Sent(c)
  BY GivenUp DEF Stop, Free
<1>3. ASSUME NEW d \in DraftIDs, drafts[d] # NoDraft, drafts[d].home = i
      PROVE  /\ drafts'[d] \in Draft /\ drafts'[d] # NoDraft /\ drafts'[d].state = "lost"
             /\ drafts'[d].parent = drafts[d].parent /\ drafts'[d].tenant = drafts[d].tenant
             /\ drafts'[d].contents = drafts[d].contents
  <2>1. drafts[d] \in Draft BY <1>3, DraftType DEF AuthoringInv
  <2>2. drafts'[d] = [drafts[d] EXCEPT !.state = "lost"] BY <1>1, <1>3
  <2>3. drafts'[d] \in Draft BY <2>1, <2>2 DEF Draft
  <2> QED BY <2>1, <2>2, <2>3, NothingIsNothing DEF Draft
<1>4. \A d \in DraftIDs : drafts[d] = NoDraft \/ drafts[d].home # i => drafts'[d] = drafts[d]
  BY <1>1
<1>5. Types'
  <2>1. drafts' \in [DraftIDs -> {NoDraft} \cup Draft]
    BY <1>1, <1>3, <1>4 DEF AuthoringInv, Types
  <2> QED BY <1>1, <1>2, <2>1 DEF AuthoringInv, Types
<1>6. \A e \in DraftIDs : DraftGrows(e)
  <2> SUFFICES ASSUME NEW e \in DraftIDs, drafts[e] # NoDraft PROVE DraftGrows(e)
    BY DEF DraftGrows
  <2>1. CASE drafts[e].home = i
    <3>1. Len(drafts[e].contents) \in Nat BY DraftType DEF AuthoringInv
    <3> QED BY <1>3, <2>1, <3>1 DEF DraftGrows
  <2>2. CASE drafts[e].home # i BY <1>4, <2>2, DraftUnchanged DEF AuthoringInv
  <2> QED BY <2>1, <2>2
<1>7. /\ Inv' /\ LineageSound' /\ FrozenSound' /\ FrozenAsSeen'
      /\ \A e : Sent(e) => Sent(e)'
      /\ \A e : FrozenBy(e) => FrozenBy(e)'
      /\ \A e \in DraftIDs : drafts[e] # NoDraft =>
              /\ Len(drafts'[e].contents) # 0
              /\ drafts'[e].parent # None =>
                   /\ packets[drafts'[e].parent].version # 0
                   /\ packets[drafts'[e].parent].tenant = drafts'[e].tenant
  BY <1>1, <1>5, <1>6, DraftStep
<1>8. DraftsSound'
  BY <1>1, <1>4, <1>7 DEF DraftsSound, Issued
<1>9. IssuedDraftIsPacket'
  BY <1>1, <1>3, <1>4 DEF AuthoringInv, IssuedDraftIsPacket, Version, Issued
<1>10. CallsSound'
  <2>1. \A e \in late' : Sent(e)' BY <1>2, <1>7
  <2>2. ASSUME NEW j \in Instances, calls'[j] # NoCall PROVE AwaitedBy(j, calls[j])'
    <3>1. PICK e : e = calls[j] OBVIOUS
    <3>2. calls'[j] = e /\ j # i BY <1>1, <2>2, <3>1
    <3>3. AwaitedBy(j, e) BY <2>2, <3>1, <3>2 DEF AuthoringInv, CallsSound
    <3>4. drafts'[e.draft] = drafts[e.draft]
      BY <1>4, <3>2, <3>3, CallType DEF AwaitedBy, Sent
    <3>5. AwaitedBy(j, e)' BY <1>7, <3>3, <3>4, AwaitedStays
    <3> QED BY <3>2, <3>5
  <2> QED BY <2>1, <2>2 DEF CallsSound
<1> QED BY <1>5, <1>6, <1>7, <1>8, <1>9, <1>10 DEF AuthoringInv

-----------------------------------------------------------------------------

LEMMA AuthoringInvInit == AuthoringInit => AuthoringInv
<1> SUFFICES ASSUME AuthoringInit PROVE AuthoringInv
  OBVIOUS
<1>1. Inv BY InvInit DEF AuthoringInit
<1>2. Types BY DEF AuthoringInit, Types
<1>3. \A p \in PacketIDs : ~Issued(p) /\ packets[p].parent = None
  BY DEF AuthoringInit, Init, Issued, NoPacket
<1>4. CallsSound /\ DraftsSound /\ FrozenSound /\ FrozenAsSeen /\ IssuedDraftIsPacket
      /\ LineageSound
  BY <1>3 DEF AuthoringInit, CallsSound, DraftsSound, FrozenSound, FrozenAsSeen,
              IssuedDraftIsPacket, LineageSound
<1> QED BY <1>1, <1>2, <1>4 DEF AuthoringInv

LEMMA AuthoringInvNext ==
  AuthoringInv /\ [AuthoringNext]_authoringVars =>
    AuthoringInv' /\ \A d \in DraftIDs : DraftGrows(d)
<1> SUFFICES ASSUME AuthoringInv, [AuthoringNext]_authoringVars
             PROVE  AuthoringInv' /\ \A d \in DraftIDs : DraftGrows(d)
  OBVIOUS
<1>1. CASE UNCHANGED authoringVars
  <2>1. /\ packets' = packets /\ drafts' = drafts /\ calls' = calls /\ late' = late
        /\ frozen' = frozen
    BY <1>1 DEF authoringVars
  <2>2. \A d \in DraftIDs : DraftGrows(d) BY <2>1, DraftUnchanged DEF AuthoringInv
  <2>3. Types' BY <2>1 DEF AuthoringInv, Types
  <2>4. Inv' /\ LineageSound' /\ FrozenSound' /\ FrozenAsSeen'
    BY <2>1, <2>2, <2>3, DraftStep
  <2>5. CallsSound' /\ DraftsSound' /\ IssuedDraftIsPacket'
    BY <2>1 DEF AuthoringInv, CallsSound, AwaitedBy, Sent, FrozenBy, DraftsSound,
                IssuedDraftIsPacket, Version, Issued
  <2> QED BY <2>2, <2>3, <2>4, <2>5 DEF AuthoringInv
<1>2. ASSUME NEW i \in Instances, NEW d \in DraftIDs, NEW a \in Actors,
             NEW tenant \in TenantIDs, NEW content \in Contents,
             \/ CreateDraft(i, d, a, tenant, content)
             \/ \E parent \in PacketIDs :
                  CreateSupersession(i, d, a, tenant, parent, content)
      PROVE  AuthoringInv' /\ \A e \in DraftIDs : DraftGrows(e)
  BY <1>2, NewDraftKeeps, NoneIsNoPacket DEF CreateDraft, CreateSupersession
<1>3. ASSUME NEW i \in Instances, NEW d \in DraftIDs, NEW v \in 1 .. Version(d),
             \/ \E content \in Contents : EditDraft(i, d, v, content)
             \/ BeginIssue(i, d, v)
      PROVE  AuthoringInv' /\ \A e \in DraftIDs : DraftGrows(e)
  BY <1>3, EditDraftKeeps, BeginIssueKeeps
<1>4. ASSUME NEW i \in Instances,
             LedgerIssues(i) \/ IssueSucceeds(i) \/ IssueFails(i) \/ Stop(i)
      PROVE  AuthoringInv' /\ \A e \in DraftIDs : DraftGrows(e)
  BY <1>4, LedgerIssuesKeeps, IssueSucceedsKeeps, IssueFailsKeeps, StopKeeps
<1>5. CASE LateIssue \/ AgentStep
  BY <1>5, LateIssueKeeps, AgentStepKeeps
<1> QED BY <1>1, <1>2, <1>3, <1>4, <1>5 DEF AuthoringNext

LEMMA AuthoringAlwaysInv == AuthoringSpec => []AuthoringInv
<1>1. AuthoringInv /\ [AuthoringNext]_authoringVars => AuthoringInv'
  BY AuthoringInvNext
<1> QED BY <1>1, AuthoringInvInit, PTL DEF AuthoringSpec

\* Drafts, issues and packets keep their types.
THEOREM AuthoringKeepsTypes == AuthoringSpec => []AuthoringTypeOK
<1>1. AuthoringInv => AuthoringTypeOK
  BY DEF AuthoringInv, Inv, Types, AuthoringTypeOK, Free
<1> QED BY <1>1, AuthoringAlwaysInv, PTL

\* IssueDraft (authoring/workspace.go) freezes the version its author asked for, through
\* lost and late answers and the end of the instance.
THEOREM FrozenAlwaysAsSeen == AuthoringSpec => []FrozenAsSeen
<1>1. AuthoringInv => FrozenAsSeen BY DEF AuthoringInv
<1> QED BY <1>1, AuthoringAlwaysInv, PTL

\* A draft IssueDraft (authoring/workspace.go) marks as issued is a packet.
THEOREM IssuedDraftIsAlwaysPacket == AuthoringSpec => []IssuedDraftIsPacket
<1>1. AuthoringInv => IssuedDraftIsPacket BY DEF AuthoringInv
<1> QED BY <1>1, AuthoringAlwaysInv, PTL

\* The one comparison of tenants in CreateSupersessionDraft (authoring/workspace.go) keeps
\* every lineage of packets within one tenant.
THEOREM LineageAlwaysStaysInTenant == AuthoringSpec => []LineageStaysInTenant
<1>1. AuthoringInv => LineageStaysInTenant
  BY DEF AuthoringInv, Inv, TypeOK, LineageSound, LineageStaysInTenant
<1> QED BY <1>1, AuthoringAlwaysInv, PTL

\* No step of anybody changes an issued draft, or takes a draft back to a version it had.
THEOREM IssuedDraftAlwaysStays == AuthoringSpec => IssuedDraftStays
<1>1. AuthoringInv /\ AuthoringInv' /\ [AuthoringNext]_authoringVars =>
        \A d \in DraftIDs : drafts[d] # NoDraft =>
          /\ IsPrefix(drafts[d].contents, drafts'[d].contents)
          /\ drafts[d].state # "draft" => drafts'[d].contents = drafts[d].contents
  <2> SUFFICES ASSUME AuthoringInv, AuthoringInv', [AuthoringNext]_authoringVars,
                      NEW d \in DraftIDs, drafts[d] # NoDraft
               PROVE  /\ IsPrefix(drafts[d].contents, drafts'[d].contents)
                      /\ drafts[d].state # "draft" =>
                           drafts'[d].contents = drafts[d].contents
    OBVIOUS
  <2>1. DraftGrows(d) BY AuthoringInvNext
  <2>2. drafts[d].contents \in Seq(Contents) /\ drafts'[d].contents \in Seq(Contents)
    <3>1. drafts[d] \in Draft /\ drafts'[d] \in Draft
      BY <2>1 DEF DraftGrows, AuthoringInv, Types
    <3> QED BY <3>1 DEF Draft
  <2>3. IsPrefix(drafts[d].contents, drafts'[d].contents)
    <3>1. /\ Len(drafts[d].contents) <= Len(drafts'[d].contents)
          /\ \A k \in 1 .. Len(drafts[d].contents) :
               drafts'[d].contents[k] = drafts[d].contents[k]
      BY <2>1 DEF DraftGrows
    <3>2. SubSeq(drafts[d].contents, 1, Len(drafts[d].contents))
            = SubSeq(drafts'[d].contents, 1, Len(drafts[d].contents))
      BY <2>2, <3>1
    <3> QED BY <3>1, <3>2 DEF IsPrefix
  <2> QED BY <2>1, <2>3 DEF DraftGrows
<1> QED BY <1>1, AuthoringAlwaysInv, PTL DEF AuthoringSpec, IssuedDraftStays
=============================================================================
