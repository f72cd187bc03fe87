------------------------------- MODULE Export -------------------------------
(***************************************************************************)
(* Building an export of the packets (packetexport/export.go) for a        *)
(* publication (packetpublisher/publisher.go, build) while other instances *)
(* go on changing the ledger, and what the surface says of a record        *)
(* (surface/view.go).                                                      *)
(*                                                                         *)
(* A build reads three things: the live export, the repository's own       *)
(* export, and the ledger, and the ledger in several calls: all packets    *)
(* once, then the history of each.  A history is represented by the packet *)
(* it replays to.  A record taken from the live export or the repository's *)
(* is represented by where it came from.  The repository's export is       *)
(* another program's: what it names is chosen when the build is released.  *)
(* One build runs at a time, and only its release changes the live export: *)
(* what rivals and deploys do to it is module Publication's.               *)
(***************************************************************************)
EXTENDS PacketLedger

VARIABLES
    live,           \* where the records of the live export came from
    build           \* the build under way

exportVars == <<packets, live, build>>

\* Where a record of the live export is from: the repository's, or an earlier ledger.
Origins == {"repository", "app"}

\* A build that listed the packets.  A history not read yet is NoPacket.
Build == [listed : [PacketIDs -> PacketState], history : [PacketIDs -> PacketState]]

NoBuild == <<>>

ExportInit ==
    /\ Init
    /\ live = [p \in {} |-> "app"]
    /\ build = NoBuild

LedgerChanges == Next /\ UNCHANGED <<live, build>>

\* Tracker.Packets.
List ==
    /\ build = NoBuild
    /\ build' = [listed |-> packets, history |-> [p \in PacketIDs |-> NoPacket]]
    /\ UNCHANGED <<packets, live>>

Listed(b) == {p \in PacketIDs : b.listed[p].version # 0}

Unread(b) == {p \in Listed(b) : b.history[p] = NoPacket}

\* Tracker.History of one packet.
ReadHistory(p) ==
    /\ build # NoBuild /\ p \in Unread(build)
    /\ build' = [build EXCEPT !.history[p] = packets[p]]
    /\ UNCHANGED <<packets, live>>

\* Fault: of two records of one packet the earlier one stands.
ReconcileKeeping(earlier, later) ==
    [p \in DOMAIN earlier \cup DOMAIN later |->
       IF p \in DOMAIN earlier THEN earlier[p] ELSE later[p]]

\* Of two records of one packet the second one stands.
Reconcile(earlier, later) ==
    [p \in DOMAIN earlier \cup DOMAIN later |->
       IF p \in DOMAIN later THEN later[p] ELSE earlier[p]]

\* Where the records of the export come from, given the packets the repository has.
Exported(b, repository) ==
    Reconcile(Reconcile(live, [p \in repository |-> "repository"]),
              [p \in Listed(b) |-> "listed"])

\* Fault: records are not compared with their histories.
ValidateNothing(b) == TRUE

\* The record of each packet has as many events as its version says.
ValidateRecords(b) == \A p \in Listed(b) : b.history[p].version = b.listed[p].version

\* The export is built and verifies.
Verified(b) == b # NoBuild /\ Unread(b) = {} /\ ValidateRecords(b)

Release ==
    /\ Verified(build)
    /\ \E repository \in SUBSET PacketIDs :
         live' = [p \in DOMAIN Exported(build, repository) |->
                    IF Exported(build, repository)[p] = "listed" THEN "app"
                    ELSE Exported(build, repository)[p]]
    /\ build' = NoBuild
    /\ UNCHANGED packets

\* A read fails, the records do not verify, or the release fails.
BuildFails ==
    /\ build # NoBuild
    /\ build' = NoBuild
    /\ UNCHANGED <<packets, live>>

ExportNext ==
    \/ LedgerChanges
    \/ List \/ (\E p \in PacketIDs : ReadHistory(p)) \/ Release \/ BuildFails

ExportSpec == ExportInit /\ [][ExportNext]_exportVars

-----------------------------------------------------------------------------
(* What the surface says of a packet. *)

\* Fault: a superseded packet is offered as work.
IsUnclaimedStill(pkt) == pkt.status = NotStarted /\ pkt.takenBy = None

IsUnclaimed(pkt) ==
    /\ pkt.status = NotStarted
    /\ pkt.takenBy = None
    /\ pkt.supersededBy = None

-----------------------------------------------------------------------------
(* Properties. *)

\* The ledger packets the export names, as it shows them.
Shown(b, repository) ==
    [p \in {q \in DOMAIN Exported(b, repository) : Exported(b, repository)[q] = "listed"} |->
       b.listed[p]]

\* An export that verifies shows the ledger of one moment, although its records were read
\* one after another while the ledger changed: every packet issued at that moment with its
\* record, each record with the history that leads to it, the links of supersession in
\* both directions, and no record an earlier export had of a packet of the ledger.
ExportIsAMoment ==
    Verified(build) => \A repository \in SUBSET PacketIDs :
      LET shown == Shown(build, repository)
      IN  /\ \A p \in DOMAIN shown : shown[p] = build.history[p]
          /\ \A p, q \in DOMAIN shown : shown[p].supersededBy = q <=> shown[q].parent = p
          /\ \A p \in DOMAIN shown :
               {shown[p].supersededBy, shown[p].parent} \subseteq DOMAIN shown \cup {None}
          /\ \A p \in DOMAIN live : live[p] = "app" => p \in DOMAIN shown

\* What the surface offers as unclaimed is what can be taken: the rule of the summaries,
\* which never looks at a packet's closure, and the rules of the ledger, which never look
\* at the link, agree on every packet.
UnclaimedIsTakeable ==
    \A p \in PacketIDs :
      IsUnclaimed(packets[p]) <=>
        /\ Issued(p) /\ Open(packets[p])
        /\ packets[p].takenBy = None /\ packets[p].status = NotStarted

=============================================================================
