------------------------------- MODULE Replay -------------------------------
(***************************************************************************)
(* The loop of refreshLocked over one packet's stream, one event a step:   *)
(* it applies each event to the packet rebuilt so far and gives up at the  *)
(* first event applyEvent refuses.  The stream is whatever the store       *)
(* holds, so any event may come next.                                      *)
(***************************************************************************)
EXTENDS Packet

CONSTANT MaxLength      \* streams longer than this are not explored

ASSUME MaxLengthAssumption == MaxLength \in Nat

VARIABLES
    stream,     \* the events the loop has met
    rebuilt,    \* the packet rebuilt from them
    refused     \* an event was refused: refreshLocked returned its error

vars == <<stream, rebuilt, refused>>

Init ==
    /\ stream = <<>>
    /\ rebuilt = NoPacket
    /\ refused = FALSE

\* Fault: an event applyEvent refuses is skipped and the replay goes on.
ReplayEventSkipping(e) ==
    /\ ~refused
    /\ Len(stream) < MaxLength
    /\ stream' = Append(stream, e)
    /\ rebuilt' = IF Accepts(rebuilt, e) THEN ApplyEvent(rebuilt, e) ELSE rebuilt
    /\ UNCHANGED refused

ReplayEvent(e) ==
    /\ ~refused
    /\ Len(stream) < MaxLength
    /\ stream' = Append(stream, e)
    /\ IF Accepts(rebuilt, e)
       THEN rebuilt' = ApplyEvent(rebuilt, e) /\ UNCHANGED refused
       ELSE refused' = TRUE /\ UNCHANGED rebuilt

Next == \E e \in Event : ReplayEvent(e)

Spec == Init /\ [][Next]_vars

-----------------------------------------------------------------------------
\* The types of the loop; what ReplayIsProject says of them rests on it.
TypeOK ==
    /\ stream \in Seq(Event)
    /\ rebuilt \in PacketState
    /\ refused \in BOOLEAN

\* Applying the events one after another rebuilds exactly the packet the closed form
\* gives, and stops exactly at the streams the closed form says do not replay: the loop
\* of refreshLocked and the projection the rest of the development uses agree.
ReplayIsProject ==
    /\ refused <=> ~Replays(stream)
    /\ ~refused => rebuilt = Project(stream)

\* What a stream applyEvent accepted whole can look like: one issue, at its head, at
\* most one take, and no lifecycle event once a close is in it.
WellFormedStream ==
    ~refused =>
      /\ OfKind(stream, "issued") = IF stream = <<>> THEN {} ELSE {1}
      /\ \A i, j \in DOMAIN stream :
           i < j =>
             /\ ~(stream[i].kind = "taken" /\ stream[j].kind = "taken")
             /\ stream[i].kind = "closed" => stream[j].kind = "commented"

=============================================================================
