--------------------------- MODULE Replay_proofs ---------------------------
(* The replay loop of refreshLocked computes Project, for every stream a store can hold. *)
EXTENDS Replay, Packet_proofs

(* The loop only ever holds a packet, and the stream it met is a stream of events. *)
THEOREM ReplayTypeOK == Spec => []TypeOK
<1>1. Init => TypeOK
  <2>1. <<>> \in Seq(Event)
    OBVIOUS
  <2> QED BY <2>1, NoPacketType DEF Init, TypeOK
<1>2. TypeOK /\ [Next]_vars => TypeOK'
  <2> SUFFICES ASSUME TypeOK, [Next]_vars
               PROVE  TypeOK'
    OBVIOUS
  <2>1. CASE Next
    <3>1. PICK e \in Event : ReplayEvent(e)
      BY <2>1 DEF Next
    <3>2. stream' \in Seq(Event)
      BY <3>1 DEF ReplayEvent, TypeOK
    <3>3. rebuilt' \in PacketState /\ refused' \in BOOLEAN
      BY <3>1, ApplyEventType DEF ReplayEvent, TypeOK
    <3> QED BY <3>2, <3>3 DEF TypeOK
  <2>2. CASE UNCHANGED vars
    BY <2>2 DEF vars, TypeOK
  <2> QED BY <2>1, <2>2
<1> QED BY <1>1, <1>2, PTL DEF Spec

(* Applying the events of a stream one after another rebuilds the packet Project gives and *)
(* stops at exactly the streams that do not replay: refreshLocked, at every length.        *)
THEOREM ReplayAgrees == Spec => []ReplayIsProject
<1>1. Init => ReplayIsProject
  <2>1. <<>> \in Seq(Event)
    OBVIOUS
  <2>2. Project(<<>>) = NoPacket /\ Replays(<<>>)
    BY <2>1, EmptyStream, ReplaysEmpty
  <2> QED BY <2>2 DEF Init, ReplayIsProject
<1>2. TypeOK /\ ReplayIsProject /\ [Next]_vars => ReplayIsProject'
  <2> SUFFICES ASSUME TypeOK, ReplayIsProject, [Next]_vars
               PROVE  ReplayIsProject'
    OBVIOUS
  <2>1. CASE Next
    <3>1. PICK e \in Event : ReplayEvent(e)
      BY <2>1 DEF Next
    <3>2. /\ stream \in Seq(Event) /\ stream' = Append(stream, e)
          /\ Replays(stream) /\ rebuilt = Project(stream)
      BY <3>1 DEF ReplayEvent, TypeOK, ReplayIsProject
    <3>3. CASE Accepts(rebuilt, e)
      <4>1. Replays(stream') /\ Project(stream') = ApplyEvent(rebuilt, e)
        BY <3>2, <3>3, ReplaysAppend, ProjectAppend
      <4>2. rebuilt' = ApplyEvent(rebuilt, e) /\ ~refused'
        BY <3>1, <3>3 DEF ReplayEvent
      <4> QED BY <4>1, <4>2 DEF ReplayIsProject
    <3>4. CASE ~Accepts(rebuilt, e)
      <4>1. ~Replays(stream')
        BY <3>2, <3>4, ReplaysAppend
      <4>2. refused'
        BY <3>1, <3>4 DEF ReplayEvent
      <4> QED BY <4>1, <4>2 DEF ReplayIsProject
    <3> QED BY <3>3, <3>4
  <2>2. CASE UNCHANGED vars
    BY <2>2 DEF vars, ReplayIsProject
  <2> QED BY <2>1, <2>2
<1> QED BY <1>1, <1>2, ReplayTypeOK, PTL DEF Spec

-----------------------------------------------------------------------------
(* What the packet of a stream remembers of its events. *)
LEMMA PacketRemembers ==
  ASSUME NEW s \in Seq(Event)
  PROVE  /\ Project(s).version = Len(s)
         /\ OfKind(s, "taken") # {} => Project(s).takenBy # None
         /\ OfKind(s, "closed") # {} => Project(s).closure # None
<1>1. \A i \in DOMAIN s : s[i] \in Event
  OBVIOUS
<1>2. None \notin Actors /\ None \notin CloseReasons
  BY NoneAssumption
<1>3. ASSUME OfKind(s, "taken") # {}
      PROVE  Project(s).takenBy # None
  <2>1. PICK i \in OfKind(s, "taken") : Latest(s, "taken", "actor", None) = s[i].actor
    BY <1>3, LatestIsSome
  <2>2. s[i] \in Event /\ s[i].kind = "taken"
    BY <1>1, <2>1 DEF OfKind
  <2>3. s[i].actor \in Actors
    BY <2>2 DEF Event
  <2> QED BY <1>2, <2>1, <2>3 DEF Project
<1>4. ASSUME OfKind(s, "closed") # {}
      PROVE  Project(s).closure # None
  <2>1. PICK i \in OfKind(s, "closed") : Latest(s, "closed", "reason", None) = s[i].reason
    BY <1>4, LatestIsSome
  <2>2. s[i] \in Event /\ s[i].kind = "closed"
    BY <1>1, <2>1 DEF OfKind
  <2>3. s[i].reason \in CloseReasons
    BY <2>2 DEF Event
  <2> QED BY <1>2, <2>1, <2>3 DEF Project
<1> QED BY <1>3, <1>4 DEF Project

(* An accepted event leaves the stream well formed. *)
LEMMA AcceptedStaysWellFormed ==
  ASSUME TypeOK, ReplayIsProject, WellFormedStream, NEW e \in Event, ReplayEvent(e),
         Accepts(rebuilt, e)
  PROVE  WellFormedStream'
<1> DEFINE n == Len(stream)
<1>1. /\ stream \in Seq(Event) /\ n \in Nat /\ stream' = Append(stream, e)
      /\ ~refused /\ rebuilt = Project(stream)
  BY DEF ReplayEvent, TypeOK, ReplayIsProject
<1>2. /\ DOMAIN stream = 1..n /\ DOMAIN stream' = 1..(n + 1)
      /\ \A i \in 1..n : stream'[i] = stream[i]
      /\ stream'[n + 1] = e
  BY <1>1
<1>3. /\ rebuilt.version = n
      /\ OfKind(stream, "taken") # {} => rebuilt.takenBy # None
      /\ OfKind(stream, "closed") # {} => rebuilt.closure # None
  BY <1>1, PacketRemembers
<1>4. /\ OfKind(stream, "issued") = IF stream = <<>> THEN {} ELSE {1}
      /\ \A i, j \in DOMAIN stream :
           i < j => /\ ~(stream[i].kind = "taken" /\ stream[j].kind = "taken")
                    /\ stream[i].kind = "closed" => stream[j].kind = "commented"
  BY <1>1 DEF WellFormedStream
<1>5. OfKind(stream', "issued") = IF stream' = <<>> THEN {} ELSE {1}
  <2>1. stream' # <<>> /\ (stream = <<>> <=> n = 0)
    BY <1>1
  <2>2. OfKind(stream', "issued") =
          IF e.kind = "issued" THEN OfKind(stream, "issued") \cup {n + 1}
          ELSE OfKind(stream, "issued")
    BY <1>1, OfKindAppend
  <2>3. CASE e.kind = "issued"
    <3>1. n = 0
      BY <1>3, <2>3 DEF Accepts
    <3>2. OfKind(stream, "issued") = {} /\ n + 1 = 1
      BY <1>4, <2>1, <3>1
    <3> QED BY <2>1, <2>2, <2>3, <3>2
  <2>4. CASE e.kind # "issued"
    <3>1. n # 0
      BY <1>3, <2>4 DEF Accepts, RequireIssued
    <3> QED BY <1>4, <2>1, <2>2, <2>4, <3>1
  <2> QED BY <2>3, <2>4
<1>6. ASSUME NEW i \in 1..(n + 1), NEW j \in 1..(n + 1), i < j
      PROVE  /\ ~(stream'[i].kind = "taken" /\ stream'[j].kind = "taken")
             /\ stream'[i].kind = "closed" => stream'[j].kind = "commented"
  <2>1. i \in 1..n /\ (j \in 1..n \/ j = n + 1)
    BY <1>1, <1>6
  <2>2. CASE j \in 1..n
    BY <1>2, <1>4, <1>6, <2>1, <2>2
  <2>3. CASE j = n + 1
    <3>1. stream'[i] = stream[i] /\ stream'[j] = e /\ i \in DOMAIN stream
      BY <1>2, <2>1, <2>3
    <3>2. stream[i].kind = "taken" => e.kind # "taken"
      BY <1>3, <3>1 DEF OfKind, Accepts
    <3>3. stream[i].kind = "closed" => e.kind = "commented"
      <4>1. stream[i].kind = "closed" => rebuilt.closure # None /\ rebuilt.version # 0
        <5>1. i \in 1..n => n # 0
          BY <1>1
        <5> QED BY <1>3, <2>1, <3>1, <5>1 DEF OfKind
      <4> QED BY <4>1 DEF Accepts, Open
    <3> QED BY <3>1, <3>2, <3>3
  <2> QED BY <2>1, <2>2, <2>3
<1> QED BY <1>2, <1>5, <1>6 DEF WellFormedStream

(* A stream that replays opens with its one issue, is taken once at most, and gains only   *)
(* comments once it is closed: what applyEvent's guards add up to, at every length.        *)
THEOREM ReplayWellFormed == Spec => []WellFormedStream
<1>1. Init => WellFormedStream
  <2> SUFFICES ASSUME Init PROVE WellFormedStream
    OBVIOUS
  <2>1. stream = <<>> /\ DOMAIN stream = {}
    BY DEF Init
  <2> QED BY <2>1 DEF WellFormedStream, OfKind
<1>2. TypeOK /\ ReplayIsProject /\ WellFormedStream /\ [Next]_vars => WellFormedStream'
  <2> SUFFICES ASSUME TypeOK, ReplayIsProject, WellFormedStream, [Next]_vars
               PROVE  WellFormedStream'
    OBVIOUS
  <2>1. CASE Next
    <3>1. PICK e \in Event : ReplayEvent(e)
      BY <2>1 DEF Next
    <3>2. CASE Accepts(rebuilt, e)
      BY <3>1, <3>2, AcceptedStaysWellFormed
    <3>3. CASE ~Accepts(rebuilt, e)
      BY <3>1, <3>3 DEF ReplayEvent, WellFormedStream
    <3> QED BY <3>2, <3>3
  <2>2. CASE UNCHANGED vars
    BY <2>2 DEF vars, WellFormedStream
  <2> QED BY <2>1, <2>2
<1> QED BY <1>1, <1>2, ReplayTypeOK, ReplayAgrees, PTL DEF Spec

=============================================================================
