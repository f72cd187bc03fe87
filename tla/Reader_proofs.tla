---------------------------- MODULE Reader_proofs ----------------------------
(* What an instance answers from is what it holds, for exports of any life and *)
(* refreshes of any length.                                                    *)
EXTENDS Reader, TLAPS

\* What links the snapshot, the copies and the process: the snapshot is built from the
\* copies; there is one as soon as there is enough to build one from; a process that is up
\* has a directory.
Linked ==
    /\ snapshot # None =>
         snapshot.directory = held.directory /\ snapshot.packets = held.packets
    /\ held.packets # None /\ held.directory # None => snapshot # None
    /\ held.packets = None /\ held.directory # None /\ outcome = "unavailable" =>
         snapshot # None
    /\ Up => held.directory # None

Inv == TypeOK /\ Linked

-----------------------------------------------------------------------------

\* None is neither a copy nor a snapshot, and the answers without an export are no copies.
LEMMA NoneIsNone ==
  /\ None \notin Copies /\ None \notin Snapshots
  /\ Unavailable \notin Copies /\ Failure \notin Copies
  /\ None # Unavailable /\ None # Failure /\ Unavailable # Failure
BY NoneAssumption

\* A refresh brings a copy or nothing of every export.
LEMMA ResultsType ==
  ASSUME NEW results \in Results(AnyAnswers)
  PROVE  /\ \A n \in Exports : results[n] \in Copies \cup {Unavailable, Failure}
         /\ \A n \in Exports : IsCopy(results[n]) <=> results[n] \in Copies
<1> DEFINE Some == Copies \cup {Unavailable, Failure}
<1>1. \A n \in Exports : \A a \in Some : Verify(n, a) \in Some
  BY DEF Verify
<1>2. /\ AnyAnswers.packets \subseteq Some /\ AnyAnswers.directory \subseteq Some
      /\ AnyAnswers.grants \subseteq Some
  BY DEF AnyAnswers
<1>3. \A n \in Exports : results[n] \in Some
  <2>1. PICK p \in {Verify("packets", a) : a \in AnyAnswers.packets},
             d \in {Verify("directory", a) : a \in AnyAnswers.directory},
             g \in {Verify("grants", a) : a \in AnyAnswers.grants} :
          results = [packets |-> p, directory |-> d, grants |-> g]
    BY DEF Results
  <2>2. p \in Some /\ d \in Some /\ g \in Some
    <3> HIDE DEF Some
    <3> QED BY <1>1, <1>2 DEF Exports
  <2> QED BY <2>1, <2>2 DEF Exports
<1> QED BY <1>3, NoneIsNone DEF IsCopy

\* An aged copy is a copy.
LEMMA OlderType ==
  ASSUME NEW c \in {None} \cup Copies
  PROVE  /\ Older(c) \in {None} \cup Copies
         /\ c = None <=> Older(c) = None
         /\ c.indexes = Older(c).indexes \/ c = None
<1>1. CASE c = None
  BY <1>1 DEF Older, IsCopy
<1>2. CASE c \in Copies
  <2>1. Older(c) \in Copies
    <3>1. CASE c.age < Life + Timeout
      <4>1. IsCopy(c) BY <1>2, NoneIsNone DEF IsCopy
      <4>2. Older(c) = [c EXCEPT !.age = c.age + 1] BY <3>1, <4>1 DEF Older
      <4>3. c.age \in Ages /\ c.age + 1 \in Ages
        BY <1>2, <3>1, TicksAssumption DEF Copies, Ages
      <4> QED BY <4>2, <4>3, <1>2 DEF Copies
    <3>2. CASE ~(c.age < Life + Timeout) BY <3>2, <1>2 DEF Older
    <3> QED BY <3>1, <3>2
  <2>2. Older(c).indexes = c.indexes BY <1>2 DEF Older, Copies
  <2> QED BY <2>1, <2>2, <1>2, NoneIsNone
<1> QED BY <1>1, <1>2

-----------------------------------------------------------------------------
(* Every step preserves the invariant. *)

LEMMA InitInv == Init => Inv
<1> SUFFICES ASSUME Init PROVE Inv
  OBVIOUS
<1>1. TypeOK
  <2>1. held \in [Exports -> {None} \cup Copies] BY DEF Init
  <2>2. /\ since \in 0 .. Timeout /\ phase \in Phases
        /\ outcome \in {"none", "held", "unavailable", "failed"}
        /\ snapshot \in {None} \cup Snapshots /\ site \in {None} \cup 0 .. Life
    BY TicksAssumption DEF Init, Phases
  <2>3. /\ probed \in BOOLEAN /\ (probed => Up)
        /\ served \in BOOLEAN /\ (Starting => served) /\ (served => phase # "down")
    BY DEF Init, Starting
  <2> QED BY <2>1, <2>2, <2>3 DEF TypeOK
<1>2. Linked
  BY DEF Init, Linked, Up, Exports
<1> QED BY <1>1, <1>2 DEF Inv

\* What a refresh makes of the copies and the snapshot.
LEMMA RefreshLinks ==
  ASSUME Inv, NEW results \in Results(AnyAnswers),
         held' = [n \in Exports |-> IF Accepted(n, results) THEN results[n] ELSE held[n]],
         outcome' = IF Accepted("packets", results) THEN "held"
                    ELSE IF results.packets = Unavailable THEN "unavailable" ELSE "failed",
         snapshot' = NextSnapshot(results)
  PROVE  /\ held' \in [Exports -> {None} \cup Copies]
         /\ outcome' \in {"none", "held", "unavailable", "failed"}
         /\ snapshot' \in {None} \cup Snapshots
         /\ \A n \in Exports : held[n] # None => held'[n] # None
         /\ snapshot' # None =>
              snapshot'.directory = held'.directory /\ snapshot'.packets = held'.packets
         /\ held'.packets # None /\ held'.directory # None => snapshot' # None
         /\ held'.packets = None /\ held'.directory # None /\ outcome' = "unavailable" =>
              snapshot' # None
<1> DEFINE candidate == Candidate(results)
<1>1. /\ held.packets \in {None} \cup Copies /\ held.directory \in {None} \cup Copies
      /\ held.grants \in {None} \cup Copies
      /\ snapshot \in {None} \cup Snapshots
  BY DEF Inv, TypeOK, Exports
<1>2. \A n \in Exports : /\ results[n] \in Copies \cup {Unavailable, Failure}
                         /\ IsCopy(results[n]) <=> results[n] \in Copies
  BY ResultsType
<1>3. /\ candidate.packets = IF IsCopy(results.packets) THEN results.packets ELSE held.packets
      /\ candidate.directory =
           IF IsCopy(results.directory) THEN results.directory ELSE held.directory
  BY DEF Candidate, Exports
<1>4. /\ candidate.packets \in {None} \cup Copies /\ candidate.directory \in {None} \cup Copies
  BY <1>1, <1>2, <1>3 DEF Exports
<1>5. /\ held'.packets = IF Accepted("packets", results) THEN results.packets ELSE held.packets
      /\ held'.directory =
           IF Accepted("directory", results) THEN results.directory ELSE held.directory
  BY DEF Exports
<1>6. held' \in [Exports -> {None} \cup Copies]
  <2>1. \A n \in Exports : Accepted(n, results) => results[n] \in Copies
    BY <1>2 DEF Accepted
  <2> QED BY <2>1 DEF Inv, TypeOK
<1>7. \A n \in Exports : held[n] # None => held'[n] # None
  BY <1>2, NoneIsNone DEF Accepted
<1>8. outcome' \in {"none", "held", "unavailable", "failed"}
  OBVIOUS
<1>9. CASE Unbuildable(candidate)
  <2>1. held'.packets = held.packets /\ held'.directory = held.directory
    BY <1>5, <1>9 DEF Accepted
  <2>2. snapshot' = IF held.packets = None THEN None ELSE snapshot
    BY <1>9 DEF NextSnapshot, Unbuildable, HasBoth
  <2>3. ~(held'.packets = None /\ outcome' = "unavailable")
    <3>1. candidate.packets # None BY <1>9 DEF Unbuildable, HasBoth
    <3>2. held.packets = None => IsCopy(results.packets) BY <3>1, <1>3
    <3>3. IsCopy(results.packets) => results.packets # Unavailable BY DEF IsCopy
    <3>4. outcome' = "unavailable" => results.packets = Unavailable OBVIOUS
    <3> QED BY <2>1, <3>2, <3>3, <3>4
  <2> QED BY <2>1, <2>2, <2>3, <1>1, <1>6, <1>7, <1>8 DEF Inv, Linked
<1>10. CASE ~Unbuildable(candidate)
  <2>1. held'.packets = candidate.packets /\ held'.directory = candidate.directory
    BY <1>3, <1>5, <1>10 DEF Accepted
  <2>2. CASE HasBoth(candidate)
    <3>1. snapshot' = NewSnapshot(candidate)
      BY <2>2, <1>10 DEF NextSnapshot, Unbuildable, HasBoth
    <3>2. /\ snapshot' \in Snapshots /\ snapshot'.packets = candidate.packets
          /\ snapshot'.directory = candidate.directory
      BY <3>1, <2>2, <1>4 DEF NewSnapshot, Snapshots, HasBoth
    <3> QED BY <3>2, <2>1, <2>2, <1>6, <1>7, <1>8, NoneIsNone DEF HasBoth
  <2>3. CASE candidate.directory # None /\ candidate.packets = None
    <3>1. snapshot' = IF results.packets = Unavailable THEN NewEmptySnapshot(candidate)
                      ELSE None
      BY <2>3 DEF NextSnapshot, Unbuildable, HasBoth
    <3>2. /\ NewEmptySnapshot(candidate) \in Snapshots
          /\ NewEmptySnapshot(candidate).packets = None
          /\ NewEmptySnapshot(candidate).directory = candidate.directory
      BY <2>3, <1>4 DEF NewEmptySnapshot, Snapshots
    <3>3. outcome' = "unavailable" => results.packets = Unavailable
      OBVIOUS
    <3> QED BY <3>1, <3>2, <3>3, <2>1, <2>3, <1>6, <1>7, <1>8, NoneIsNone
  <2>4. CASE candidate.directory = None
    <3>1. snapshot' = snapshot
      BY <2>4 DEF NextSnapshot, Unbuildable, HasBoth
    <3>2. held.directory = None
      BY <2>4, <1>2, <1>3, NoneIsNone DEF Exports
    <3>3. snapshot = None
      BY <3>2, <1>1, NoneIsNone DEF Inv, Linked, Snapshots
    <3> QED BY <3>1, <3>3, <2>1, <2>4, <1>6, <1>7, <1>8
  <2> QED BY <2>2, <2>3, <2>4 DEF HasBoth
<1> QED BY <1>9, <1>10

LEMMA InstallInv == ASSUME Inv, Install(AnyAnswers) PROVE Inv'
<1>1. PICK results \in Results(AnyAnswers) :
        /\ held' = [n \in Exports |-> IF Accepted(n, results) THEN results[n] ELSE held[n]]
        /\ outcome' = IF Accepted("packets", results) THEN "held"
                      ELSE IF results.packets = Unavailable THEN "unavailable"
                      ELSE "failed"
        /\ snapshot' = NextSnapshot(results)
  BY DEF Install
<1>2. /\ held' \in [Exports -> {None} \cup Copies]
      /\ outcome' \in {"none", "held", "unavailable", "failed"}
      /\ snapshot' \in {None} \cup Snapshots
      /\ \A n \in Exports : held[n] # None => held'[n] # None
      /\ snapshot' # None =>
           snapshot'.directory = held'.directory /\ snapshot'.packets = held'.packets
      /\ held'.packets # None /\ held'.directory # None => snapshot' # None
      /\ held'.packets = None /\ held'.directory # None /\ outcome' = "unavailable" =>
           snapshot' # None
  BY <1>1, RefreshLinks
<1>3. /\ phase \in {"starting", "refreshing"} /\ served
      /\ phase' = IF phase = "starting" THEN "judging" ELSE "idle"
      /\ UNCHANGED <<probed, served, since, site>>
  BY DEF Install
<1>4. TypeOK'
  <2>1. /\ phase' \in Phases /\ phase' # "down" /\ (probed' => Up')
    BY <1>3 DEF Inv, TypeOK, Phases, Up
  <2> QED BY <1>2, <1>3, <2>1 DEF Inv, TypeOK
<1>5. Up' => held'.directory # None
  BY <1>2, <1>3 DEF Inv, Linked, Exports, Up
<1> QED BY <1>2, <1>4, <1>5 DEF Inv, Linked

LEMMA TickInv == ASSUME Inv, Tick PROVE Inv'
<1>1. /\ \A n \in Exports : held[n] \in {None} \cup Copies
      /\ \A n \in Exports : held'[n] = Older(held[n])
      /\ held' = [n \in Exports |-> Older(held[n])]
      /\ snapshot \in {None} \cup Snapshots
  BY DEF Inv, TypeOK, Tick
<1>2. /\ held' \in [Exports -> {None} \cup Copies]
      /\ \A n \in Exports : held[n] = None <=> held'[n] = None
  BY <1>1, OlderType
<1>3. /\ snapshot' \in {None} \cup Snapshots
      /\ snapshot' = None <=> snapshot = None
      /\ snapshot' # None =>
           snapshot'.directory = held'.directory /\ snapshot'.packets = held'.packets
  <2>1. CASE snapshot = None
    BY <2>1 DEF Tick
  <2>2. CASE snapshot \in Snapshots /\ snapshot # None
    <3>1. snapshot' = [packets |-> Older(snapshot.packets),
                       directory |-> Older(snapshot.directory)]
      BY <2>2 DEF Tick
    <3>2. /\ snapshot.packets \in {None} \cup Copies /\ snapshot.directory \in Copies
          /\ snapshot.packets = held.packets /\ snapshot.directory = held.directory
      BY <2>2 DEF Inv, Linked, Snapshots
    <3>3. Older(snapshot.packets) \in {None} \cup Copies /\ Older(snapshot.directory) \in Copies
      BY <3>2, OlderType, NoneIsNone
    <3>4. snapshot' \in Snapshots
      BY <3>1, <3>3 DEF Snapshots
    <3> QED BY <3>1, <3>2, <3>4, <2>2, <1>1, NoneIsNone DEF Exports
  <2> QED BY <2>1, <2>2, <1>1
<1>4. since' \in 0 .. Timeout /\ site' \in {None} \cup 0 .. Life
  BY TicksAssumption DEF Inv, TypeOK, Tick
<1>5. UNCHANGED <<phase, probed, served, outcome>>
  BY DEF Tick
<1>6. TypeOK'
  BY <1>2, <1>3, <1>4, <1>5 DEF Inv, TypeOK, Up, Starting
<1>7. Linked'
  BY <1>2, <1>3, <1>5 DEF Inv, Linked, Up, Exports
<1> QED BY <1>6, <1>7 DEF Inv

LEMMA ForgetInv == ASSUME Inv, Forget PROVE Inv'
<1>1. TypeOK'
  <2>1. held' \in [Exports -> {None} \cup Copies] BY DEF Forget
  <2>2. /\ since' \in 0 .. Timeout /\ phase' \in Phases
        /\ outcome' \in {"none", "held", "unavailable", "failed"}
        /\ snapshot' \in {None} \cup Snapshots /\ site' \in {None} \cup 0 .. Life
    BY TicksAssumption DEF Inv, TypeOK, Forget, Phases
  <2>3. /\ probed' \in BOOLEAN /\ (probed' => Up')
        /\ served' \in BOOLEAN /\ (Starting' => served') /\ (served' => phase' # "down")
    BY DEF Forget, Starting
  <2> QED BY <2>1, <2>2, <2>3 DEF TypeOK
<1>2. Linked'
  BY DEF Linked, Forget, Up, Exports
<1> QED BY <1>1, <1>2 DEF Inv

LEMMA InvNext == Inv /\ [Next]_vars => Inv'
<1> SUFFICES ASSUME Inv, [Next]_vars PROVE Inv'
  OBVIOUS
<1> USE DEF processVars, copyVars
<1>1. CASE Install(AnyAnswers) BY <1>1, InstallInv
<1>2. CASE Tick BY <1>2, TickInv
<1>3. CASE Refuse \/ Stop \/ ProbeFails BY <1>3, ForgetInv DEF Refuse, Stop, ProbeFails
<1>4. CASE Start
  <2>1. TypeOK' BY <1>4, TicksAssumption DEF Start, Inv, TypeOK, Phases, Up, Starting
  <2>2. Linked' BY <1>4 DEF Start, Inv, Linked, Up
  <2> QED BY <2>1, <2>2 DEF Inv
<1>5. CASE Begin \/ Renew
  <2>1. /\ phase = "idle" /\ phase' = "refreshing" /\ since' = 0
        /\ site' \in {0, site} /\ UNCHANGED <<probed, served, copyVars>>
    BY <1>5 DEF Begin, Renew
  <2>2. TypeOK' BY <2>1, TicksAssumption DEF Inv, TypeOK, Phases, Up, Starting
  <2>3. Linked' BY <2>1 DEF Inv, Linked, Up
  <2> QED BY <2>2, <2>3 DEF Inv
<1>6. CASE Accept
  <2>1. TypeOK' BY <1>6 DEF Accept, Inv, TypeOK, Phases, Up, Starting
  <2>2. held.directory # None BY <1>6 DEF Accept, Ready, IsFresh
  <2>3. Linked' BY <1>6, <2>2 DEF Accept, Inv, Linked
  <2> QED BY <2>1, <2>3 DEF Inv
<1>7. CASE Visit \/ VisitEnds \/ ProbePasses
  <2>1. /\ UNCHANGED <<phase, since, copyVars, site>> /\ Up /\ probed' = TRUE
        /\ served' \in BOOLEAN
    BY <1>7 DEF Visit, VisitEnds, ProbePasses, Inv, TypeOK
  <2>2. TypeOK' BY <2>1 DEF Inv, TypeOK, Up, Starting
  <2>3. Linked' BY <2>1 DEF Inv, Linked, Up
  <2> QED BY <2>2, <2>3 DEF Inv
<1>8. CASE Released
  <2>1. TypeOK'
    <3>1. site' \in {None} \cup 0 .. Life BY <1>8, TicksAssumption DEF Released
    <3> QED BY <1>8, <3>1 DEF Released, Inv, TypeOK, Up, Starting
  <2>2. Linked' BY <1>8 DEF Released, Inv, Linked, Up
  <2> QED BY <2>1, <2>2 DEF Inv
<1>9. CASE UNCHANGED vars
  BY <1>9 DEF vars, Inv, TypeOK, Linked, Up, Starting
<1> QED BY <1>1, <1>2, <1>3, <1>4, <1>5, <1>6, <1>7, <1>8, <1>9 DEF Next

LEMMA ReaderInv == Spec => []Inv
<1> QED BY InitInv, InvNext, PTL DEF Spec

-----------------------------------------------------------------------------

\* The reader's variables keep their types.
THEOREM ReaderTypeOK == Spec => []TypeOK
<1>1. Inv => TypeOK BY DEF Inv
<1> QED BY <1>1, ReaderInv, PTL

\* Refresh (runtimeexport/reader.go) never lets the snapshot and the held copies diverge,
\* and a process that is up and holds packets has a snapshot of them.
THEOREM SnapshotIsAlwaysHeld == Spec => []SnapshotIsHeld
<1>1. Inv => SnapshotIsHeld
  BY DEF Inv, Linked, SnapshotIsHeld
<1> QED BY <1>1, ReaderInv, PTL

\* Ready (runtimeexport/reader.go) implies what the construction of the service asks for.
THEOREM ReadyAlwaysHasSnapshot == Spec => []ReadyHasSnapshot
<1>1. Inv => ReadyHasSnapshot
  BY DEF Inv, Linked, ReadyHasSnapshot, Ready, IsFresh
<1> QED BY <1>1, ReaderInv, PTL

\* What the health route (surface/handler.go) reports from the copies is true of the
\* snapshot a read is answered from (surface/view.go).
THEOREM HealthyAlwaysAnswers == Spec => []HealthyAnswers
<1>1. Inv => HealthyAnswers
  <2> SUFFICES ASSUME Inv, Up, Healthy PROVE Answered
    BY DEF HealthyAnswers
  <2>1. /\ snapshot # None
        /\ snapshot.directory = held.directory /\ snapshot.packets = held.packets
    BY DEF Inv, Linked, Healthy
  <2>2. ~Stale("packets") /\ ~Stale("directory")
    BY DEF Healthy, Exports
  <2>3. held.directory # None
    BY DEF Inv, Linked
  <2>4. held.directory.age \in Int /\ (held.packets # None => held.packets.age \in Int)
    <3>1. /\ held.directory \in {None} \cup Copies /\ held.packets \in {None} \cup Copies
      BY DEF Inv, TypeOK, Exports
    <3>2. \A c \in Copies : c.age \in Int
      BY TicksAssumption DEF Copies, Ages
    <3> QED BY <3>1, <3>2, <2>3
  <2> QED BY <2>1, <2>2, <2>3, <2>4, TicksAssumption DEF Stale, Answered
<1> QED BY <1>1, ReaderInv, PTL

\* No refresh takes packets that were shown away.
THEOREM PacketsAlwaysStayShown == Spec => PacketsStayShown
<1> DEFINE Kept == Up /\ Up' /\ snapshot # None /\ held.packets # None
                     => snapshot' # None /\ snapshot'.packets # None
<1>1. Inv /\ Inv' /\ [Next]_vars => [Kept]_vars
  <2> SUFFICES ASSUME Inv, Inv', [Next]_vars, Up, Up', snapshot # None, held.packets # None
               PROVE  snapshot' # None /\ snapshot'.packets # None
    OBVIOUS
  <2>1. held'.packets # None
    <3>1. CASE Install(AnyAnswers)
      <4>1. PICK results \in Results(AnyAnswers) :
              held' = [n \in Exports |->
                         IF Accepted(n, results) THEN results[n] ELSE held[n]]
        BY <3>1 DEF Install
      <4>2. Accepted("packets", results) => results.packets # None
        BY DEF Accepted, IsCopy
      <4> QED BY <4>1, <4>2 DEF Exports
    <3>2. CASE Tick
      <4>1. held'.packets = Older(held.packets) /\ held.packets \in {None} \cup Copies
        BY <3>2 DEF Tick, Inv, TypeOK, Exports
      <4> QED BY <4>1, OlderType
    <3>3. CASE Refuse \/ Stop \/ ProbeFails
      BY <3>3 DEF Refuse, Stop, ProbeFails, Forget, Up
    <3>4. CASE \/ Start \/ Visit \/ VisitEnds \/ Begin \/ Accept \/ ProbePasses
               \/ Renew \/ Released \/ UNCHANGED vars
      <4>1. held' = held
        BY <3>4 DEF Start, Visit, VisitEnds, Begin, Accept, ProbePasses, Renew, Released,
             vars, copyVars
      <4> QED BY <4>1
    <3> QED BY <3>1, <3>2, <3>3, <3>4 DEF Next
  <2>2. held'.directory # None BY DEF Inv, Linked
  <2> QED BY <2>1, <2>2 DEF Inv, Linked
<1> QED BY <1>1, ReaderInv, PTL DEF Spec, PacketsStayShown

=============================================================================
