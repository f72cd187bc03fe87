------------------------------- MODULE Reader -------------------------------
(***************************************************************************)
(* The copies of the public exports an instance holds and the snapshot it  *)
(* answers from (runtimeexport/reader.go, surface/view.go), from startup,  *)
(* which may be refused and which the platform's startup probe of /healthz *)
(* may end (infra/deploy/main.tf), through refreshes to a stop.            *)
(*                                                                         *)
(* Only ages are modelled of an export: a copy is identified by the ticks  *)
(* since it was published, and by whether a snapshot can be built from it. *)
(* The sites answer each fetch as they like, with any copy or none.  A     *)
(* process has a processor while it starts and while a request is in       *)
(* service; otherwise it waits, for any time, also in the middle of a      *)
(* refresh.                                                                *)
(***************************************************************************)
EXTENDS Integers

CONSTANTS
    Life,           \* ticks an export is fresh
    Timeout,        \* ticks a startup takes, and ticks a refresh takes of its processor
    None,           \* no copy, no snapshot
    Unavailable,    \* the answer that there is no export
    Failure,        \* any other answer that is no export
    Fresh           \* age of what a refresh that goes well installs of an authority, at most

ASSUME TicksAssumption ==
    /\ Life \in Nat /\ Timeout \in Nat /\ Fresh \in Nat
    /\ Fresh + Timeout < Life

VARIABLES
    phase,          \* where the process is
    probed,         \* the startup probe has found the process healthy
    served,         \* the process has a processor
    since,          \* ticks since the last refresh began, as far as they are counted
    held,           \* the copy held of each export
    outcome,        \* what the last refresh said of the packets
    snapshot,       \* the snapshot, or None
    site            \* the age of the export on the packets' site, or None

processVars == <<phase, probed, served, since>>
copyVars    == <<held, outcome, snapshot>>
vars == <<processVars, copyVars, site>>

Exports == {"packets", "directory", "grants"}

Phases == {"down", "starting", "judging", "idle", "refreshing"}

Up == phase \in {"idle", "refreshing"}

\* Startup lasts until the probe passes.
Starting == phase # "down" /\ ~probed

\* A copy of age Life or more is stale: later ages are one age, except that a refresh
\* judges a copy as of its own beginning.
Ages == 0 .. Life + Timeout

Copies == [age : Ages, indexes : BOOLEAN]

IsCopy(x) == x \notin {None, Unavailable, Failure}

Snapshots == [packets : {None} \cup Copies, directory : Copies]

\* What stands for a copy, a snapshot or an answer is none of them.
ASSUME NoneAssumption ==
    /\ {None, Unavailable, Failure} \cap Copies = {}
    /\ None \notin Snapshots /\ None # Unavailable /\ None # Failure /\ Unavailable # Failure

Init ==
    /\ phase = "down" /\ probed = FALSE /\ served = FALSE /\ since = 0
    /\ held = [n \in Exports |-> None]
    /\ outcome = "none" /\ snapshot = None
    /\ site = None

-----------------------------------------------------------------------------
(* One fetch. *)

\* What the sites may answer.  Why an authority has no export makes no difference.
AnyAnswers ==
    LET indexed == {c \in Copies : c.indexes}
    IN  [packets   |-> Copies \cup {Failure, Unavailable},
         directory |-> indexed \cup {Failure},
         grants    |-> indexed \cup {Failure}]

\* What they answer when all is well with them: the authorities publish in time.
GoodAnswers ==
    LET fresh == [age : 0 .. Fresh, indexes : {TRUE}]
    IN  [packets   |-> {IF site = None THEN Unavailable ELSE [age |-> site, indexes |-> TRUE]},
         directory |-> fresh,
         grants    |-> fresh]

\* Not expired as of the beginning of the refresh (contract.Verify).
Passes(copy) == copy.age - since < Life

\* Fault: the packets too are refused when they have expired.
VerifyFresh(n, answer) == IF IsCopy(answer) /\ ~Passes(answer) THEN Failure ELSE answer

\* The service's own packets have to be intact only.
Verify(n, answer) ==
    IF IsCopy(answer) /\ n # "packets" /\ ~Passes(answer) THEN Failure ELSE answer

\* What the fetches of one refresh bring.
Results(answers) ==
    {[packets |-> p, directory |-> d, grants |-> g] :
       p \in {Verify("packets", a) : a \in answers.packets},
       d \in {Verify("directory", a) : a \in answers.directory},
       g \in {Verify("grants", a) : a \in answers.grants}}

-----------------------------------------------------------------------------
(* One refresh. *)

Candidate(results) ==
    [n \in Exports |-> IF IsCopy(results[n]) THEN results[n] ELSE held[n]]

HasBoth(candidate) == candidate.packets # None /\ candidate.directory # None

\* A packet's id does not name initiative, epic and task: there is no snapshot.
Unbuildable(candidate) == HasBoth(candidate) /\ ~candidate.packets.indexes

\* Fault: a copy that verifies is held, whether or not a snapshot can be built from it.
AcceptedAlone(n, results) == IsCopy(results[n])

\* When no snapshot can be built the packets and the directory both count as failed.
Accepted(n, results) ==
    /\ IsCopy(results[n])
    /\ Unbuildable(Candidate(results)) => n = "grants"

NewSnapshot(candidate) ==
    [packets |-> candidate.packets, directory |-> candidate.directory]

NewEmptySnapshot(candidate) == [packets |-> None, directory |-> candidate.directory]

\* Fault: the last snapshot is dropped when no new one can be built.
NextSnapshotOrNone(results) ==
    LET candidate == Candidate(results)
    IN  IF HasBoth(candidate) /\ candidate.packets.indexes
          THEN NewSnapshot(candidate)
        ELSE IF candidate.directory # None /\ results.packets = Unavailable
          THEN NewEmptySnapshot(candidate)
        ELSE None

\* Fault: nobody asks whether there is a directory to build the empty snapshot from.
NextSnapshotEmpty(results) ==
    LET candidate == Candidate(results)
    IN  IF HasBoth(candidate) /\ candidate.packets.indexes
          THEN NewSnapshot(candidate)
        ELSE IF candidate.packets = None /\ results.packets = Unavailable
          THEN NewEmptySnapshot(candidate)
        ELSE snapshot

NextSnapshot(results) ==
    LET candidate == Candidate(results)
    IN  CASE HasBoth(candidate) /\ candidate.packets.indexes ->
               NewSnapshot(candidate)
          [] Unbuildable(candidate) ->
               IF held.packets = None THEN None ELSE snapshot
          [] candidate.directory # None /\ candidate.packets = None ->
               IF results.packets = Unavailable
               THEN NewEmptySnapshot(candidate)
               ELSE None
          [] OTHER -> snapshot

\* The fetches have all answered: what verified is held, all at once.
Install(answers) ==
    /\ phase \in {"starting", "refreshing"} /\ served
    /\ \E results \in Results(answers) :
         /\ held' = [n \in Exports |->
                       IF Accepted(n, results) THEN results[n] ELSE held[n]]
         /\ outcome' = IF Accepted("packets", results) THEN "held"
                       ELSE IF results.packets = Unavailable THEN "unavailable"
                       ELSE "failed"
         /\ snapshot' = NextSnapshot(results)
    /\ phase' = IF phase = "starting" THEN "judging" ELSE "idle"
    /\ UNCHANGED <<probed, served, since, site>>

-----------------------------------------------------------------------------
(* The process. *)

\* A visitor comes, to a process that is started for the request or to one in service.
Start ==
    /\ phase = "down"
    /\ phase' = "starting" /\ served' = TRUE /\ since' = 0
    /\ UNCHANGED <<probed, copyVars, site>>

Visit ==
    /\ probed /\ ~served /\ served' = TRUE
    /\ UNCHANGED <<phase, probed, since, copyVars, site>>

VisitEnds ==
    /\ probed /\ served /\ served' = FALSE
    /\ UNCHANGED <<phase, probed, since, copyVars, site>>

\* A refresh the ticker or the publisher of an issue orders.
Begin ==
    /\ phase = "idle" /\ served
    /\ phase' = "refreshing" /\ since' = 0
    /\ UNCHANGED <<probed, served, copyVars, site>>

\* The renewal check releases the packets anew and orders a refresh.
Renew ==
    /\ phase = "idle" /\ served /\ held.packets # None
    /\ phase' = "refreshing" /\ since' = 0
    /\ site' = 0
    /\ UNCHANGED <<probed, served, copyVars>>

\* A release of someone else's, or of an earlier process.
Released ==
    /\ site' = 0
    /\ UNCHANGED <<processVars, copyVars>>

IsFresh(copy) == copy # None /\ copy.age < Life

\* Fault: nobody asks why the packets are missing.
ReadyAnyhow == IsFresh(held.directory) /\ IsFresh(held.grants)

Ready ==
    /\ IsFresh(held.directory) /\ IsFresh(held.grants)
    /\ held.packets # None \/ outcome = "unavailable"

Accept ==
    /\ phase = "judging" /\ Ready
    /\ phase' = "idle"
    /\ UNCHANGED <<probed, served, since, copyVars, site>>

Forget ==
    /\ phase' = "down" /\ probed' = FALSE /\ served' = FALSE /\ since' = 0
    /\ held' = [n \in Exports |-> None]
    /\ outcome' = "none" /\ snapshot' = None
    /\ UNCHANGED site

Refuse == phase = "judging" /\ ~Ready /\ Forget

\* The platform stops a process.
Stop == phase # "down" /\ Forget

Older(copy) ==
    IF IsCopy(copy) /\ copy.age < Life + Timeout THEN [copy EXCEPT !.age = @ + 1] ELSE copy

-----------------------------------------------------------------------------
(* What the surface answers. *)

\* Fault: the packets' age is not looked at.
StalePolitely(n) == n # "packets" /\ held[n] # None /\ held[n].age >= Life

Stale(n) == held[n] # None /\ held[n].age >= Life

\* Only the packets may be missing, and only if their site says so.
Absent(n) == n = "packets" /\ held[n] = None /\ outcome = "unavailable"

Healthy ==
    /\ snapshot # None
    /\ \A n \in Exports : ~Stale(n) /\ (held[n] = None => Absent(n))

\* A tenant's read is not refused because of an export.
Answered ==
    /\ snapshot # None
    /\ snapshot.directory.age < Life
    /\ snapshot.packets # None => snapshot.packets.age < Life

-----------------------------------------------------------------------------
(* The startup probe, and time. *)

ProbePasses ==
    /\ Up /\ ~probed /\ Healthy
    /\ probed' = TRUE
    /\ UNCHANGED <<phase, served, since, copyVars, site>>

\* The platform has waited long enough for /healthz, and ends the process.
ProbeFails == Up /\ ~probed /\ ~Healthy /\ Forget

\* Time passes; a startup is not kept waiting for its processor.
Tick ==
    /\ Starting => since < Timeout
    /\ since' = IF since < Timeout THEN since + 1 ELSE since
    /\ held' = [n \in Exports |-> Older(held[n])]
    /\ snapshot' = IF snapshot = None THEN None
                   ELSE [packets |-> Older(snapshot.packets),
                         directory |-> Older(snapshot.directory)]
    /\ site' = IF site # None /\ site < Life THEN site + 1 ELSE site
    /\ UNCHANGED <<phase, probed, served, outcome>>

Next ==
    \/ Start \/ Visit \/ VisitEnds \/ Stop
    \/ Begin \/ Install(AnyAnswers) \/ Accept \/ Refuse
    \/ ProbePasses \/ ProbeFails
    \/ Renew \/ Released \/ Tick

Spec == Init /\ [][Next]_vars

\* The premise of recovery: a process has a request in service again and again, or is
\* started for one.  Nothing in the code sees to that.
VisitorsKeepComing == []<>served

\* In the end a process that starts is stopped by nobody but itself and the probe.
StartsLeftAlone == <>[][Starting /\ phase' = "down" => Refuse \/ ProbeFails]_vars

\* A process that has a processor again and again goes on with its startup and its refreshes,
\* and now and then the sites all answer well.
Proceeds == SF_vars(Begin) /\ SF_vars(Install(GoodAnswers)) /\ WF_vars(Accept \/ Refuse)

\* The probe asks every few seconds: now and then it meets a healthy process healthy.
ProbeAsks == SF_vars(ProbePasses) /\ WF_vars(ProbePasses \/ ProbeFails)

\* A renewal of packets that are held expired works now and then, and so does a refresh
\* that finds it.  Neither is certain to end before the probe does.
RenewalsSucceed ==
    /\ SF_vars(Stale("packets") /\ Renew)
    /\ SF_vars(site # None /\ site <= Fresh /\ Install(GoodAnswers))

-----------------------------------------------------------------------------
(* Properties. *)

TypeOK ==
    /\ phase \in Phases /\ since \in 0 .. Timeout
    /\ probed \in BOOLEAN /\ (probed => Up)
    /\ served \in BOOLEAN /\ (Starting => served) /\ (served => phase # "down")
    /\ held \in [Exports -> {None} \cup Copies]
    /\ outcome \in {"none", "held", "unavailable", "failed"}
    /\ snapshot \in {None} \cup Snapshots
    /\ site \in {None} \cup 0 .. Life

\* The snapshot is built from the copies that are held, and not from some the bookkeeping
\* refused or has replaced: requests are answered from the snapshot, health, Ready and the
\* publisher from the copies.  A serving process that holds packets has a snapshot.
SnapshotIsHeld ==
    Up =>
      /\ snapshot # None =>
           /\ snapshot.directory = held.directory
           /\ snapshot.packets = held.packets
      /\ held.packets # None => snapshot # None

\* A process that passes its startup check has a snapshot, without which the service
\* behind it could not be built and the process would end.
ReadyHasSnapshot == (phase = "judging" \/ Up) /\ Ready => snapshot # None

\* A healthy instance answers: health is judged from the copies, a read from the snapshot.
HealthyAnswers == Up /\ Healthy => Answered

\* Packets once shown are not replaced by an empty or a missing snapshot, whatever a
\* refresh brings, as long as the process lives.
PacketsStayShown ==
    [][Up /\ Up' /\ snapshot # None /\ held.packets # None
         => snapshot' # None /\ snapshot'.packets # None]_vars

\* When the sites answer well again and again, visitors keep coming, and renewals of the
\* service's own export work now and then, some process again and again is in service and
\* answers.  An expired export of its own does not end that, although every startup that
\* finds one is ended by the probe unless its renewal comes first.
Recovers ==
    VisitorsKeepComing /\ StartsLeftAlone /\ Proceeds /\ ProbeAsks /\ RenewalsSucceed
      => []<>(Up /\ probed /\ Answered)

=============================================================================
