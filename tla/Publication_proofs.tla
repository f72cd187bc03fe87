------------------------- MODULE Publication_proofs -------------------------
(***************************************************************************)
(* What holds of every publication of packets.json, for any number of      *)
(* instances, faults, deploys and changes: the type invariant, and that    *)
(* the only instance's own releases never take the site back.              *)
(***************************************************************************)
EXTENDS Publication, FiniteSetTheorems, FunctionTheorems, WellFoundedInduction, TLAPS

-----------------------------------------------------------------------------
(* There is always an id that nothing refers to. *)

\* What the instances hold in one variable is not more than they are.
LEMMA RangeIsSmall ==
  ASSUME NEW f, f = [i \in Instances |-> f[i]]
  PROVE  /\ IsFiniteSet({f[i] : i \in Instances})
         /\ Cardinality({f[i] : i \in Instances}) <= Cardinality(Instances)
         /\ Cardinality({f[i] : i \in Instances}) \in Nat
<1> DEFINE T == {f[i] : i \in Instances}
<1>1. f \in Surjection(Instances, T)
  BY DEF Surjection
<1>2. IsFiniteSet(Instances)
  BY PublicationAssumption
<1>3. IsFiniteSet(T) /\ Cardinality(T) <= Cardinality(Instances)
  <2> HIDE DEF T
  <2> QED BY <1>1, <1>2, FS_Surjection
<1>4. Cardinality(T) \in Nat
  BY <1>3, FS_CardinalityType
<1> QED BY <1>3, <1>4

LEMMA UnionIsSmall ==
  ASSUME NEW S, NEW T, NEW m \in Nat, NEW n \in Nat, IsFiniteSet(S), IsFiniteSet(T),
         Cardinality(S) <= m, Cardinality(T) <= n
  PROVE  IsFiniteSet(S \cup T) /\ Cardinality(S \cup T) <= m + n
<1>1. IsFiniteSet(S \cup T)
      /\ Cardinality(S \cup T) = Cardinality(S) + Cardinality(T) - Cardinality(S \cap T)
  BY FS_Union
<1>2. IsFiniteSet(S \cap T)
  BY FS_Intersection
<1>3. /\ Cardinality(S) \in Nat /\ Cardinality(T) \in Nat /\ Cardinality(S \cap T) \in Nat
  BY <1>2, FS_CardinalityType
<1> QED BY <1>1, <1>3

LEMMA FourAreFew ==
  ASSUME NEW a, NEW b, NEW c, NEW d
  PROVE  /\ IsFiniteSet(({a} \cup {b}) \cup ({c} \cup {d}))
         /\ Cardinality(({a} \cup {b}) \cup ({c} \cup {d})) <= 4
<1>0. \A x : IsFiniteSet({x}) /\ Cardinality({x}) = 1
  BY FS_Singleton
<1>1. ASSUME NEW x PROVE IsFiniteSet({x}) /\ Cardinality({x}) <= 1
  <2>1. IsFiniteSet({x}) /\ Cardinality({x}) = 1
    BY <1>0
  <2> HIDE <1>0
  <2> QED BY <2>1
<1> DEFINE A == {a} \cup {b}
           B == {c} \cup {d}
<1>2. IsFiniteSet(A) /\ Cardinality(A) <= 1 + 1
  BY <1>1, UnionIsSmall
<1>3. IsFiniteSet(B) /\ Cardinality(B) <= 1 + 1
  BY <1>1, UnionIsSmall
<1>4. IsFiniteSet(A \cup B) /\ Cardinality(A \cup B) <= (1 + 1) + (1 + 1)
  <2> HIDE DEF A, B
  <2> QED BY <1>2, <1>3, UnionIsSmall
<1>5. (1 + 1) + (1 + 1) = 4
  OBVIOUS
<1> QED BY <1>4, <1>5, Zenon

\* The variables of the instances that hold exports are functions.
PerInstance ==
    /\ {fetched, held, observed, released, releasedOver} \subseteq [Instances -> Copies \cup {None}]
    /\ call \in [Instances -> Call]

LEMMA SpareCopy ==
  ASSUME PerInstance
  PROVE  ~(Copies \subseteq InUse)
<1> DEFINE made == [i \in Instances |-> call[i].made]
           base == [i \in Instances |-> call[i].base]
           Of(f) == {f[i] : i \in Instances}
           n == Cardinality(Instances)
           U1 == Of(fetched) \cup Of(held)
           U2 == Of(observed) \cup Of(released)
           U3 == Of(made) \cup Of(base)
           Q == ({live} \cup {stray.made}) \cup ({stray.base} \cup {deploy.made})
<1>1. n \in Nat
  BY PublicationAssumption, FS_CardinalityType
<1>2. /\ IsFiniteSet(Of(fetched)) /\ Cardinality(Of(fetched)) <= n
      /\ IsFiniteSet(Of(held)) /\ Cardinality(Of(held)) <= n
      /\ IsFiniteSet(Of(observed)) /\ Cardinality(Of(observed)) <= n
      /\ IsFiniteSet(Of(released)) /\ Cardinality(Of(released)) <= n
      /\ IsFiniteSet(Of(releasedOver)) /\ Cardinality(Of(releasedOver)) <= n
  <2>1. /\ fetched = [i \in Instances |-> fetched[i]] /\ held = [i \in Instances |-> held[i]]
        /\ observed = [i \in Instances |-> observed[i]]
        /\ released = [i \in Instances |-> released[i]]
        /\ releasedOver = [i \in Instances |-> releasedOver[i]]
    BY DEF PerInstance
  <2> QED BY <2>1, RangeIsSmall
<1>3. /\ IsFiniteSet(Of(made)) /\ Cardinality(Of(made)) <= n
      /\ IsFiniteSet(Of(base)) /\ Cardinality(Of(base)) <= n
  <2>1. made = [i \in Instances |-> made[i]] /\ base = [i \in Instances |-> base[i]]
    OBVIOUS
  <2> HIDE DEF made, base
  <2> QED BY <2>1, RangeIsSmall
<1>4. IsFiniteSet(Q) /\ Cardinality(Q) <= 4
  BY FourAreFew
<1>5. InUse \subseteq (Q \cup (U1 \cup U2)) \cup (U3 \cup Of(releasedOver))
  BY DEF InUse
<1> HIDE DEF Of, n, Q
<1>6. /\ IsFiniteSet(U1) /\ Cardinality(U1) <= n + n
      /\ IsFiniteSet(U2) /\ Cardinality(U2) <= n + n
      /\ IsFiniteSet(U3) /\ Cardinality(U3) <= n + n
  BY <1>1, <1>2, <1>3, UnionIsSmall
<1>7. /\ n + n \in Nat /\ (n + n) + (n + n) \in Nat /\ 4 + ((n + n) + (n + n)) \in Nat
      /\ (n + n) + n \in Nat
  BY <1>1
<1> HIDE DEF U1, U2, U3
<1>8. IsFiniteSet(U1 \cup U2) /\ Cardinality(U1 \cup U2) <= (n + n) + (n + n)
  BY <1>6, <1>7, UnionIsSmall
<1>9. /\ IsFiniteSet(Q \cup (U1 \cup U2))
      /\ Cardinality(Q \cup (U1 \cup U2)) <= 4 + ((n + n) + (n + n))
  BY <1>4, <1>7, <1>8, UnionIsSmall
<1>10. /\ IsFiniteSet(U3 \cup Of(releasedOver))
       /\ Cardinality(U3 \cup Of(releasedOver)) <= (n + n) + n
  BY <1>1, <1>2, <1>6, <1>7, UnionIsSmall
<1> DEFINE All == (Q \cup (U1 \cup U2)) \cup (U3 \cup Of(releasedOver))
<1>11. IsFiniteSet(All) /\ Cardinality(All) <= (4 + ((n + n) + (n + n))) + ((n + n) + n)
  BY <1>7, <1>9, <1>10, UnionIsSmall
<1> HIDE DEF All
<1>12. Cardinality(All) <= 4 + 7 * n /\ Cardinality(All) \in Nat
  <2>1. Cardinality(All) \in Nat
    BY <1>11, FS_CardinalityType
  <2>2. (4 + ((n + n) + (n + n))) + ((n + n) + n) = 4 + 7 * n
    BY <1>1
  <2> QED BY <1>11, <2>1, <2>2
<1>13. ASSUME Copies \subseteq InUse PROVE FALSE
  <2>1. Copies \in SUBSET All
    BY <1>5, <1>13 DEF All
  <2>2. Cardinality(Copies) <= Cardinality(All) /\ Cardinality(Copies) \in Nat
    BY <1>11, <2>1, FS_Subset, PublicationAssumption, FS_CardinalityType
  <2>3. Cardinality(Copies) > 4 + 7 * n
    BY PublicationAssumption DEF n
  <2> QED BY <1>1, <1>12, <2>2, <2>3
<1> QED BY <1>13

\* Fresh is an id that nothing refers to.
LEMMA FreshIsSpare ==
  ASSUME PerInstance
  PROVE  Fresh \in Copies /\ Fresh \notin InUse
<1> DEFINE T == Copies \ InUse
<1>1. T \subseteq Nat /\ T # {}
  BY SpareCopy, PublicationAssumption
<1>2. IsWellFoundedOn(OpToRel(<, Nat), Nat)
  BY NatLessThanWellFounded
<1>3. PICK x \in T : \A y \in T : ~ (<<y, x>> \in OpToRel(<, Nat))
  <2> HIDE DEF T
  <2> QED BY <1>1, <1>2, WFMin
<1>4. \A y \in T : ~ (y < x)
  BY <1>1, <1>3 DEF OpToRel
<1>5. ASSUME NEW d \in T PROVE x <= d
  <2>1. x \in Nat /\ d \in Nat
    BY <1>1, <1>3
  <2> QED BY <1>4, <2>1
<1>6. \E c \in T : \A d \in T : c <= d
  BY <1>5
<1> QED BY <1>6 DEF Fresh

-----------------------------------------------------------------------------
(* The types. *)

\* A call or a lost release that is one has made its export.
Prepared(c) == c # NoCall => c.made \in Copies

\* TypeOK without what it says of all exports in use, and the strengthening that carries it:
\* no more issues wait than were committed, and what is about to be released was made.
SharedTypes ==
    /\ store \in 0..MaxChanges
    /\ copy \in [Copies -> Copy] /\ live \in Copies
    /\ frontend \in 0..MaxDeploys
    /\ served \subseteq Instances
    /\ stray \in Call /\ Prepared(stray)
    /\ deploy \in {NoDeploy} \cup [made : Copies, frontend : 1..MaxDeploys, uploads : 1..2]
    /\ deploys \in 0..MaxDeploys /\ stops \in 0..MaxStops /\ lost \in 0..MaxLost

InstanceTypes ==
    /\ up \in [Instances -> BOOLEAN]
    /\ queue \in [Instances -> Nat]
    /\ call \in [Instances -> Call]
    /\ fetched \in [Instances -> Copies \cup {None}]
    /\ held \in [Instances -> Copies \cup {None}]
    /\ observed \in [Instances -> Copies \cup {None}]
    /\ released \in [Instances -> Copies \cup {None}]
    /\ releasedOver \in [Instances -> Copies \cup {None}]

KeepsNothing(i) ==
    /\ queue[i] = 0 /\ call[i] = NoCall
    /\ fetched[i] = None /\ held[i] = None
    /\ observed[i] = None /\ released[i] = None /\ releasedOver[i] = None

InstanceSound(i) ==
    /\ queue[i] <= store
    /\ Prepared(call[i])
    /\ i \in served => up[i]
    /\ i \notin served => queue[i] = 0
    /\ ~up[i] => KeepsNothing(i)

Types == SharedTypes /\ InstanceTypes /\ \A i \in Instances : InstanceSound(i)

LEMMA NoCallIsCall == NoCall \in Call /\ Prepared(NoCall)
BY PublicationAssumption DEF NoCall, Call, Prepared

LEMMA TypesArePerInstance == Types => PerInstance
BY DEF Types, InstanceTypes, PerInstance

LEMMA InitTypes == Init => Types
<1> SUFFICES ASSUME Init PROVE Types
  OBVIOUS
<1>1. SharedTypes
  BY PublicationAssumption, NoCallIsCall DEF Init, SharedTypes, Copy
<1>2. InstanceTypes
  BY NoCallIsCall DEF Init, InstanceTypes
<1>3. \A i \in Instances : InstanceSound(i)
  BY NoCallIsCall DEF Init, InstanceSound, KeepsNothing
<1> QED BY <1>1, <1>2, <1>3 DEF Types

LEMMA PrepareTypes ==
  ASSUME Types, NEW i \in Instances, Prepare(i)
  PROVE  /\ copy' \in [Copies -> Copy]
         /\ call' = [call EXCEPT ![i] = call'[i]] /\ call'[i] \in Call /\ Prepared(call'[i])
<1>1. Fresh \in Copies
  BY TypesArePerInstance, FreshIsSpare
<1>2. held[i] \in Copies \cup {None} /\ frontend \in 0..MaxDeploys /\ store \in Nat
  BY DEF Types, SharedTypes, InstanceTypes
<1>3. [content |-> store, age |-> 0] \in Copy
  BY <1>2, PublicationAssumption DEF Copy
<1>4. [made |-> Fresh, base |-> held[i], clone |-> frontend] \in Call
  BY <1>1, <1>2 DEF Call
<1>5. copy' \in [Copies -> Copy]
  BY <1>3 DEF Prepare, Types, SharedTypes
<1>6. call'[i] = [made |-> Fresh, base |-> held[i], clone |-> frontend]
  BY DEF Prepare, Types, InstanceTypes
<1>7. call' = [call EXCEPT ![i] = call'[i]]
  BY <1>6 DEF Prepare
<1>8. Prepared(call'[i])
  BY <1>1, <1>6 DEF Prepared
<1> QED BY <1>4, <1>5, <1>6, <1>7, <1>8

\* What an instance or its visitors do keeps the types.
LEMMA WorkTypes ==
  ASSUME Types, NEW i \in Instances, Work(i) \/ VisitEnds(i) \/ Fault(i)
  PROVE  Types'
<1> USE PublicationAssumption
<1> USE DEF Types, SharedTypes, InstanceTypes, siteVars, readerVars, memoryVars, envVars,
            countVars
<1>1. CASE Start(i) \/ Visit(i) \/ VisitEnds(i)
  <2>1. SharedTypes'
    BY <1>1 DEF Start, Visit, VisitEnds
  <2>2. InstanceTypes'
    BY <1>1 DEF Start, Visit, VisitEnds
  <2>3. \A j \in Instances : InstanceSound(j)'
    BY <1>1 DEF Start, Visit, VisitEnds, InstanceSound, KeepsNothing
  <2> QED BY <2>1, <2>2, <2>3
<1>2. CASE Author(i) \/ AuthorFails(i)
  <2>1. SharedTypes'
    BY <1>2 DEF Author, AuthorFails, InstanceSound
  <2>2. InstanceTypes'
    BY <1>2 DEF Author, AuthorFails
  <2>3. \A j \in Instances : InstanceSound(j)'
    BY <1>2 DEF Author, AuthorFails, InstanceSound, KeepsNothing
  <2> QED BY <2>1, <2>2, <2>3
<1>3. CASE Fetch(i)
  <2>1. SharedTypes'
    BY <1>3 DEF Fetch, InstanceSound
  <2>2. InstanceTypes'
    BY <1>3 DEF Fetch
  <2>3. \A j \in Instances : InstanceSound(j)'
    BY <1>3 DEF Fetch, InstanceSound, KeepsNothing
  <2> QED BY <2>1, <2>2, <2>3
<1>4. CASE Install(i)
  <2>1. SharedTypes'
    BY <1>4 DEF Install, InstanceSound
  <2>2. InstanceTypes'
    BY <1>4 DEF Install
  <2>3. \A j \in Instances : InstanceSound(j)'
    BY <1>4 DEF Install, InstanceSound, KeepsNothing
  <2> QED BY <2>1, <2>2, <2>3
<1>5. CASE Publish(i)
  <2>1. SharedTypes'
    BY <1>5, PrepareTypes DEF Publish, Idle, InstanceSound
  <2>2. InstanceTypes'
    BY <1>5, PrepareTypes DEF Publish, Idle
  <2>3. \A j \in Instances : InstanceSound(j)'
    BY <1>5, PrepareTypes DEF Publish, Idle, InstanceSound, KeepsNothing
  <2> QED BY <2>1, <2>2, <2>3
<1>6. CASE PublishFails(i)
  <2>1. SharedTypes'
    BY <1>6 DEF PublishFails, Idle, InstanceSound
  <2>2. InstanceTypes'
    BY <1>6 DEF PublishFails, Idle
  <2>3. \A j \in Instances : InstanceSound(j)'
    BY <1>6 DEF PublishFails, Idle, InstanceSound, KeepsNothing
  <2> QED BY <2>1, <2>2, <2>3
<1>7. CASE Renew(i)
  <2>1. SharedTypes'
    BY <1>7, PrepareTypes DEF Renew, Idle, InstanceSound
  <2>2. InstanceTypes'
    BY <1>7, PrepareTypes DEF Renew, Idle
  <2>3. \A j \in Instances : InstanceSound(j)'
    BY <1>7, PrepareTypes DEF Renew, Idle, InstanceSound, KeepsNothing
  <2> QED BY <2>1, <2>2, <2>3
<1>8. CASE RenewFails(i)
  <2>1. SharedTypes'
    BY <1>8 DEF RenewFails, Idle, InstanceSound
  <2>2. InstanceTypes'
    BY <1>8 DEF RenewFails, Idle
  <2>3. \A j \in Instances : InstanceSound(j)'
    BY <1>8 DEF RenewFails, Idle, InstanceSound, KeepsNothing
  <2> QED BY <2>1, <2>2, <2>3
<1>9. CASE Release(i)
  <2>1. SharedTypes'
    BY <1>9, NoCallIsCall DEF Release, GoLive, Call, Prepared, InstanceSound
  <2>2. InstanceTypes'
    BY <1>9, NoCallIsCall DEF Release, GoLive, Call, Prepared
  <2>3. \A j \in Instances : InstanceSound(j)'
    BY <1>9, NoCallIsCall DEF Release, GoLive, Call, Prepared, InstanceSound, KeepsNothing
  <2> QED BY <2>1, <2>2, <2>3
<1>10. CASE ReleaseFails(i)
  <2>1. SharedTypes'
    BY <1>10, NoCallIsCall DEF ReleaseFails, InstanceSound
  <2>2. InstanceTypes'
    BY <1>10, NoCallIsCall DEF ReleaseFails
  <2>3. \A j \in Instances : InstanceSound(j)'
    BY <1>10, NoCallIsCall DEF ReleaseFails, InstanceSound, KeepsNothing
  <2> QED BY <2>1, <2>2, <2>3
<1>11. CASE GiveUp(i)
  <2>1. SharedTypes'
    BY <1>11, NoCallIsCall DEF GiveUp, Leave, InstanceSound
  <2>2. InstanceTypes'
    BY <1>11, NoCallIsCall DEF GiveUp, Leave
  <2>3. \A j \in Instances : InstanceSound(j)'
    BY <1>11, NoCallIsCall DEF GiveUp, Leave, InstanceSound, KeepsNothing
  <2> QED BY <2>1, <2>2, <2>3
<1>12. CASE Stop(i)
  <2>1. SharedTypes'
    BY <1>12, NoCallIsCall DEF Stop, Leave, InstanceSound
  <2>2. InstanceTypes'
    BY <1>12, NoCallIsCall DEF Stop, Leave
  <2>3. \A j \in Instances : InstanceSound(j)'
    BY <1>12, NoCallIsCall DEF Stop, Leave, InstanceSound, KeepsNothing
  <2> QED BY <2>1, <2>2, <2>3
<1> QED BY <1>1, <1>2, <1>3, <1>4, <1>5, <1>6, <1>7, <1>8, <1>9, <1>10, <1>11, <1>12
        DEF Work, Fault

LEMMA SiteTypes ==
  ASSUME Types, \/ LandStray \/ LoseStray \/ DeployFetch \/ DeployUpload \/ DeployAborts
                \/ Tick \/ UNCHANGED vars
  PROVE  Types'
<1>1. /\ InstanceTypes' /\ \A i \in Instances : InstanceSound(i)'
  BY DEF Types, InstanceTypes, InstanceSound, KeepsNothing, LandStray, LoseStray, DeployFetch,
         DeployUpload, DeployAborts, Tick, vars, siteVars, readerVars, memoryVars, envVars,
         countVars
<1>2. CASE LandStray
  <2>1. stray.made \in Copies /\ stray.clone \in 0..MaxDeploys
    BY <1>2 DEF Types, SharedTypes, LandStray, GoLive, Prepared, Call
  <2>2. stray' = NoCall
    BY <1>2 DEF LandStray
  <2> QED BY <1>1, <1>2, <2>1, <2>2, NoCallIsCall DEF Types, SharedTypes, LandStray, GoLive, countVars
<1>3. CASE LoseStray \/ DeployAborts \/ UNCHANGED vars
  <2>1. /\ stray' \in {stray, NoCall} /\ deploy' \in {deploy, NoDeploy}
        /\ UNCHANGED <<store, copy, live, frontend, served, deploys, stops, lost>>
    BY <1>3 DEF LoseStray, DeployAborts, vars, siteVars, envVars, countVars
  <2>2. stray' \in Call /\ Prepared(stray')
    BY <2>1, NoCallIsCall DEF Types, SharedTypes
  <2> QED BY <1>1, <2>1, <2>2 DEF Types, SharedTypes
<1>4. CASE DeployFetch
  <2>1. Fresh \in Copies
    BY TypesArePerInstance, FreshIsSpare
  <2>2. [content |-> copy[live].content, age |-> 0] \in Copy
    BY PublicationAssumption DEF Types, SharedTypes, Copy
  <2>3. deploys' \in 1..MaxDeploys
    BY <1>4, PublicationAssumption DEF Types, SharedTypes, DeployFetch
  <2>4. copy' \in [Copies -> Copy]
    BY <1>4, <2>2 DEF Types, SharedTypes, DeployFetch
  <2>5. deploy' \in [made : Copies, frontend : 1..MaxDeploys, uploads : 1..2]
    BY <1>4, <2>1, <2>3 DEF DeployFetch
  <2>6. UNCHANGED <<store, live, frontend, served, stray, stops, lost>>
    BY <1>4 DEF DeployFetch, siteVars
  <2> QED BY <1>1, <2>3, <2>4, <2>5, <2>6 DEF Types, SharedTypes
<1>5. CASE DeployUpload
  <2>1. deploy \in [made : Copies, frontend : 1..MaxDeploys, uploads : 1..2]
    BY <1>5 DEF DeployUpload, Types, SharedTypes
  <2>2. deploy' \in {NoDeploy} \cup [made : Copies, frontend : 1..MaxDeploys, uploads : 1..2]
    BY <1>5, <2>1 DEF DeployUpload
  <2>3. live' \in Copies /\ frontend' \in 1..MaxDeploys
    BY <1>5, <2>1 DEF DeployUpload
  <2>4. UNCHANGED <<store, copy, served, stray, deploys, stops, lost>>
    BY <1>5 DEF DeployUpload, countVars
  <2> QED BY <1>1, <2>2, <2>3, <2>4, PublicationAssumption DEF Types, SharedTypes
<1>6. CASE Tick
  <2>1. ASSUME NEW c \in Copies
        PROVE  [copy[c] EXCEPT !.age = IF @ < RenewalAge THEN @ + 1 ELSE @] \in Copy
    BY PublicationAssumption DEF Types, SharedTypes, Copy
  <2>2. copy' \in [Copies -> Copy]
    BY <1>6, <2>1 DEF Tick
  <2> QED BY <1>1, <1>6, <2>2 DEF Types, SharedTypes, Tick, siteVars, readerVars, envVars, countVars
<1> QED BY <1>2, <1>3, <1>4, <1>5, <1>6

LEMMA NextTypes == Types /\ [Next]_vars => Types'
BY WorkTypes, SiteTypes DEF Next

-----------------------------------------------------------------------------
(* What the exports in use show. *)

ShownInStore == \A c \in InUse \ {None} : copy[c].content <= store

SameContents == \A c \in Copies : copy'[c].content = copy[c].content

\* A step that makes no export, and one that makes one with this content.
MakesNone == InUse' \subseteq InUse \cup {None} /\ SameContents

Makes(content) ==
    /\ InUse' \subseteq InUse \cup {Fresh, None}
    /\ copy'[Fresh].content = content
    /\ \A c \in Copies \ {Fresh} : copy'[c].content = copy[c].content

LEMMA UsesOf ==
  ASSUME NEW i \in Instances
  PROVE  {live, stray.made, stray.base, deploy.made, fetched[i], held[i], observed[i], released[i],
          releasedOver[i], call[i].base, call[i].made} \subseteq InUse
BY DEF InUse

\* What a step does to the exports that are referred to, unless it makes one: hands them on.
HandsOn ==
    /\ live' \in {live, stray.made, deploy.made} \cup {call[i].made : i \in Instances}
    /\ stray' \in {stray, NoCall} \cup {call[i] : i \in Instances}
    /\ deploy'.made \in {deploy.made, None}
    /\ \A i \in Instances :
         /\ fetched'[i] \in {fetched[i], live, None}
         /\ held'[i] \in {held[i], fetched[i], None}
         /\ observed'[i] \in {observed[i], held[i], None}
         /\ released'[i] \in {released[i], call[i].made, None}
         /\ releasedOver'[i] \in {releasedOver[i], call[i].base, None}
         /\ call'[i] \in {call[i], NoCall}

LEMMA HandsOnMakesNone ==
  ASSUME HandsOn, SameContents
  PROVE  MakesNone
<1> SUFFICES ASSUME NEW c \in InUse' PROVE c \in InUse \cup {None}
  BY DEF MakesNone
<1>1. live \in InUse /\ stray.made \in InUse /\ stray.base \in InUse /\ deploy.made \in InUse
  BY DEF InUse
<1>2. CASE c \in {live', stray'.made, stray'.base, deploy'.made}
  BY <1>1, <1>2, UsesOf DEF HandsOn, NoCall
<1>3. CASE \E i \in Instances : c \in {fetched'[i], held'[i], observed'[i], released'[i],
                                       releasedOver'[i], call'[i].base, call'[i].made}
  <2>1. PICK i \in Instances : c \in {fetched'[i], held'[i], observed'[i], released'[i],
                                      releasedOver'[i], call'[i].base, call'[i].made}
    BY <1>3
  <2> QED BY <1>1, <2>1, UsesOf DEF HandsOn, NoCall
<1> QED BY <1>2, <1>3 DEF InUse

LEMMA InUseIsTyped == Types => InUse \subseteq Copies \cup {None}
BY DEF Types, SharedTypes, InstanceTypes, InUse, Call, NoDeploy

LEMMA PrepareMakes ==
  ASSUME Types, NEW i \in Instances, Prepare(i),
         UNCHANGED <<live, stray, deploy, fetched, held, released, releasedOver>>,
         observed' \in {observed, [observed EXCEPT ![i] = held[i]]}
  PROVE  Makes(store)
<1>1. Fresh \in Copies
  BY TypesArePerInstance, FreshIsSpare
<1>2. /\ copy'[Fresh].content = store
      /\ \A c \in Copies \ {Fresh} : copy'[c].content = copy[c].content
  BY <1>1 DEF Prepare, Types, SharedTypes
<1>3. /\ call'[i].made = Fresh /\ call'[i].base = held[i]
      /\ \A j \in Instances \ {i} : call'[j] = call[j]
  BY DEF Prepare, Types, InstanceTypes
<1>4. \A j \in Instances : observed'[j] \in {observed[j], held[j]}
  BY DEF Types, InstanceTypes
<1>5. InUse' \subseteq InUse \cup {Fresh, None}
  <2> SUFFICES ASSUME NEW c \in InUse' PROVE c \in InUse \cup {Fresh}
    OBVIOUS
  <2>1. CASE c \in {live', stray'.made, stray'.base, deploy'.made}
    BY <2>1 DEF InUse
  <2>2. CASE \E j \in Instances : c \in {fetched'[j], held'[j], observed'[j], released'[j],
                                         releasedOver'[j], call'[j].base, call'[j].made}
    BY <1>3, <1>4, <2>2, UsesOf
  <2> QED BY <2>1, <2>2 DEF InUse
<1> QED BY <1>2, <1>5 DEF Makes

LEMMA WorkMakes ==
  ASSUME Types, NEW i \in Instances, Work(i) \/ VisitEnds(i) \/ Fault(i)
  PROVE  /\ MakesNone \/ (Makes(store) /\ Prepare(i))
         /\ store' \in {store, store + 1}
<1> USE DEF Types, SharedTypes, InstanceTypes, SameContents, HandsOn
<1>1. CASE Start(i) \/ Author(i) \/ AuthorFails(i) \/ PublishFails(i)
  <2>1. HandsOn /\ SameContents
    BY <1>1 DEF Start, Author, AuthorFails, PublishFails, siteVars, readerVars, memoryVars, envVars
  <2>2. store' \in {store, store + 1}
    BY <1>1 DEF Start, Author, AuthorFails, PublishFails
  <2> QED BY <2>1, <2>2, HandsOnMakesNone
<1>2. CASE Fetch(i) \/ Install(i)
  <2>1. HandsOn /\ SameContents
    BY <1>2 DEF Fetch, Install, siteVars, memoryVars, envVars
  <2>2. store' \in {store, store + 1}
    BY <1>2 DEF Fetch, Install
  <2> QED BY <2>1, <2>2, HandsOnMakesNone
<1>3. CASE Publish(i)
  BY <1>3, PrepareMakes DEF Publish, siteVars, readerVars, memoryVars, envVars
<1>4. CASE Renew(i)
  <2>1. CASE Prepare(i)
    BY <1>4, <2>1, PrepareMakes DEF Renew, siteVars, readerVars, envVars
  <2>2. CASE UNCHANGED <<call, copy>>
    <3>1. HandsOn /\ SameContents
      BY <1>4, <2>2 DEF Renew, siteVars, readerVars, envVars
    <3>2. store' = store
      BY <1>4 DEF Renew
    <3> QED BY <3>1, <3>2, HandsOnMakesNone
  <2> QED BY <1>4, <2>1, <2>2 DEF Renew
<1>5. CASE RenewFails(i)
  <2>1. HandsOn /\ SameContents
    BY <1>5 DEF RenewFails, siteVars, readerVars, envVars
  <2>2. store' \in {store, store + 1}
    BY <1>5 DEF RenewFails
  <2> QED BY <2>1, <2>2, HandsOnMakesNone
<1>6. CASE Release(i) \/ ReleaseFails(i)
  <2>1. HandsOn /\ SameContents
    BY <1>6 DEF Release, ReleaseFails, GoLive, siteVars, readerVars, memoryVars, envVars
  <2>2. store' \in {store, store + 1}
    BY <1>6 DEF Release, ReleaseFails
  <2> QED BY <2>1, <2>2, HandsOnMakesNone
<1>7. CASE GiveUp(i)
  <2>1. HandsOn /\ SameContents
    BY <1>7 DEF GiveUp, Leave, siteVars, readerVars, memoryVars
  <2>2. store' \in {store, store + 1}
    BY <1>7 DEF GiveUp
  <2> QED BY <2>1, <2>2, HandsOnMakesNone
<1>8. CASE Stop(i)
  <2>1. HandsOn /\ SameContents
    BY <1>8 DEF Stop, Leave, siteVars
  <2>2. store' \in {store, store + 1}
    BY <1>8 DEF Stop
  <2> QED BY <2>1, <2>2, HandsOnMakesNone
<1>9. CASE Visit(i) \/ VisitEnds(i)
  <2>1. HandsOn /\ SameContents
    BY <1>9 DEF Visit, VisitEnds, siteVars, readerVars, memoryVars
  <2>2. store' \in {store, store + 1}
    BY <1>9 DEF Visit, VisitEnds
  <2> QED BY <2>1, <2>2, HandsOnMakesNone
<1> QED BY <1>1, <1>2, <1>3, <1>4, <1>5, <1>6, <1>7, <1>8, <1>9 DEF Work, Fault

LEMMA SiteMakes ==
  ASSUME Types, \/ LandStray \/ LoseStray \/ DeployFetch \/ DeployUpload \/ DeployAborts
                \/ Tick \/ UNCHANGED vars
  PROVE  /\ MakesNone \/ Makes(copy[live].content)
         /\ store' = store
<1> USE DEF Types, SharedTypes, InstanceTypes, SameContents, HandsOn
<1>1. CASE LandStray \/ LoseStray
  <2>1. HandsOn /\ SameContents
    BY <1>1 DEF LandStray, LoseStray, GoLive, siteVars, readerVars, memoryVars
  <2> QED BY <1>1, <2>1, HandsOnMakesNone DEF LandStray, LoseStray
<1>2. CASE DeployFetch
  <2>1. Fresh \in Copies
    BY TypesArePerInstance, FreshIsSpare
  <2>2. /\ copy'[Fresh].content = copy[live].content
        /\ \A c \in Copies \ {Fresh} : copy'[c].content = copy[c].content
    BY <1>2, <2>1 DEF DeployFetch
  <2>3. InUse' \subseteq InUse \cup {Fresh, None}
    BY <1>2 DEF DeployFetch, InUse, siteVars, readerVars, memoryVars
  <2>4. store' = store
    BY <1>2 DEF DeployFetch
  <2> QED BY <2>2, <2>3, <2>4 DEF Makes
<1>3. CASE DeployUpload \/ DeployAborts
  <2>1. HandsOn /\ SameContents
    BY <1>3 DEF DeployUpload, DeployAborts, NoDeploy, siteVars, readerVars, memoryVars
  <2> QED BY <1>3, <2>1, HandsOnMakesNone DEF DeployUpload, DeployAborts
<1>4. CASE Tick
  <2>1. SameContents
    BY <1>4 DEF Tick, Copy
  <2>2. HandsOn
    BY <1>4 DEF Tick, siteVars, readerVars, memoryVars, envVars
  <2> QED BY <1>4, <2>1, <2>2, HandsOnMakesNone DEF Tick
<1>5. CASE UNCHANGED vars
  <2>1. HandsOn /\ SameContents
    BY <1>5 DEF vars, siteVars, readerVars, memoryVars, envVars
  <2> QED BY <1>5, <2>1, HandsOnMakesNone DEF vars
<1> QED BY <1>1, <1>2, <1>3, <1>4, <1>5

LEMMA ContentsAreNumbers ==
  ASSUME Types
  PROVE  /\ store \in Nat
         /\ \A c \in InUse \ {None} : c \in Copies /\ copy[c].content \in Nat
BY InUseIsTyped DEF Types, SharedTypes, Copy

\* If nothing that is used shows more than a bound, and what a step makes does not, nothing
\* that is used after it does.
LEMMA BoundKept ==
  ASSUME Types, NEW bound \in Nat, NEW content \in Nat,
         \A c \in InUse \ {None} : copy[c].content <= bound, content <= bound,
         MakesNone \/ Makes(content)
  PROVE  \A c \in InUse' \ {None} : copy'[c].content <= bound
<1> SUFFICES ASSUME NEW c \in InUse' \ {None} PROVE copy'[c].content <= bound
  OBVIOUS
<1>1. CASE c \in InUse /\ copy'[c].content = copy[c].content
  BY <1>1
<1>2. CASE c \in InUse /\ copy'[c].content # copy[c].content
  <2>1. c \in Copies
    BY <1>2, ContentsAreNumbers
  <2>2. c = Fresh /\ Makes(content)
    BY <1>2, <2>1 DEF MakesNone, Makes, SameContents
  <2> QED BY <2>2 DEF Makes
<1>3. CASE c \notin InUse
  <2>1. c = Fresh /\ Makes(content)
    BY <1>3 DEF MakesNone, Makes
  <2> QED BY <2>1 DEF Makes
<1> QED BY <1>1, <1>2, <1>3

LEMMA InitShown == Init => ShownInStore
<1> SUFFICES ASSUME Init, NEW c \in InUse \ {None} PROVE copy[c].content <= store
  BY DEF ShownInStore
<1>1. c \in Copies
  BY InitTypes, ContentsAreNumbers
<1> QED BY <1>1 DEF Init

LEMMA NextShown == Types /\ ShownInStore /\ [Next]_vars => ShownInStore'
<1> SUFFICES ASSUME Types, ShownInStore, [Next]_vars PROVE ShownInStore'
  OBVIOUS
<1>1. store \in Nat /\ \A c \in InUse \ {None} : copy[c].content <= store
  BY ContentsAreNumbers DEF ShownInStore
<1>2. live \in InUse \ {None}
  BY PublicationAssumption DEF InUse, Types, SharedTypes
<1>3. copy[live].content \in Nat /\ copy[live].content <= store
  BY <1>1, <1>2, ContentsAreNumbers
<1>4. /\ MakesNone \/ Makes(store) \/ Makes(copy[live].content)
      /\ store' \in {store, store + 1}
  BY WorkMakes, SiteMakes DEF Next
<1>5. \A c \in InUse' \ {None} : copy'[c].content <= store
  BY <1>1, <1>3, <1>4, BoundKept
<1>6. Types'
  BY NextTypes
<1>7. \A c \in InUse' \ {None} : copy'[c].content \in Nat
  <2>1. \A c \in Copies : copy'[c].content \in Nat
    BY <1>6 DEF Types, SharedTypes, Copy
  <2>2. InUse' \subseteq Copies \cup {None}
    BY <1>4, InUseIsTyped, TypesArePerInstance, FreshIsSpare DEF MakesNone, Makes
  <2> QED BY <2>1, <2>2
<1> QED BY <1>1, <1>4, <1>5, <1>7 DEF ShownInStore

PublicationInv == Types /\ ShownInStore

LEMMA PublicationInvInit == Init => PublicationInv
BY InitTypes, InitShown DEF PublicationInv

LEMMA PublicationInvNext == PublicationInv /\ [Next]_vars => PublicationInv'
BY NextTypes, NextShown DEF PublicationInv

(* The type invariant of the publications, for any number of instances, faults and        *)
(* deploys: an export that the site, a reader or a publisher refers to shows no change     *)
(* that the store does not have, and there is always an id left for the next export.       *)
THEOREM PublicationTypeOK == Spec => []TypeOK
<1>1. PublicationInv => TypeOK
  <2> SUFFICES ASSUME PublicationInv PROVE TypeOK
    OBVIOUS
  <2>1. Types /\ ShownInStore /\ ~(Copies \subseteq InUse)
    BY TypesArePerInstance, SpareCopy DEF PublicationInv
  <2>2. queue \in [Instances -> 0..MaxChanges]
    BY <2>1, PublicationAssumption DEF Types, SharedTypes, InstanceTypes, InstanceSound
  <2>3. {fetched, held, observed, released, releasedOver} \subseteq [Instances -> Copies \cup {None}]
    BY <2>1 DEF Types, InstanceTypes
  <2>4. /\ served \subseteq {i \in Instances : up[i]}
        /\ \A i \in Instances : i \notin served => queue[i] = 0
    BY <2>1 DEF Types, SharedTypes, InstanceSound
  <2>5. \A i \in Instances : ~up[i] =>
         /\ queue[i] = 0 /\ call[i] = NoCall
         /\ {fetched[i], held[i], observed[i], released[i], releasedOver[i]} = {None}
    BY <2>1 DEF Types, InstanceSound, KeepsNothing
  <2> QED BY <2>1, <2>2, <2>3, <2>4, <2>5
        DEF Types, SharedTypes, InstanceTypes, ShownInStore, TypeOK
<1> QED BY <1>1, PublicationInvInit, PublicationInvNext, PTL DEF Spec

-----------------------------------------------------------------------------
(* One instance. *)

\* Where one instance serves, what it is about to release shows all that anything shows.
ShowsMost(i) == \A c \in InUse \ {None} : copy[c].content <= copy[call[i].made].content

OnlyWriterLeads ==
    \A i \in Instances : Instances = {i} /\ call[i] # NoCall => ShowsMost(i)

LEMMA NextLeads == PublicationInv /\ OnlyWriterLeads /\ [Next]_vars => OnlyWriterLeads'
<1> SUFFICES ASSUME PublicationInv, OnlyWriterLeads, [Next]_vars, PublicationInv',
                    NEW i \in Instances, Instances = {i}, call'[i] # NoCall
             PROVE  ShowsMost(i)'
  BY PublicationInvNext DEF OnlyWriterLeads
<1>1. /\ Types /\ ShownInStore /\ Types' /\ ShownInStore'
  BY DEF PublicationInv
<1>2. call'[i].made \in InUse' \ {None}
  BY <1>1, PublicationAssumption DEF InUse, Types, InstanceSound, Prepared
<1>3. CASE Prepare(i) /\ Makes(store)
  <2>1. call'[i].made = Fresh
    BY <1>1, <1>3 DEF Prepare, Types, InstanceTypes
  <2>2. copy'[Fresh].content = store
    BY <1>3 DEF Makes
  <2>3. \A c \in InUse \ {None} : copy[c].content <= store
    BY <1>1 DEF ShownInStore
  <2>4. \A c \in InUse' \ {None} : copy'[c].content <= store
    BY <1>1, <1>3, <2>3, ContentsAreNumbers, BoundKept
  <2> QED BY <2>1, <2>2, <2>4 DEF ShowsMost
<1>4. CASE call'[i] = call[i] /\ (MakesNone \/ Makes(copy[live].content))
  <2> DEFINE made == call[i].made
  <2>1. call[i] # NoCall /\ ShowsMost(i)
    BY <1>4 DEF OnlyWriterLeads
  <2>2. made \in InUse \ {None} /\ live \in InUse \ {None} /\ made \in Copies
    BY <1>1, <2>1, PublicationAssumption DEF InUse, Types, SharedTypes, InstanceSound, Prepared
  <2>3. /\ copy[made].content \in Nat /\ copy[live].content \in Nat
        /\ copy[live].content <= copy[made].content
    BY <1>1, <2>1, <2>2, ContentsAreNumbers DEF ShowsMost
  <2>4. made # Fresh
    BY <1>1, <2>2, TypesArePerInstance, FreshIsSpare
  <2>5. copy'[made].content = copy[made].content
    BY <1>4, <2>2, <2>4 DEF MakesNone, Makes, SameContents
  <2>6. \A c \in InUse' \ {None} : copy'[c].content <= copy[made].content
    BY <1>1, <1>4, <2>1, <2>3, BoundKept DEF ShowsMost
  <2> QED BY <1>4, <2>5, <2>6 DEF ShowsMost
<1>5. CASE Work(i) \/ VisitEnds(i) \/ Fault(i)
  <2>1. call' \in {call, [call EXCEPT ![i] = NoCall]} \/ Prepare(i)
    BY <1>5 DEF Work, Fault, Start, Visit, VisitEnds, Author, AuthorFails, Fetch, Install, Publish, PublishFails,
                Renew, RenewFails, Release, ReleaseFails, GiveUp, Stop
  <2>2. call'[i] = call[i] \/ Prepare(i)
    BY <1>1, <2>1 DEF Types, InstanceTypes
  <2>3. MakesNone \/ (Makes(store) /\ Prepare(i))
    BY <1>1, <1>5, WorkMakes
  <2>4. ASSUME Prepare(i), MakesNone PROVE FALSE
    <3>1. call'[i].made = Fresh
      BY <1>1, <2>4 DEF Prepare, Types, InstanceTypes
    <3>2. Fresh \in InUse \cup {None}
      BY <1>2, <2>4, <3>1 DEF MakesNone
    <3> QED BY <1>1, <3>2, TypesArePerInstance, FreshIsSpare, PublicationAssumption
  <2> QED BY <1>3, <1>4, <2>2, <2>3, <2>4
<1>6. CASE \/ LandStray \/ LoseStray \/ DeployFetch \/ DeployUpload \/ DeployAborts
           \/ Tick \/ UNCHANGED vars
  <2>1. call' = call
    BY <1>6 DEF LandStray, LoseStray, DeployFetch, DeployUpload, DeployAborts, Tick, vars
  <2> QED BY <1>1, <1>4, <1>6, <2>1, SiteMakes
<1> QED BY <1>5, <1>6 DEF Next

(* Where one instance serves, its releases never take the site back, however far its       *)
(* reader lags, whatever releases were lost or land late and whatever deploys upload.      *)
THEOREM ReleaseAlwaysGoesForward == Spec => ReleaseGoesForward
<1>1. Init => OnlyWriterLeads
  BY DEF Init, OnlyWriterLeads
<1>2. ASSUME PublicationInv, OnlyWriterLeads, NEW i \in Instances, Instances = {i}, Release(i)
      PROVE  copy[live].content <= copy'[live'].content
  <2>1. call[i] # NoCall /\ live' = call[i].made /\ copy' = copy
    BY <1>2 DEF Release, GoLive
  <2>2. live \in InUse \ {None}
    BY <1>2, PublicationAssumption DEF InUse, PublicationInv, Types, SharedTypes
  <2> QED BY <1>2, <2>1, <2>2 DEF OnlyWriterLeads, ShowsMost
<1>3. PublicationInv /\ OnlyWriterLeads /\ [Next]_vars =>
        [\A i \in Instances :
           Instances = {i} /\ Release(i) => copy[live].content <= copy'[live'].content]_vars
  BY <1>2
<1> QED BY <1>1, <1>3, PublicationInvInit, PublicationInvNext, NextLeads, PTL
        DEF Spec, ReleaseGoesForward
=============================================================================
