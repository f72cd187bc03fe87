---------------------------- MODULE Credentials ----------------------------
(***************************************************************************)
(* Agent credentials: the manager's operations (agentcredential), each one *)
(* atomic operation of the store (credentialstore/firestore.go, or         *)
(* agentcredential/memory.go), as signed-in humans and agents call them    *)
(* through several instances of the service (surface/credentials.go).      *)
(*                                                                         *)
(* An instance reads its clock when a request arrives, and the store acts  *)
(* on that time later: the times the store is given need not come in their *)
(* order, and the clocks of two instances may differ.                      *)
(*                                                                         *)
(* Looking a credential up and listing a tenant's change nothing; they     *)
(* succeed if the documents they read decode.  A bearer value is an id and *)
(* a secret, and nobody guesses either.                                    *)
(***************************************************************************)
EXTENDS Naturals

CONSTANTS
    Ids,            \* the ids of credentials
    Tenants, Actors,
    Instances,      \* the service instances, each with its clock
    Calls,          \* the requests that can be under way at once
    None,           \* no record, no time, nobody
    MaximumLifetime,
    MaxSkew,        \* bound: how far two clocks are apart at most
    MaxTime         \* bound: what a clock shows at most

ASSUME CredentialsAssumption ==
    /\ MaximumLifetime \in Nat \ {0} /\ MaxSkew \in Nat /\ MaxTime \in Nat
    /\ None \notin Nat \cup Ids \cup Tenants \cup Actors

VARIABLES
    clock,          \* the clock of each instance
    records,        \* the store: the document of each credential
    handed,         \* the credentials whose bearer value reached their creator
    call            \* the requests under way

vars == <<clock, records, handed, call>>

\* Its binding to a packet, its workload and its digest never change and are left out.
Record ==
    [tenant : Tenants, created : Nat, expires : Nat,
     revoked : Nat \cup {None}, revokedBy : Actors \cup {None}, used : Nat \cup {None}]

NoRecord ==
    [tenant |-> None, created |-> 0, expires |-> 0,
     revoked |-> None, revokedBy |-> None, used |-> None]

Stored(id) == records[id] # NoRecord

\* A request: where it is, what it asks for, the time its instance read, and the record it
\* was answered with, if it was not refused.
Call ==
    [phase : {"idle", "sent", "abandoned", "answered"},
     op : {"create", "authenticate", "revoke"},
     id : Ids \cup {None}, tenant : Tenants \cup {None}, actor : Actors \cup {None},
     at : Nat, expires : Nat, genuine : BOOLEAN, answer : Record \cup {NoRecord}]

NoCall ==
    [phase |-> "idle", op |-> "create", id |-> None, tenant |-> None, actor |-> None,
     at |-> 0, expires |-> 0, genuine |-> FALSE, answer |-> NoRecord]

InStore(c) == call[c].phase \in {"sent", "abandoned"}

\* ValidateStoredRecord, the last step of decoding a document.
Decodes(record) ==
    /\ record.created < record.expires
    /\ record.expires <= record.created + MaximumLifetime
    /\ record.revoked = None <=> record.revokedBy = None
    /\ record.revoked # None => record.created <= record.revoked
    /\ record.used # None => record.created <= record.used

-----------------------------------------------------------------------------
(* Requests arrive, at an instance's time. *)

Send(c, request) ==
    /\ call[c] = NoCall
    /\ call' = [call EXCEPT ![c] = request]
    /\ UNCHANGED <<clock, records, handed>>

Create(c, i, id, tenant, expires) ==
    /\ ~Stored(id) /\ \A d \in Calls : call[d].id # id
    /\ clock[i] < expires /\ expires <= clock[i] + MaximumLifetime
    /\ Send(c, [NoCall EXCEPT !.phase = "sent", !.op = "create", !.id = id,
                              !.tenant = tenant, !.at = clock[i], !.expires = expires])

Authenticate(c, i, id, genuine) ==
    /\ Stored(id) /\ (genuine => id \in handed)
    /\ Send(c, [NoCall EXCEPT !.phase = "sent", !.op = "authenticate", !.id = id,
                              !.at = clock[i], !.genuine = genuine])

Revoke(c, i, id, tenant, actor) ==
    /\ Stored(id)
    /\ Send(c, [NoCall EXCEPT !.phase = "sent", !.op = "revoke", !.id = id,
                              !.tenant = tenant, !.actor = actor, !.at = clock[i]])

-----------------------------------------------------------------------------
(* The store acts on them, each in one transaction. *)

\* An answer nobody waits for is lost.
Answer(c, record) ==
    call' = [call EXCEPT ![c] =
               IF @.phase = "sent" THEN [@ EXCEPT !.phase = "answered", !.answer = record]
               ELSE NoCall]

Write(c, record) ==
    /\ records' = [records EXCEPT ![call[c].id] = record]
    /\ Answer(c, record)

StoreCreates(c) ==
    /\ InStore(c) /\ call[c].op = "create"
    /\ Write(c, [NoRecord EXCEPT !.tenant = call[c].tenant, !.created = call[c].at,
                                 !.expires = call[c].expires])
    /\ UNCHANGED <<clock, handed>>

\* Fault: authentication does not look at the revocation.
AdmitsUnlessExpired(c, record) ==
    /\ Decodes(record) /\ call[c].genuine
    /\ call[c].at < record.expires

\* ValidateAuthentication, on the document the transaction read.
Admits(c, record) ==
    /\ Decodes(record) /\ call[c].genuine
    /\ record.revoked = None
    /\ call[c].at < record.expires

\* Fault: every use is recorded, the late report of an earlier one included.
Use(record, at) == [record EXCEPT !.used = at]

\* A use only moves the time of the last use forward.
UseAt(record, at) ==
    IF record.used # None /\ at <= record.used THEN record ELSE [record EXCEPT !.used = at]

StoreAuthenticates(c) ==
    /\ InStore(c) /\ call[c].op = "authenticate"
    /\ Admits(c, records[call[c].id])
    /\ Write(c, UseAt(records[call[c].id], call[c].at))
    /\ UNCHANGED <<clock, handed>>

\* Fault: a second revocation overwrites the first.
RevokeAgainAt(record, at, actor) == [record EXCEPT !.revoked = at, !.revokedBy = actor]

\* Fault: the revocation is recorded without the one who made it.
RevokeNamelesslyAt(record, at, actor) ==
    IF record.revoked = None THEN [record EXCEPT !.revoked = at] ELSE record

\* The first revocation stands.
RevokeAt(record, at, actor) ==
    IF record.revoked = None THEN [record EXCEPT !.revoked = at, !.revokedBy = actor] ELSE record

StoreRevokes(c) ==
    /\ InStore(c) /\ call[c].op = "revoke"
    /\ Decodes(records[call[c].id]) /\ records[call[c].id].tenant = call[c].tenant
    /\ Write(c, RevokeAt(records[call[c].id], call[c].at, call[c].actor))
    /\ UNCHANGED <<clock, handed>>

\* The store refuses, or fails without having done anything.
StoreRefuses(c) ==
    /\ InStore(c)
    /\ Answer(c, NoRecord)
    /\ UNCHANGED <<clock, records, handed>>

-----------------------------------------------------------------------------
(* Answers, and the clocks. *)

\* The caller gives up, not knowing what the store has done or will do.
GiveUp(c) ==
    /\ call[c].phase \in {"sent", "answered"}
    /\ call' = [call EXCEPT ![c] = IF @.phase = "sent" THEN [@ EXCEPT !.phase = "abandoned"]
                                   ELSE NoCall]
    /\ UNCHANGED <<clock, records, handed>>

\* Fault: the bearer value is returned although the store refused the credential.
ReturnUnchecked(c) ==
    /\ call[c].phase = "answered"
    /\ handed' = IF call[c].op = "create" THEN handed \cup {call[c].id} ELSE handed
    /\ call' = [call EXCEPT ![c] = NoCall]
    /\ UNCHANGED <<clock, records>>

\* The answer to a creation is the only thing that ever carries the bearer value.
Return(c) ==
    /\ call[c].phase = "answered"
    /\ handed' = IF call[c].op = "create" /\ call[c].answer # NoRecord
                 THEN handed \cup {call[c].id} ELSE handed
    /\ call' = [call EXCEPT ![c] = NoCall]
    /\ UNCHANGED <<clock, records>>

Advance(i) ==
    /\ clock[i] < MaxTime
    /\ \A j \in Instances \ {i} : clock[i] < clock[j] + MaxSkew
    /\ clock' = [clock EXCEPT ![i] = @ + 1]
    /\ UNCHANGED <<records, handed, call>>

-----------------------------------------------------------------------------
Init ==
    /\ clock = [i \in Instances |-> 0]
    /\ records = [id \in Ids |-> NoRecord]
    /\ handed = {}
    /\ call = [c \in Calls |-> NoCall]

Request(c, i) ==
    \E id \in Ids :
      \/ \E t \in Tenants, e \in 0..(MaxTime + MaximumLifetime) : Create(c, i, id, t, e)
      \/ \E g \in BOOLEAN : Authenticate(c, i, id, g)
      \/ \E t \in Tenants, a \in Actors : Revoke(c, i, id, t, a)

Serve(c) ==
    \/ StoreCreates(c) \/ StoreAuthenticates(c) \/ StoreRevokes(c) \/ StoreRefuses(c)

Next ==
    \/ \E c \in Calls :
         \/ \E i \in Instances : Request(c, i)
         \/ Serve(c) \/ GiveUp(c) \/ Return(c)
    \/ \E i \in Instances : Advance(i)

Spec == Init /\ [][Next]_vars

-----------------------------------------------------------------------------
(* Properties. *)

Granted(c) == call[c].phase = "answered" /\ call[c].answer # NoRecord

\* The type invariant; a bearer value somebody has is that of a stored credential.
TypeOK ==
    /\ clock \in [Instances -> Nat]
    /\ records \in [Ids -> Record \cup {NoRecord}]
    /\ handed \subseteq {id \in Ids : Stored(id)}
    /\ call \in [Calls -> Call]

\* The credential page: a credential can be listed, looked up and revoked for as long as
\* it is stored, which every one of those operations needs its document to decode for.
Manageable == \A id \in Ids : Stored(id) => Decodes(records[id])

\* Whoever was told of a revocation was told the one that stands, however many asked for
\* one at once and in whatever order they were answered.
RevocationsAgree ==
    \A c \in Calls : Granted(c) /\ call[c].op = "revoke" =>
      /\ call[c].answer.revoked # None
      /\ call[c].answer.revoked = records[call[c].id].revoked
      /\ call[c].answer.revokedBy = records[call[c].id].revokedBy

\* The last use is no earlier than any authentication that succeeded, and none succeeded
\* at or after the expiry: the record attributes an attempt's work to it (ADR-0057).
UseIsRecorded ==
    \A c \in Calls : Granted(c) /\ call[c].op = "authenticate" =>
      /\ records[call[c].id].used # None
      /\ call[c].at <= records[call[c].id].used
      /\ records[call[c].id].used < records[call[c].id].expires

\* Revocation is immediate: from the step that revokes a credential on, no authentication
\* with it succeeds, those already under way included, and its record never changes again.
RevocationIsFinal ==
    [][\A id \in Ids : records[id].revoked # None =>
         /\ records'[id] = records[id]
         /\ \A c \in Calls :
              Granted(c)' /\ call'[c].op = "authenticate" /\ call'[c].id = id => Granted(c)]_vars

=============================================================================
