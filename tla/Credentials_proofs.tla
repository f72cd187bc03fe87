------------------------- MODULE Credentials_proofs -------------------------
(***************************************************************************)
(* What agent credentials promise, for any numbers of credentials, calls,  *)
(* instances and clocks however far apart; and, for a single clock, that   *)
(* every document the store holds can be decoded again.                    *)
(***************************************************************************)
EXTENDS Credentials, TLAPS

(* A request that is under way has what its operation needs. *)
Complete ==
    \A c \in Calls : call[c].phase # "idle" =>
      /\ call[c].id \in Ids
      /\ call[c].op \in {"create", "revoke"} => call[c].tenant \in Tenants
      /\ call[c].op = "revoke" => call[c].actor \in Actors

(* A creation under way is of a credential nobody knows of. *)
Unknown ==
    \A c \in Calls : InStore(c) /\ call[c].op = "create" =>
      /\ ~Stored(call[c].id)
      /\ \A d \in Calls \ {c} : call[d].id # call[c].id

(* Every other request is about a stored credential. *)
Known ==
    \A c \in Calls : (InStore(c) /\ call[c].op # "create") \/ Granted(c) =>
      Stored(call[c].id)

UsedInTime ==
    \A id \in Ids : records[id].used # None => records[id].used < records[id].expires

Inv ==
    TypeOK /\ Complete /\ Unknown /\ Known /\ UsedInTime /\ RevocationsAgree /\ UseIsRecorded

-----------------------------------------------------------------------------
(* Facts about records and calls. *)

(* None is nobody's id, time or name. *)
LEMMA NoneIsNothing ==
  None \notin Nat /\ None \notin Ids /\ None \notin Tenants /\ None \notin Actors
BY CredentialsAssumption

(* A stored record is of the type a document has. *)
LEMMA StoredIsRecord ==
  ASSUME TypeOK, NEW id \in Ids, Stored(id)
  PROVE  records[id] \in Record
BY DEF TypeOK, Stored

(* A document is not the absence of one. *)
LEMMA RecordIsStored ==
  ASSUME NEW record \in Record
  PROVE  record # NoRecord
BY NoneIsNothing DEF Record, NoRecord

(* The idle call is a call. *)
LEMMA NoCallType == NoCall \in Call /\ NoCall.phase = "idle" /\ NoCall.id = None
BY DEF NoCall, Call, NoRecord

LEMMA InvInit == Init => Inv
<1> SUFFICES ASSUME Init
             PROVE  Inv
  OBVIOUS
<1>1. \A c \in Calls : call[c] = NoCall
  BY DEF Init
<1>2. TypeOK
  BY NoCallType DEF Init, TypeOK
<1>3. Complete /\ Unknown /\ Known /\ RevocationsAgree /\ UseIsRecorded
  BY <1>1, NoCallType DEF Complete, Unknown, Known, RevocationsAgree, UseIsRecorded, InStore, Granted
<1>4. UsedInTime
  BY DEF Init, UsedInTime, NoRecord
<1> QED BY <1>2, <1>3, <1>4 DEF Inv

-----------------------------------------------------------------------------
(* Every step is one of three kinds: a request arrives, the store writes a document, or *)
(* nothing is written and no request gets any further than a refusal.                   *)

LEMMA SendInv ==
  ASSUME Inv, NEW c \in Calls, NEW request \in Call, Send(c, request),
         request.phase = "sent", request.id \in Ids,
         request.op \in {"create", "revoke"} => request.tenant \in Tenants,
         request.op = "revoke" => request.actor \in Actors,
         request.op = "create" => /\ ~Stored(request.id)
                                  /\ \A d \in Calls : call[d].id # request.id,
         request.op # "create" => Stored(request.id)
  PROVE  Inv'
<1>1. call' = [d \in Calls |-> IF d = c THEN request ELSE call[d]]
  BY DEF Send, Inv, TypeOK
<1>2. records' = records /\ handed' = handed /\ clock' = clock
  BY DEF Send
<1>3. TypeOK'
  BY <1>1, <1>2 DEF Inv, TypeOK, Stored
<1>4. Complete'
  BY <1>1 DEF Inv, Complete
<1>5. Unknown'
  <2> SUFFICES ASSUME NEW d \in Calls, InStore(d)', call'[d].op = "create"
               PROVE  /\ records'[call'[d].id] = NoRecord
                      /\ \A e \in Calls \ {d} : call'[e].id # call'[d].id
    BY DEF Unknown, Stored
  <2>1. CASE d = c
    BY <2>1, <1>1, <1>2 DEF Stored
  <2>2. CASE d # c
    <3>1. call'[d] = call[d] /\ InStore(d) /\ call[d].op = "create"
      BY <2>2, <1>1 DEF InStore
    <3>2. ~Stored(call[d].id) /\ \A e \in Calls \ {d} : call[e].id # call[d].id
      BY <3>1 DEF Inv, Unknown
    <3>3. request.id # call[d].id
      BY <3>2
    <3> QED BY <3>1, <3>2, <3>3, <1>1, <1>2 DEF Stored
  <2> QED BY <2>1, <2>2
<1>6. Known'
  BY <1>1, <1>2 DEF Inv, Known, InStore, Granted, Stored
<1>7. UsedInTime'
  BY <1>2 DEF Inv, UsedInTime
<1>8. RevocationsAgree' /\ UseIsRecorded'
  BY <1>1, <1>2 DEF Inv, RevocationsAgree, UseIsRecorded, Granted
<1> QED BY <1>3, <1>4, <1>5, <1>6, <1>7, <1>8 DEF Inv

(* A step that writes nothing keeps the invariant if every call is afterwards as it was, *)
(* over, abandoned, or refused.                                                           *)
LEMMA QuietInv ==
  ASSUME Inv, clock' \in [Instances -> Nat], records' = records,
         handed' \subseteq {id \in Ids : Stored(id)}, call' \in [Calls -> Call],
         \A c \in Calls :
           \/ call'[c] = call[c] \/ call'[c] = NoCall
           \/ /\ InStore(c)
              /\ \/ call'[c].phase = "abandoned"
                 \/ call'[c].phase = "answered" /\ call'[c].answer = NoRecord
              /\ call'[c].id = call[c].id /\ call'[c].op = call[c].op
              /\ call'[c].tenant = call[c].tenant /\ call'[c].actor = call[c].actor
  PROVE  Inv'
<1>1. TypeOK'
  BY DEF Inv, TypeOK, Stored
<1>2. \A c \in Calls : call'[c].phase # "idle" =>
        /\ call[c].phase # "idle"
        /\ call'[c].id = call[c].id /\ call'[c].op = call[c].op
        /\ call'[c].tenant = call[c].tenant /\ call'[c].actor = call[c].actor
  BY NoCallType DEF InStore
<1>3. \A c \in Calls :
        /\ call'[c].phase \in {"sent", "abandoned"} =>
             call[c].phase \in {"sent", "abandoned"} /\ call'[c].phase # "idle"
        /\ call'[c].phase = "answered" /\ call'[c].answer # NoRecord => call'[c] = call[c]
  BY NoCallType DEF InStore
<1>4. Complete'
  BY <1>2 DEF Inv, Complete
<1>5. Unknown'
  <2> SUFFICES ASSUME NEW c \in Calls, InStore(c)', call'[c].op = "create"
               PROVE  /\ records'[call'[c].id] = NoRecord
                      /\ \A d \in Calls \ {c} : call'[d].id # call'[c].id
    BY DEF Unknown, Stored
  <2>1. InStore(c) /\ call[c].op = "create" /\ call'[c].id = call[c].id
    BY <1>2, <1>3 DEF InStore
  <2>2. call[c].id \in Ids
    BY <2>1 DEF Inv, Complete, InStore
  <2>3. records[call[c].id] = NoRecord /\ \A d \in Calls \ {c} : call[d].id # call[c].id
    BY <2>1 DEF Inv, Unknown, Stored
  <2>4. \A d \in Calls : call'[d].id = call[d].id \/ call'[d].id = None
    BY NoCallType
  <2> QED BY <2>1, <2>2, <2>3, <2>4, NoneIsNothing
<1>6. Known'
  BY <1>2, <1>3 DEF Inv, Known, Stored, InStore, Granted
<1>7. UsedInTime'
  BY DEF Inv, UsedInTime
<1>8. RevocationsAgree' /\ UseIsRecorded'
  BY <1>3 DEF Inv, RevocationsAgree, UseIsRecorded, Granted
<1> QED BY <1>1, <1>4, <1>5, <1>6, <1>7, <1>8 DEF Inv

(* The store writes a document that keeps what the earlier one says of its revocation and *)
(* of its last use.                                                                        *)
LEMMA WriteInv ==
  ASSUME Inv, NEW c \in Calls, InStore(c), NEW record \in Record, Write(c, record),
         UNCHANGED <<clock, handed>>, NEW id \in Ids, call[c].id = id,
         record.used # None => record.used < record.expires,
         records[id].revoked # None => record = records[id],
         records[id].used # None => record.used # None /\ records[id].used <= record.used,
         call[c].op = "revoke" => record.revoked # None,
         call[c].op = "authenticate" => record.used # None /\ call[c].at <= record.used
  PROVE  Inv'
<1>1. call[c] \in Call /\ call[c].phase # "idle"
  BY DEF Inv, TypeOK, InStore
<1>2. records' = [k \in Ids |-> IF k = id THEN record ELSE records[k]]
  BY DEF Write, Inv, TypeOK
<1>3. PICK mine : /\ call' = [d \in Calls |-> IF d = c THEN mine ELSE call[d]]
                  /\ mine = IF call[c].phase = "sent"
                            THEN [call[c] EXCEPT !.phase = "answered", !.answer = record]
                            ELSE NoCall
  BY DEF Write, Answer, Inv, TypeOK
<1>4. /\ mine \in Call /\ mine.phase \in {"answered", "idle"}
      /\ mine.phase = "answered" => /\ mine.id = id /\ mine.op = call[c].op
                                    /\ mine.at = call[c].at /\ mine.answer = record
                                    /\ mine.tenant = call[c].tenant
                                    /\ mine.actor = call[c].actor
  BY <1>1, <1>3, NoCallType DEF Call
<1>5. \A k \in Ids : Stored(k) => Stored(k)'
  BY <1>2, RecordIsStored DEF Stored
<1>6. Stored(id)'
  BY <1>1, <1>2, RecordIsStored DEF Stored
<1>7. TypeOK'
  <2>1. records' \in [Ids -> Record \cup {NoRecord}]
    BY <1>2 DEF Inv, TypeOK
  <2>2. call' \in [Calls -> Call]
    BY <1>3, <1>4 DEF Inv, TypeOK
  <2> QED BY <2>1, <2>2, <1>5 DEF Inv, TypeOK
<1>8. Complete'
  BY <1>1, <1>3, <1>4 DEF Inv, Complete, InStore
<1>9. Unknown'
  <2> SUFFICES ASSUME NEW d \in Calls, InStore(d)', call'[d].op = "create"
               PROVE  /\ records'[call'[d].id] = NoRecord
                      /\ \A e \in Calls \ {d} : call'[e].id # call'[d].id
    BY DEF Unknown, Stored
  <2>1. d # c
    BY <1>3, <1>4 DEF InStore
  <2>2. call'[d] = call[d] /\ InStore(d) /\ call[d].op = "create"
    BY <2>1, <1>3 DEF InStore
  <2>3. ~Stored(call[d].id) /\ \A e \in Calls \ {d} : call[e].id # call[d].id
    BY <2>2 DEF Inv, Unknown
  <2>4. call[d].id \in Ids /\ call[d].id # id
    BY <2>1, <2>2, <2>3 DEF Inv, Complete, InStore
  <2>5. records'[call'[d].id] = NoRecord
    BY <2>2, <2>3, <2>4, <1>2 DEF Stored
  <2>6. mine.id # call[d].id
    BY <2>4, <1>3, <1>4, NoCallType, NoneIsNothing
  <2> QED BY <2>2, <2>3, <2>5, <2>6, <1>3
<1>10. Known'
  <2> SUFFICES ASSUME NEW d \in Calls, (InStore(d)' /\ call'[d].op # "create") \/ Granted(d)'
               PROVE  records'[call'[d].id] # NoRecord
    BY DEF Known, Stored
  <2>1. CASE d = c
    BY <2>1, <1>3, <1>4, <1>6 DEF InStore, Granted, Stored
  <2>2. CASE d # c
    <3>1. call'[d] = call[d] /\ Stored(call[d].id)
      BY <2>2, <1>3 DEF Inv, Known, InStore, Granted
    <3>2. call[d].id \in Ids
      BY <2>2, <1>3 DEF Inv, Complete, InStore, Granted
    <3> QED BY <3>1, <3>2, <1>5 DEF Stored
  <2> QED BY <2>1, <2>2
<1>11. UsedInTime'
  BY <1>2 DEF Inv, UsedInTime
<1>12. RevocationsAgree'
  <2> SUFFICES ASSUME NEW d \in Calls, Granted(d)', call'[d].op = "revoke"
               PROVE  /\ call'[d].answer.revoked # None
                      /\ call'[d].answer.revoked = records'[call'[d].id].revoked
                      /\ call'[d].answer.revokedBy = records'[call'[d].id].revokedBy
    BY DEF RevocationsAgree
  <2>1. CASE d = c
    BY <2>1, <1>1, <1>2, <1>3, <1>4 DEF Granted
  <2>2. CASE d # c
    <3>1. call'[d] = call[d] /\ Granted(d) /\ call[d].id \in Ids
      BY <2>2, <1>3 DEF Inv, Complete, Granted
    <3>2. /\ call[d].answer.revoked # None
          /\ call[d].answer.revoked = records[call[d].id].revoked
          /\ call[d].answer.revokedBy = records[call[d].id].revokedBy
      BY <2>2, <3>1 DEF Inv, RevocationsAgree
    <3>3. records'[call[d].id] = records[call[d].id]
      BY <3>1, <3>2, <1>2
    <3> QED BY <3>1, <3>2, <3>3
  <2> QED BY <2>1, <2>2
<1>13. UseIsRecorded'
  <2> SUFFICES ASSUME NEW d \in Calls, Granted(d)', call'[d].op = "authenticate"
               PROVE  /\ records'[call'[d].id].used # None
                      /\ call'[d].at <= records'[call'[d].id].used
                      /\ records'[call'[d].id].used < records'[call'[d].id].expires
    BY DEF UseIsRecorded
  <2>1. CASE d = c
    BY <2>1, <1>1, <1>2, <1>3, <1>4 DEF Granted
  <2>2. CASE d # c
    <3>1. call'[d] = call[d] /\ Granted(d) /\ call[d].id \in Ids /\ call[d].at \in Nat
      BY <2>2, <1>3 DEF Inv, TypeOK, Call, Complete, Granted
    <3>2. /\ records[call[d].id].used # None
          /\ call[d].at <= records[call[d].id].used
          /\ records[call[d].id].used < records[call[d].id].expires
      BY <2>2, <3>1 DEF Inv, UseIsRecorded
    <3>3. CASE call[d].id # id
      BY <3>1, <3>2, <3>3, <1>2
    <3>4. CASE call[d].id = id
      <4>1. records[id].used \in Nat
        BY <1>1, <3>1, <3>2, <3>4, StoredIsRecord DEF Inv, Known, Record
      <4>2. record.used \in Nat /\ records[id].used <= record.used
        BY <3>2, <3>4 DEF Record
      <4>3. call[d].at <= record.used
        BY <3>1, <3>2, <3>4, <4>1, <4>2
      <4>4. records'[id] = record
        BY <1>1, <1>2
      <4>5. record.used # None
        BY <3>2, <3>4
      <4> QED BY <3>1, <3>4, <4>3, <4>4, <4>5
    <3> QED BY <3>3, <3>4
  <2> QED BY <2>1, <2>2
<1> QED BY <1>7, <1>8, <1>9, <1>10, <1>11, <1>12, <1>13 DEF Inv

-----------------------------------------------------------------------------
(* The operations, each of its kind. *)

LEMMA RequestInv ==
  ASSUME Inv, NEW c \in Calls, NEW i \in Instances, Request(c, i)
  PROVE  Inv'
<1>1. clock[i] \in Nat
  BY DEF Inv, TypeOK
<1>2. PICK id \in Ids :
        \/ \E t \in Tenants, e \in 0..(MaxTime + MaximumLifetime) : Create(c, i, id, t, e)
        \/ \E g \in BOOLEAN : Authenticate(c, i, id, g)
        \/ \E t \in Tenants, a \in Actors : Revoke(c, i, id, t, a)
  BY DEF Request
<1>3. CASE \E t \in Tenants, e \in 0..(MaxTime + MaximumLifetime) : Create(c, i, id, t, e)
  <2>1. PICK t \in Tenants, e \in 0..(MaxTime + MaximumLifetime) : Create(c, i, id, t, e)
    BY <1>3
  <2> DEFINE request == [NoCall EXCEPT !.phase = "sent", !.op = "create", !.id = id,
                                       !.tenant = t, !.at = clock[i], !.expires = e]
  <2>2. e \in Nat
    BY CredentialsAssumption
  <2>3. /\ request \in Call /\ request.phase = "sent" /\ request.op = "create"
        /\ request.id = id /\ request.tenant = t
    BY <1>1, <2>2 DEF NoCall, Call
  <2>4. Send(c, request) /\ ~Stored(id) /\ \A d \in Calls : call[d].id # id
    BY <2>1 DEF Create
  <2> HIDE DEF request
  <2> QED BY <2>3, <2>4, SendInv
<1>4. CASE \E g \in BOOLEAN : Authenticate(c, i, id, g)
  <2>1. PICK g \in BOOLEAN : Authenticate(c, i, id, g)
    BY <1>4
  <2> DEFINE request == [NoCall EXCEPT !.phase = "sent", !.op = "authenticate", !.id = id,
                                       !.at = clock[i], !.genuine = g]
  <2>2. /\ request \in Call /\ request.phase = "sent" /\ request.op = "authenticate"
        /\ request.id = id
    BY <1>1 DEF NoCall, Call
  <2>3. Send(c, request) /\ Stored(id)
    BY <2>1 DEF Authenticate
  <2> HIDE DEF request
  <2> QED BY <2>2, <2>3, SendInv
<1>5. CASE \E t \in Tenants, a \in Actors : Revoke(c, i, id, t, a)
  <2>1. PICK t \in Tenants, a \in Actors : Revoke(c, i, id, t, a)
    BY <1>5
  <2> DEFINE request == [NoCall EXCEPT !.phase = "sent", !.op = "revoke", !.id = id,
                                       !.tenant = t, !.actor = a, !.at = clock[i]]
  <2>2. /\ request \in Call /\ request.phase = "sent" /\ request.op = "revoke"
        /\ request.id = id /\ request.tenant = t /\ request.actor = a
    BY <1>1 DEF NoCall, Call
  <2>3. Send(c, request) /\ Stored(id)
    BY <2>1 DEF Revoke
  <2> HIDE DEF request
  <2> QED BY <2>2, <2>3, SendInv
<1> QED BY <1>2, <1>3, <1>4, <1>5

(* What the store writes for each operation that it admits. *)
LEMMA UseAtKeeps ==
  ASSUME NEW record \in Record, NEW at \in Nat, at < record.expires,
         record.used # None => record.used < record.expires
  PROVE  /\ UseAt(record, at) \in Record
         /\ UseAt(record, at).used \in Nat
         /\ at <= UseAt(record, at).used /\ UseAt(record, at).used < UseAt(record, at).expires
         /\ record.used # None => record.used <= UseAt(record, at).used
         /\ UseAt(record, at).revoked = record.revoked
         /\ UseAt(record, at).revokedBy = record.revokedBy
         /\ UseAt(record, at).created = record.created
         /\ UseAt(record, at).expires = record.expires
<1>1. CASE record.used # None /\ at <= record.used
  <2>1. UseAt(record, at) = record /\ record.used \in Nat
    BY <1>1 DEF UseAt, Record
  <2> QED BY <1>1, <2>1
<1>2. CASE ~(record.used # None /\ at <= record.used)
  <2>1. UseAt(record, at) = [record EXCEPT !.used = at]
    BY <1>2 DEF UseAt
  <2>2. record.used # None => record.used \in Nat /\ record.used <= at
    BY <1>2 DEF Record
  <2> QED BY <2>1, <2>2 DEF Record
<1> QED BY <1>1, <1>2

LEMMA RevokeAtKeeps ==
  ASSUME NEW record \in Record, NEW at \in Nat, NEW actor \in Actors
  PROVE  /\ RevokeAt(record, at, actor) \in Record
         /\ RevokeAt(record, at, actor).revoked # None
         /\ record.revoked # None => RevokeAt(record, at, actor) = record
         /\ record.revoked = None => /\ RevokeAt(record, at, actor).revoked = at
                                     /\ RevokeAt(record, at, actor).revokedBy = actor
         /\ RevokeAt(record, at, actor).used = record.used
         /\ RevokeAt(record, at, actor).created = record.created
         /\ RevokeAt(record, at, actor).expires = record.expires
BY NoneIsNothing DEF RevokeAt, Record

LEMMA StoreCreatesInv ==
  ASSUME Inv, NEW c \in Calls, StoreCreates(c)
  PROVE  Inv'
<1> DEFINE record == [NoRecord EXCEPT !.tenant = call[c].tenant, !.created = call[c].at,
                                      !.expires = call[c].expires]
<1>1. /\ call[c] \in Call /\ InStore(c) /\ call[c].op = "create" /\ Write(c, record)
      /\ UNCHANGED <<clock, handed>>
  BY DEF StoreCreates, Inv, TypeOK
<1>2. PICK id \in Ids : call[c].id = id /\ call[c].tenant \in Tenants
  BY <1>1 DEF Inv, Complete, InStore
<1>3. call[c].at \in Nat /\ call[c].expires \in Nat
  BY <1>1 DEF Call
<1>4. record \in Record /\ record.used = None
  BY <1>2, <1>3 DEF NoRecord, Record
<1>5. records[id] = NoRecord
  BY <1>1, <1>2 DEF Inv, Unknown, Stored
<1>6. records[id].revoked = None /\ records[id].used = None
  BY <1>5 DEF NoRecord
<1> HIDE DEF record
<1> QED BY <1>1, <1>2, <1>4, <1>6, WriteInv

(* The document an authentication or a revocation under way finds. *)
LEMMA FoundRecord ==
  ASSUME Inv, NEW c \in Calls, InStore(c), call[c].op # "create"
  PROVE  /\ call[c] \in Call /\ call[c].at \in Nat /\ call[c].id \in Ids
         /\ records[call[c].id] \in Record
         /\ records[call[c].id].used # None =>
              records[call[c].id].used < records[call[c].id].expires
<1>1. call[c] \in Call /\ call[c].id \in Ids
  BY DEF Inv, TypeOK, Complete, InStore
<1>2. call[c].at \in Nat
  BY <1>1 DEF Call
<1>3. records[call[c].id] \in Record
  BY <1>1, StoredIsRecord DEF Inv, Known
<1> QED BY <1>1, <1>2, <1>3 DEF Inv, UsedInTime

LEMMA StoreAuthenticatesInv ==
  ASSUME Inv, NEW c \in Calls, StoreAuthenticates(c)
  PROVE  Inv'
<1>1. /\ InStore(c) /\ call[c].op = "authenticate"
      /\ Admits(c, records[call[c].id])
      /\ Write(c, UseAt(records[call[c].id], call[c].at))
      /\ UNCHANGED <<clock, handed>>
  BY DEF StoreAuthenticates
<1>2. PICK id \in Ids : call[c].id = id
  BY <1>1, FoundRecord
<1>3. /\ call[c].at \in Nat /\ records[id] \in Record
      /\ records[id].used # None => records[id].used < records[id].expires
  BY <1>1, <1>2, FoundRecord
<1>4. call[c].at < records[id].expires /\ records[id].revoked = None
  BY <1>1, <1>2 DEF Admits
<1> DEFINE record == UseAt(records[id], call[c].at)
<1>5. /\ record \in Record /\ record.used \in Nat /\ call[c].at <= record.used
      /\ record.used < record.expires
      /\ records[id].used # None => records[id].used <= record.used
  BY <1>3, <1>4, UseAtKeeps
<1>6. Write(c, record)
  BY <1>1, <1>2
<1>7. record.used # None
  BY <1>5, NoneIsNothing
<1> HIDE DEF record
<1> QED BY <1>1, <1>2, <1>4, <1>5, <1>6, <1>7, WriteInv

LEMMA StoreRevokesInv ==
  ASSUME Inv, NEW c \in Calls, StoreRevokes(c)
  PROVE  Inv'
<1>1. /\ InStore(c) /\ call[c].op = "revoke"
      /\ Write(c, RevokeAt(records[call[c].id], call[c].at, call[c].actor))
      /\ UNCHANGED <<clock, handed>>
  BY DEF StoreRevokes
<1>2. PICK id \in Ids : call[c].id = id
  BY <1>1, FoundRecord
<1>3. /\ call[c].at \in Nat /\ records[id] \in Record
      /\ records[id].used # None => records[id].used < records[id].expires
      /\ call[c].actor \in Actors
  BY <1>1, <1>2, FoundRecord DEF Inv, Complete, InStore
<1> DEFINE record == RevokeAt(records[id], call[c].at, call[c].actor)
<1>4. /\ record \in Record /\ record.revoked # None
      /\ records[id].revoked # None => record = records[id]
      /\ record.used = records[id].used /\ record.expires = records[id].expires
  BY <1>3, RevokeAtKeeps
<1>5. Write(c, record)
  BY <1>1, <1>2
<1>6. records[id].used # None => record.used # None /\ records[id].used <= record.used
  BY <1>3, <1>4 DEF Record
<1> HIDE DEF record
<1> QED BY <1>1, <1>2, <1>3, <1>4, <1>5, <1>6, WriteInv

LEMMA OtherInv ==
  ASSUME Inv, NEW c \in Calls, StoreRefuses(c) \/ GiveUp(c) \/ Return(c)
  PROVE  Inv'
<1>1. call[c] \in Call /\ records' = records /\ clock' = clock
  BY DEF Inv, TypeOK, StoreRefuses, GiveUp, Return
<1>2. PICK mine : /\ call' = [call EXCEPT ![c] = mine]
                  /\ \/ mine = NoCall
                     \/ InStore(c) /\ mine = [call[c] EXCEPT !.phase = "abandoned"]
                     \/ InStore(c) /\ mine = [call[c] EXCEPT !.phase = "answered", !.answer = NoRecord]
  BY DEF StoreRefuses, Answer, GiveUp, Return, InStore
<1>3. /\ mine \in Call
      /\ mine = NoCall \/ /\ InStore(c)
                          /\ mine.phase = "abandoned" \/ (mine.phase = "answered" /\ mine.answer = NoRecord)
                          /\ mine.id = call[c].id /\ mine.op = call[c].op
                          /\ mine.tenant = call[c].tenant /\ mine.actor = call[c].actor
  BY <1>1, <1>2, NoCallType DEF Call
<1>4. call' = [d \in Calls |-> IF d = c THEN mine ELSE call[d]]
  BY <1>2 DEF Inv, TypeOK
<1>5. call' \in [Calls -> Call]
  BY <1>3, <1>4 DEF Inv, TypeOK
<1>6. handed' \subseteq {id \in Ids : Stored(id)}
  <2>1. CASE handed' = handed
    BY <2>1 DEF Inv, TypeOK
  <2>2. CASE handed' # handed
    <3>1. handed' = handed \cup {call[c].id} /\ Granted(c)
      BY <2>2 DEF StoreRefuses, GiveUp, Return, Granted
    <3>2. call[c].id \in Ids /\ Stored(call[c].id)
      BY <3>1 DEF Inv, Complete, Known, Granted
    <3> QED BY <3>1, <3>2 DEF Inv, TypeOK
  <2> QED BY <2>1, <2>2
<1>7. clock' \in [Instances -> Nat]
  BY <1>1 DEF Inv, TypeOK
<1>8. \A d \in Calls : \/ call'[d] = call[d] \/ call'[d] = NoCall
        \/ /\ InStore(d)
           /\ \/ call'[d].phase = "abandoned"
              \/ call'[d].phase = "answered" /\ call'[d].answer = NoRecord
           /\ call'[d].id = call[d].id /\ call'[d].op = call[d].op
           /\ call'[d].tenant = call[d].tenant /\ call'[d].actor = call[d].actor
  BY <1>3, <1>4
<1> QED BY <1>1, <1>5, <1>6, <1>7, <1>8, QuietInv

LEMMA AdvanceInv ==
  ASSUME Inv, NEW i \in Instances, Advance(i)
  PROVE  Inv'
<1>1. clock' \in [Instances -> Nat]
  BY DEF Advance, Inv, TypeOK
<1>2. records' = records /\ handed' = handed /\ call' = call
  BY DEF Advance
<1> QED BY <1>1, <1>2, QuietInv DEF Inv, TypeOK

LEMMA InvNext == Inv /\ [Next]_vars => Inv'
<1> SUFFICES ASSUME Inv, [Next]_vars
             PROVE  Inv'
  OBVIOUS
<1>1. CASE UNCHANGED vars
  <2>1. clock' = clock /\ records' = records /\ handed' = handed /\ call' = call
    BY <1>1 DEF vars
  <2> QED BY <2>1, QuietInv DEF Inv, TypeOK
<1>2. ASSUME NEW c \in Calls, NEW i \in Instances, Request(c, i)
      PROVE  Inv'
  BY <1>2, RequestInv
<1>3. ASSUME NEW c \in Calls, Serve(c) \/ GiveUp(c) \/ Return(c)
      PROVE  Inv'
  BY <1>3, StoreCreatesInv, StoreAuthenticatesInv, StoreRevokesInv, OtherInv DEF Serve
<1>4. ASSUME NEW i \in Instances, Advance(i)
      PROVE  Inv'
  BY <1>4, AdvanceInv
<1> QED BY <1>1, <1>2, <1>3, <1>4 DEF Next

(* The invariant the theorems rest on. *)
THEOREM CredentialsInv == Spec => []Inv
BY InvInit, InvNext, PTL DEF Spec

(* The variables keep their types, and a bearer value is only ever that of a stored *)
(* credential (Manager.Create).                                                      *)
THEOREM CredentialsTypeOK == Spec => []TypeOK
<1>1. Inv => TypeOK
  BY DEF Inv
<1> QED BY <1>1, CredentialsInv, PTL

(* Two people who revoke one credential at once are told the same revocation, whichever *)
(* clocks their instances have (Firestore.Revoke).                                       *)
THEOREM RevocationsAlwaysAgree == Spec => []RevocationsAgree
<1>1. Inv => RevocationsAgree
  BY DEF Inv
<1> QED BY <1>1, CredentialsInv, PTL

(* No authentication that succeeded is missing from the time of the last use, nor is one *)
(* at or after the expiry (Firestore.Authenticate).                                       *)
THEOREM UseIsAlwaysRecorded == Spec => []UseIsRecorded
<1>1. Inv => UseIsRecorded
  BY DEF Inv
<1> QED BY <1>1, CredentialsInv, PTL

-----------------------------------------------------------------------------
(* Revocation. *)

FinalStep ==
    \A id \in Ids : records[id].revoked # None =>
      /\ records'[id] = records[id]
      /\ \A c \in Calls :
           Granted(c)' /\ call'[c].op = "authenticate" /\ call'[c].id = id => Granted(c)

(* A step that writes nothing grants nothing. *)
LEMMA QuietIsFinal ==
  ASSUME records' = records,
         \A c \in Calls : Granted(c)' /\ call'[c].op = "authenticate" => Granted(c)
  PROVE  FinalStep
BY DEF FinalStep

(* A step that writes the document of a credential that is not revoked, or leaves it as *)
(* it is and grants no authentication, breaks no revocation.                            *)
LEMMA WriteIsFinal ==
  ASSUME Inv, NEW c \in Calls, NEW id \in Ids, call[c].id = id, NEW record, Write(c, record),
         records[id].revoked # None => record = records[id] /\ call[c].op # "authenticate"
  PROVE  FinalStep
<1>1. records' = [k \in Ids |-> IF k = id THEN record ELSE records[k]]
  BY DEF Write, Inv, TypeOK
<1>2. \A d \in Calls \ {c} : call'[d] = call[d]
  BY DEF Write, Answer, Inv, TypeOK
<1>3. call'[c] = NoCall \/ (call'[c].id = id /\ call'[c].op = call[c].op)
  BY DEF Write, Answer, Inv, TypeOK, Call
<1>4. ASSUME NEW k \in Ids, records[k].revoked # None
      PROVE  records'[k] = records[k]
  BY <1>1, <1>4
<1>5. ASSUME NEW k \in Ids, records[k].revoked # None, NEW d \in Calls,
             Granted(d)', call'[d].op = "authenticate", call'[d].id = k
      PROVE  Granted(d)
  <2>1. CASE d = c
    <3>1. call'[c].id = k /\ call'[c].op = "authenticate"
      BY <2>1, <1>5
    <3>2. call'[c] # NoCall
      BY <3>1, NoCallType, NoneIsNothing
    <3>3. k = id /\ call[c].op = "authenticate"
      BY <3>1, <3>2, <1>3
    <3> QED BY <3>3, <1>5
  <2>2. CASE d # c
    BY <2>2, <1>2, <1>5 DEF Granted
  <2> QED BY <2>1, <2>2
<1> QED BY <1>4, <1>5 DEF FinalStep

(* A request that arrives begins a call. *)
LEMMA RequestSends ==
  ASSUME NEW c \in Calls, NEW i \in Instances, Request(c, i)
  PROVE  \E request : Send(c, request) /\ request.phase = "sent"
<1>1. ASSUME NEW id \in Ids, NEW t \in Tenants, NEW e, Create(c, i, id, t, e)
      PROVE  \E request : Send(c, request) /\ request.phase = "sent"
  <2> DEFINE request == [NoCall EXCEPT !.phase = "sent", !.op = "create", !.id = id,
                                       !.tenant = t, !.at = clock[i], !.expires = e]
  <2>1. Send(c, request) /\ request.phase = "sent"
    BY <1>1 DEF Create, NoCall
  <2> QED BY <2>1
<1>2. ASSUME NEW id \in Ids, NEW g \in BOOLEAN, Authenticate(c, i, id, g)
      PROVE  \E request : Send(c, request) /\ request.phase = "sent"
  <2> DEFINE request == [NoCall EXCEPT !.phase = "sent", !.op = "authenticate", !.id = id,
                                       !.at = clock[i], !.genuine = g]
  <2>1. Send(c, request) /\ request.phase = "sent"
    BY <1>2 DEF Authenticate, NoCall
  <2> QED BY <2>1
<1>3. ASSUME NEW id \in Ids, NEW t \in Tenants, NEW a \in Actors, Revoke(c, i, id, t, a)
      PROVE  \E request : Send(c, request) /\ request.phase = "sent"
  <2> DEFINE request == [NoCall EXCEPT !.phase = "sent", !.op = "revoke", !.id = id,
                                       !.tenant = t, !.actor = a, !.at = clock[i]]
  <2>1. Send(c, request) /\ request.phase = "sent"
    BY <1>3 DEF Revoke, NoCall
  <2> QED BY <2>1
<1> QED BY <1>1, <1>2, <1>3 DEF Request

LEMMA StepIsFinal == Inv /\ [Next]_vars => FinalStep
<1> SUFFICES ASSUME Inv, [Next]_vars
             PROVE  FinalStep
  OBVIOUS
<1>1. CASE UNCHANGED vars
  BY <1>1, QuietIsFinal DEF vars, Granted
<1>2. ASSUME NEW c \in Calls, NEW i \in Instances, Request(c, i)
      PROVE  FinalStep
  <2>1. PICK request : Send(c, request) /\ request.phase = "sent"
    BY <1>2, RequestSends
  <2>2. \A d \in Calls : Granted(d)' => Granted(d)
    BY <2>1 DEF Send, Granted, Inv, TypeOK
  <2> QED BY <2>1, <2>2, QuietIsFinal DEF Send
<1>3. ASSUME NEW c \in Calls, StoreCreates(c)
      PROVE  FinalStep
  <2>1. InStore(c) /\ call[c].op = "create" /\ \E record : Write(c, record)
    BY <1>3 DEF StoreCreates
  <2>2. PICK id \in Ids : call[c].id = id /\ records[id] = NoRecord
    BY <2>1 DEF Inv, Complete, Unknown, Stored, InStore
  <2> QED BY <2>1, <2>2, WriteIsFinal DEF NoRecord
<1>4. ASSUME NEW c \in Calls, StoreAuthenticates(c)
      PROVE  FinalStep
  <2>1. /\ InStore(c) /\ call[c].op = "authenticate" /\ \E record : Write(c, record)
        /\ records[call[c].id].revoked = None
    BY <1>4 DEF StoreAuthenticates, Admits
  <2>2. PICK id \in Ids : call[c].id = id
    BY <2>1, FoundRecord
  <2> QED BY <2>1, <2>2, WriteIsFinal
<1>5. ASSUME NEW c \in Calls, StoreRevokes(c)
      PROVE  FinalStep
  <2>1. /\ InStore(c) /\ call[c].op = "revoke"
        /\ Write(c, RevokeAt(records[call[c].id], call[c].at, call[c].actor))
    BY <1>5 DEF StoreRevokes
  <2>2. PICK id \in Ids : call[c].id = id
    BY <2>1, FoundRecord
  <2>3. records[id].revoked # None =>
          RevokeAt(records[id], call[c].at, call[c].actor) = records[id]
    BY DEF RevokeAt
  <2> QED BY <2>1, <2>2, <2>3, WriteIsFinal
<1>6. ASSUME NEW c \in Calls, StoreRefuses(c) \/ GiveUp(c) \/ Return(c)
      PROVE  FinalStep
  <2>1. records' = records
    BY <1>6 DEF StoreRefuses, GiveUp, Return
  <2>2. PICK mine : /\ call' = [call EXCEPT ![c] = mine]
                    /\ \/ mine = NoCall
                       \/ mine = [call[c] EXCEPT !.phase = "abandoned"]
                       \/ mine = [call[c] EXCEPT !.phase = "answered", !.answer = NoRecord]
    BY <1>6 DEF StoreRefuses, Answer, GiveUp, Return, InStore
  <2>3. call[c] \in Call
    BY DEF Inv, TypeOK
  <2>4. mine.phase = "answered" => mine.answer = NoRecord
    BY <2>2, <2>3, NoCallType DEF Call
  <2>5. \A d \in Calls : Granted(d)' => Granted(d)
    BY <2>2, <2>4 DEF Granted, Inv, TypeOK
  <2> QED BY <2>1, <2>5, QuietIsFinal
<1>7. ASSUME NEW i \in Instances, Advance(i)
      PROVE  FinalStep
  BY <1>7, QuietIsFinal DEF Advance, Granted
<1> QED BY <1>1, <1>2, <1>3, <1>4, <1>5, <1>6, <1>7 DEF Next, Serve

(* From the step that revokes a credential on, no authentication with it succeeds and its *)
(* record stays what it is, whatever was under way (ADR-0056, Firestore.Revoke).           *)
THEOREM RevocationIsAlwaysFinal == Spec => RevocationIsFinal
<1>1. Inv /\ [Next]_vars => [FinalStep]_vars
  BY StepIsFinal
<1>2. RevocationIsFinal <=> [][FinalStep]_vars
  BY DEF RevocationIsFinal, FinalStep
<1> QED BY <1>1, <1>2, CredentialsInv, PTL DEF Spec

-----------------------------------------------------------------------------
(* One clock. *)

(* No time the store has, or is about to be given, is ahead of the clock, and none that is *)
(* about to be given to a credential is behind its creation.                               *)
OneClockInv ==
    /\ \A c \in Calls, i \in Instances : InStore(c) => call[c].at <= clock[i]
    /\ \A id \in Ids, i \in Instances : records[id].created <= clock[i]
    /\ \A c \in Calls : InStore(c) =>
         IF call[c].op = "create"
         THEN /\ call[c].at < call[c].expires
              /\ call[c].expires <= call[c].at + MaximumLifetime
         ELSE records[call[c].id].created <= call[c].at
    /\ Manageable

LEMMA OneClockInit == Init => OneClockInv
<1> SUFFICES ASSUME Init
             PROVE  OneClockInv
  OBVIOUS
<1>1. \A c \in Calls : ~InStore(c)
  BY DEF Init, InStore, NoCall
<1>2. \A id \in Ids : ~Stored(id) /\ records[id].created = 0
  BY DEF Init, Stored, NoRecord
<1> QED BY <1>1, <1>2 DEF OneClockInv, Manageable, Init

(* Writing a document that decodes, with the date of creation it had or the call's time. *)
LEMMA OneClockWrite ==
  ASSUME Inv, OneClockInv, NEW c \in Calls, InStore(c), NEW id \in Ids, call[c].id = id,
         NEW record \in Record, Write(c, record), clock' = clock, Decodes(record),
         \/ record.created = records[id].created
         \/ record.created = call[c].at /\ call[c].op = "create"
  PROVE  OneClockInv'
<1>1. records' = [k \in Ids |-> IF k = id THEN record ELSE records[k]]
  BY DEF Write, Inv, TypeOK
<1>2. \A d \in Calls : InStore(d)' => d # c /\ call'[d] = call[d] /\ InStore(d)
  BY NoCallType DEF Write, Answer, Inv, TypeOK, InStore, Call
<1>3. \A d \in Calls : InStore(d)' /\ call'[d].op # "create" =>
        call[d].id \in Ids /\ records'[call[d].id].created = records[call[d].id].created
  BY <1>1, <1>2 DEF Inv, Complete, Known, Unknown, InStore
<1>4. \A k \in Ids, i \in Instances : records'[k].created <= clock'[i]
  BY <1>1 DEF OneClockInv
<1>5. Manageable'
  BY <1>1 DEF OneClockInv, Manageable, Stored
<1>6. \A d \in Calls : InStore(d)' =>
         IF call'[d].op = "create"
         THEN /\ call'[d].at < call'[d].expires
              /\ call'[d].expires <= call'[d].at + MaximumLifetime
         ELSE records'[call'[d].id].created <= call'[d].at
  BY <1>2, <1>3 DEF OneClockInv
<1>7. \A d \in Calls, i \in Instances : InStore(d)' => call'[d].at <= clock'[i]
  BY <1>2 DEF OneClockInv
<1> QED BY <1>4, <1>5, <1>6, <1>7 DEF OneClockInv

(* A step that writes nothing, and after which no other call is in the store's hands. *)
LEMMA OneClockQuiet ==
  ASSUME Inv, OneClockInv, records' = records,
         \A i \in Instances : clock'[i] \in Nat /\ clock[i] <= clock'[i],
         \A c \in Calls : InStore(c)' =>
           /\ InStore(c) /\ call'[c].op = call[c].op /\ call'[c].id = call[c].id
           /\ call'[c].at = call[c].at /\ call'[c].expires = call[c].expires
  PROVE  OneClockInv'
<1>1. \A i \in Instances : clock[i] \in Nat
  BY DEF Inv, TypeOK
<1>2. \A c \in Calls : call[c].at \in Nat
  BY DEF Inv, TypeOK, Call
<1>3. \A id \in Ids : records[id].created \in Nat
  BY DEF Inv, TypeOK, Record, NoRecord
<1>4. \A c \in Calls, i \in Instances : InStore(c)' => call'[c].at <= clock'[i]
  BY <1>1, <1>2 DEF OneClockInv
<1>5. \A id \in Ids, i \in Instances : records'[id].created <= clock'[i]
  BY <1>1, <1>3 DEF OneClockInv
<1>6. \A c \in Calls : InStore(c)' =>
         IF call'[c].op = "create"
         THEN /\ call'[c].at < call'[c].expires
              /\ call'[c].expires <= call'[c].at + MaximumLifetime
         ELSE records'[call'[c].id].created <= call'[c].at
  BY DEF OneClockInv
<1>7. Manageable'
  BY DEF OneClockInv, Manageable, Stored
<1> QED BY <1>4, <1>5, <1>6, <1>7 DEF OneClockInv

(* A request takes its time from the clock every other one has. *)
LEMMA OneClockSend ==
  ASSUME Inv, OneClockInv, \A j, k \in Instances : j = k,
         NEW c \in Calls, NEW i \in Instances, NEW request, Send(c, request),
         request.at = clock[i],
         IF request.op = "create"
         THEN /\ request.at < request.expires
              /\ request.expires <= request.at + MaximumLifetime
         ELSE request.id \in Ids
  PROVE  OneClockInv'
<1>1. /\ call' = [d \in Calls |-> IF d = c THEN request ELSE call[d]]
      /\ records' = records /\ clock' = clock
  BY DEF Send, Inv, TypeOK
<1>2. clock[i] <= clock[i]
  BY DEF Inv, TypeOK
<1>3. \A d \in Calls, j \in Instances : InStore(d)' => call'[d].at <= clock'[j]
  BY <1>1, <1>2 DEF OneClockInv, InStore
<1>4. \A d \in Calls : InStore(d)' =>
         IF call'[d].op = "create"
         THEN /\ call'[d].at < call'[d].expires
              /\ call'[d].expires <= call'[d].at + MaximumLifetime
         ELSE records'[call'[d].id].created <= call'[d].at
  BY <1>1 DEF OneClockInv, InStore
<1>5. (\A id \in Ids, j \in Instances : records'[id].created <= clock'[j]) /\ Manageable'
  BY <1>1 DEF OneClockInv, Manageable, Stored
<1> QED BY <1>3, <1>4, <1>5 DEF OneClockInv

(* The operations under one clock. *)
LEMMA OneClockRequest ==
  ASSUME Inv, OneClockInv, \A j, k \in Instances : j = k,
         NEW c \in Calls, NEW i \in Instances, Request(c, i)
  PROVE  OneClockInv'
<1>1. ASSUME NEW id \in Ids, NEW t \in Tenants, NEW e, Create(c, i, id, t, e)
      PROVE  OneClockInv'
  <2> DEFINE request == [NoCall EXCEPT !.phase = "sent", !.op = "create", !.id = id,
                                       !.tenant = t, !.at = clock[i], !.expires = e]
  <2>1. Send(c, request) /\ clock[i] < e /\ e <= clock[i] + MaximumLifetime
    BY <1>1 DEF Create
  <2>2. request.op = "create" /\ request.at = clock[i] /\ request.expires = e
    BY DEF NoCall
  <2> HIDE DEF request
  <2> QED BY <2>1, <2>2, OneClockSend
<1>2. ASSUME NEW id \in Ids, NEW g \in BOOLEAN, Authenticate(c, i, id, g)
      PROVE  OneClockInv'
  <2> DEFINE request == [NoCall EXCEPT !.phase = "sent", !.op = "authenticate", !.id = id,
                                       !.at = clock[i], !.genuine = g]
  <2>1. Send(c, request)
    BY <1>2 DEF Authenticate
  <2>2. request.op = "authenticate" /\ request.at = clock[i] /\ request.id = id
    BY DEF NoCall
  <2> HIDE DEF request
  <2> QED BY <2>1, <2>2, OneClockSend
<1>3. ASSUME NEW id \in Ids, NEW t \in Tenants, NEW a \in Actors, Revoke(c, i, id, t, a)
      PROVE  OneClockInv'
  <2> DEFINE request == [NoCall EXCEPT !.phase = "sent", !.op = "revoke", !.id = id,
                                       !.tenant = t, !.actor = a, !.at = clock[i]]
  <2>1. Send(c, request)
    BY <1>3 DEF Revoke
  <2>2. request.op = "revoke" /\ request.at = clock[i] /\ request.id = id
    BY DEF NoCall
  <2> HIDE DEF request
  <2> QED BY <2>1, <2>2, OneClockSend
<1> QED BY <1>1, <1>2, <1>3 DEF Request

LEMMA OneClockCreates ==
  ASSUME Inv, OneClockInv, NEW c \in Calls, StoreCreates(c)
  PROVE  OneClockInv'
<1> DEFINE record == [NoRecord EXCEPT !.tenant = call[c].tenant, !.created = call[c].at,
                                      !.expires = call[c].expires]
<1>1. /\ call[c] \in Call /\ InStore(c) /\ call[c].op = "create" /\ Write(c, record)
      /\ clock' = clock
  BY DEF StoreCreates, Inv, TypeOK
<1>2. PICK id \in Ids : call[c].id = id /\ call[c].tenant \in Tenants
  BY <1>1 DEF Inv, Complete, InStore
<1>3. call[c].at \in Nat /\ call[c].expires \in Nat
  BY <1>1 DEF Call
<1>4. /\ record \in Record /\ record.created = call[c].at /\ record.expires = call[c].expires
      /\ record.revoked = None /\ record.revokedBy = None /\ record.used = None
  BY <1>2, <1>3 DEF NoRecord, Record
<1>5. call[c].at < call[c].expires /\ call[c].expires <= call[c].at + MaximumLifetime
  BY <1>1 DEF OneClockInv
<1> HIDE DEF record
<1>6. Decodes(record)
  BY <1>4, <1>5 DEF Decodes
<1> QED BY <1>1, <1>2, <1>4, <1>6, OneClockWrite

LEMMA OneClockAuthenticates ==
  ASSUME Inv, OneClockInv, NEW c \in Calls, StoreAuthenticates(c)
  PROVE  OneClockInv'
<1>1. /\ InStore(c) /\ call[c].op = "authenticate"
      /\ Admits(c, records[call[c].id])
      /\ Write(c, UseAt(records[call[c].id], call[c].at))
      /\ clock' = clock
  BY DEF StoreAuthenticates
<1>2. PICK id \in Ids : call[c].id = id
  BY <1>1, FoundRecord
<1>3. /\ call[c].at \in Nat /\ records[id] \in Record
      /\ records[id].used # None => records[id].used < records[id].expires
  BY <1>1, <1>2, FoundRecord
<1>4. call[c].at < records[id].expires /\ Decodes(records[id])
  BY <1>1, <1>2 DEF Admits
<1>5. records[id].created <= call[c].at
  BY <1>1, <1>2 DEF OneClockInv
<1> DEFINE record == UseAt(records[id], call[c].at)
<1>6. /\ record \in Record /\ record.used \in Nat /\ call[c].at <= record.used
      /\ record.revoked = records[id].revoked /\ record.revokedBy = records[id].revokedBy
      /\ record.created = records[id].created /\ record.expires = records[id].expires
  BY <1>3, <1>4, UseAtKeeps
<1>7. Write(c, record)
  BY <1>1, <1>2
<1> HIDE DEF record
<1>8. records[id].created <= record.used
  BY <1>3, <1>5, <1>6 DEF Record
<1>9. Decodes(record)
  BY <1>4, <1>6, <1>8 DEF Decodes
<1> QED BY <1>1, <1>2, <1>6, <1>7, <1>9, OneClockWrite

LEMMA OneClockRevokes ==
  ASSUME Inv, OneClockInv, NEW c \in Calls, StoreRevokes(c)
  PROVE  OneClockInv'
<1>1. /\ InStore(c) /\ call[c].op = "revoke"
      /\ Decodes(records[call[c].id])
      /\ Write(c, RevokeAt(records[call[c].id], call[c].at, call[c].actor))
      /\ clock' = clock
  BY DEF StoreRevokes
<1>2. PICK id \in Ids : call[c].id = id
  BY <1>1, FoundRecord
<1>3. call[c].at \in Nat /\ records[id] \in Record /\ call[c].actor \in Actors
  BY <1>1, <1>2, FoundRecord DEF Inv, Complete, InStore
<1>4. records[id].created <= call[c].at
  BY <1>1, <1>2 DEF OneClockInv
<1> DEFINE record == RevokeAt(records[id], call[c].at, call[c].actor)
<1>5. /\ record \in Record
      /\ records[id].revoked # None => record = records[id]
      /\ records[id].revoked = None => record.revoked = call[c].at /\ record.revokedBy = call[c].actor
      /\ record.used = records[id].used
      /\ record.created = records[id].created /\ record.expires = records[id].expires
  BY <1>3, RevokeAtKeeps
<1>6. Write(c, record)
  BY <1>1, <1>2
<1> HIDE DEF record
<1>7. Decodes(record)
  <2>1. CASE records[id].revoked # None
    BY <2>1, <1>1, <1>2, <1>5
  <2>2. CASE records[id].revoked = None
    <3>1. record.revoked # None /\ record.revokedBy # None /\ record.created <= record.revoked
      BY <2>2, <1>3, <1>4, <1>5, NoneIsNothing
    <3> QED BY <3>1, <1>1, <1>2, <1>5 DEF Decodes
  <2> QED BY <2>1, <2>2
<1> QED BY <1>1, <1>2, <1>5, <1>6, <1>7, OneClockWrite

LEMMA OneClockOther ==
  ASSUME Inv, OneClockInv, NEW c \in Calls, StoreRefuses(c) \/ GiveUp(c) \/ Return(c)
  PROVE  OneClockInv'
<1>1. call[c] \in Call /\ records' = records /\ clock' = clock
  BY DEF Inv, TypeOK, StoreRefuses, GiveUp, Return
<1>2. PICK mine : /\ call' = [call EXCEPT ![c] = mine]
                  /\ \/ mine = NoCall
                     \/ InStore(c) /\ mine = [call[c] EXCEPT !.phase = "abandoned"]
                     \/ InStore(c) /\ mine = [call[c] EXCEPT !.phase = "answered", !.answer = NoRecord]
  BY DEF StoreRefuses, Answer, GiveUp, Return, InStore
<1>3. mine.phase \in {"sent", "abandoned"} =>
        /\ InStore(c) /\ mine.op = call[c].op /\ mine.id = call[c].id
        /\ mine.at = call[c].at /\ mine.expires = call[c].expires
  BY <1>1, <1>2, NoCallType DEF Call
<1>4. call' = [d \in Calls |-> IF d = c THEN mine ELSE call[d]]
  BY <1>2 DEF Inv, TypeOK
<1>5. \A d \in Calls : InStore(d)' =>
        /\ InStore(d) /\ call'[d].op = call[d].op /\ call'[d].id = call[d].id
        /\ call'[d].at = call[d].at /\ call'[d].expires = call[d].expires
  BY <1>3, <1>4 DEF InStore
<1>6. \A i \in Instances : clock'[i] \in Nat /\ clock[i] <= clock'[i]
  BY <1>1 DEF Inv, TypeOK
<1> QED BY <1>1, <1>5, <1>6, OneClockQuiet

LEMMA OneClockAdvance ==
  ASSUME Inv, OneClockInv, NEW i \in Instances, Advance(i)
  PROVE  OneClockInv'
<1>1. \A j \in Instances : clock'[j] \in Nat /\ clock[j] <= clock'[j]
  BY DEF Advance, Inv, TypeOK
<1>2. records' = records /\ call' = call
  BY DEF Advance
<1> QED BY <1>1, <1>2, OneClockQuiet DEF InStore

LEMMA OneClockNext ==
  ASSUME \A j, k \in Instances : j = k
  PROVE  Inv /\ OneClockInv /\ [Next]_vars => OneClockInv'
<1> SUFFICES ASSUME Inv, OneClockInv, [Next]_vars
             PROVE  OneClockInv'
  OBVIOUS
<1>1. CASE UNCHANGED vars
  <2>1. clock' = clock /\ records' = records /\ call' = call
    BY <1>1 DEF vars
  <2>2. \A i \in Instances : clock'[i] \in Nat /\ clock[i] <= clock'[i]
    BY <2>1 DEF Inv, TypeOK
  <2> QED BY <2>1, <2>2, OneClockQuiet DEF InStore
<1>2. ASSUME NEW c \in Calls, NEW i \in Instances, Request(c, i)
      PROVE  OneClockInv'
  BY <1>2, OneClockRequest
<1>3. ASSUME NEW c \in Calls, Serve(c) \/ GiveUp(c) \/ Return(c)
      PROVE  OneClockInv'
  BY <1>3, OneClockCreates, OneClockAuthenticates, OneClockRevokes, OneClockOther DEF Serve
<1>4. ASSUME NEW i \in Instances, Advance(i)
      PROVE  OneClockInv'
  BY <1>4, OneClockAdvance
<1> QED BY <1>1, <1>2, <1>3, <1>4 DEF Next

(* With a single instance every document the store holds decodes for as long as it is *)
(* stored, so it can be looked up, listed and revoked (ValidateStoredRecord).           *)
THEOREM OneClockManageable ==
  ASSUME \A j, k \in Instances : j = k
  PROVE  Spec => []Manageable
<1>1. Init => Inv /\ OneClockInv
  BY InvInit, OneClockInit
<1>2. (Inv /\ OneClockInv) /\ [Next]_vars => (Inv /\ OneClockInv)'
  BY InvNext, OneClockNext
<1>3. OneClockInv => Manageable
  BY DEF OneClockInv
<1> QED BY <1>1, <1>2, <1>3, PTL DEF Spec

=============================================================================
