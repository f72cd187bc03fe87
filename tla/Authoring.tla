----------------------------- MODULE Authoring ------------------------------
(***************************************************************************)
(* Drafts and their issue (authoring/workspace.go), in several instances   *)
(* that share the ledger.  A draft lives in the memory of one instance and *)
(* ends with it; its packet is issued by the tracker, whose answer may be  *)
(* an error although the packet is issued, or will be later.               *)
(*                                                                         *)
(* An instance handles one request on its drafts at a time                 *)
(* (workspace.mu), the whole issue included.  A refusal that changes       *)
(* nothing is no step.  The tabs of a draft's author may have any version  *)
(* of it on the screen.                                                    *)
(***************************************************************************)
EXTENDS PacketLedger, SequencesExt

CONSTANTS
    Instances,      \* the processes that serve
    DraftIDs,       \* the random ids a draft may get
    Bodies,         \* complete bodies
    Incomplete      \* a body with a field left blank

VARIABLES
    drafts,         \* every draft, with all its versions
    calls,          \* the issue each instance is at
    late,           \* issues reported as failed that may yet reach the ledger
    frozen          \* which version of which draft each packet was issued from

authoringVars == <<packets, drafts, calls, late, frozen>>

Contents == [packet : PacketIDs, body : Bodies \cup {Incomplete}]

\* The version of a draft is the number of its contents so far.
Draft == [home : Instances, author : Actors, tenant : TenantIDs,
          parent : PacketIDs \cup {None}, state : {"draft", "issued", "lost"},
          contents : Seq(Contents)]

NoDraft == <<>>

\* An issue: the version the author asked for, what was read of the draft and the parent,
\* and how far the call is.
Call == [draft : DraftIDs, version : Nat, tenant : TenantIDs, parent : PacketIDs \cup {None},
         content : Contents, expected : Nat, state : {"sent", "committed"}]

NoCall == <<>>

\* A packet is frozen with a complete body.
Freeze == [draft : DraftIDs, version : Nat, body : Bodies]

NotFrozen == <<>>

AuthoringInit ==
    /\ Init
    /\ drafts = [d \in DraftIDs |-> NoDraft]
    /\ calls = [i \in Instances |-> NoCall]
    /\ late = {}
    /\ frozen = [p \in PacketIDs |-> NotFrozen]

\* workspace.mu is free.
Free(i) == calls[i] = NoCall

Version(d) == Len(drafts[d].contents)

-----------------------------------------------------------------------------
(* Writing drafts. *)

NewDraft(i, d, a, tenant, parent, content) ==
    /\ Free(i) /\ drafts[d] = NoDraft
    /\ drafts' = [drafts EXCEPT ![d] =
         [home |-> i, author |-> a, tenant |-> tenant, parent |-> parent,
          state |-> "draft", contents |-> <<content>>]]
    /\ UNCHANGED <<packets, calls, late, frozen>>

CreateDraft(i, d, a, tenant, content) == NewDraft(i, d, a, tenant, None, content)

\* Fault: the parent may be any tenant's.
ParentIsIssued(parent, tenant) == Issued(parent)

\* Only a packet of the author's own tenant can be superseded.
ParentIsOwn(parent, tenant) == Issued(parent) /\ packets[parent].tenant = tenant

CreateSupersession(i, d, a, tenant, parent, content) ==
    /\ ParentIsOwn(parent, tenant)
    /\ content.packet # parent
    /\ NewDraft(i, d, a, tenant, parent, content)

\* Fault: an issued draft can still be edited.
EditableStill(i, d, v) ==
    /\ Free(i)
    /\ drafts[d] # NoDraft /\ drafts[d].home = i /\ drafts[d].state # "lost"
    /\ v = Version(d)

\* Fault: nobody compares versions.
EditableAnyVersion(i, d, v) ==
    /\ Free(i)
    /\ drafts[d] # NoDraft /\ drafts[d].home = i /\ drafts[d].state = "draft"

\* The instance has the draft, it is not issued, and the author saw its last version.
Editable(i, d, v) ==
    /\ Free(i)
    /\ drafts[d] # NoDraft /\ drafts[d].home = i /\ drafts[d].state = "draft"
    /\ v = Version(d)

EditDraft(i, d, v, content) ==
    /\ Editable(i, d, v)
    /\ content.packet # drafts[d].parent
    /\ drafts' = [drafts EXCEPT ![d].contents = Append(@, content)]
    /\ UNCHANGED <<packets, calls, late, frozen>>

-----------------------------------------------------------------------------
(* Issuing a draft. *)

\* Fault: a body with a blank field is issued.
CompleteAnyhow(content) == TRUE

Complete(content) == content.body # Incomplete

\* The draft is judged complete, and of its parent the version is read.
BeginIssue(i, d, v) ==
    /\ Editable(i, d, v)
    /\ LET content == Last(drafts[d].contents)
           parent  == drafts[d].parent
       IN  /\ Complete(content)
           /\ calls' = [calls EXCEPT ![i] =
                [draft |-> d, version |-> v, tenant |-> drafts[d].tenant, parent |-> parent,
                 content |-> content,
                 expected |-> IF parent = None THEN 0 ELSE packets[parent].version,
                 state |-> "sent"]]
    /\ UNCHANGED <<packets, drafts, late, frozen>>

\* The ledger carries an issue out.
Commit(c) ==
    /\ IF c.parent = None THEN Issue(c.content.packet, c.tenant)
       ELSE /\ packets[c.parent].version = c.expected
            /\ Supersede(c.parent, c.content.packet, c.tenant)
    /\ frozen' = [frozen EXCEPT ![c.content.packet] =
         [draft |-> c.draft, version |-> c.version, body |-> c.content.body]]

LedgerIssues(i) ==
    /\ calls[i] # NoCall /\ calls[i].state = "sent"
    /\ Commit(calls[i])
    /\ calls' = [calls EXCEPT ![i].state = "committed"]
    /\ UNCHANGED <<drafts, late>>

\* Fault: a draft counts as issued as soon as its issue is sent.
AnsweredAnyhow(c) == TRUE

\* The tracker answers that the packet is issued.
Answered(c) == c.state = "committed"

Issues(d) == [drafts EXCEPT ![d].state = "issued",
                            ![d].contents = Append(@, Last(drafts[d].contents))]

IssueSucceeds(i) ==
    /\ calls[i] # NoCall /\ Answered(calls[i])
    /\ drafts' = Issues(calls[i].draft)
    /\ calls' = [calls EXCEPT ![i] = NoCall]
    /\ UNCHANGED <<packets, late, frozen>>

\* The ledger may still carry out a call that was sent.
GiveUp(c) == late' = IF c.state = "sent" THEN late \cup {c} ELSE late

\* The tracker answers with an error: it refused, or the answer of the ledger was lost, or
\* did not come in time.  The draft stays as it is.
IssueFails(i) ==
    /\ calls[i] # NoCall
    /\ GiveUp(calls[i]) \/ UNCHANGED late
    /\ calls' = [calls EXCEPT ![i] = NoCall]
    /\ UNCHANGED <<packets, drafts, frozen>>

LateIssue ==
    /\ \E c \in late : Commit(c) /\ late' = late \ {c}
    /\ UNCHANGED <<drafts, calls>>

\* The instance ends, and its drafts with it.
Stop(i) ==
    /\ drafts' = [d \in DraftIDs |->
         IF drafts[d] # NoDraft /\ drafts[d].home = i THEN [drafts[d] EXCEPT !.state = "lost"]
         ELSE drafts[d]]
    /\ IF Free(i) THEN UNCHANGED <<calls, late>>
       ELSE /\ GiveUp(calls[i]) \/ UNCHANGED late
            /\ calls' = [calls EXCEPT ![i] = NoCall]
    /\ UNCHANGED <<packets, frozen>>

\* Agents work on the packets.
AgentStep ==
    /\ \E p \in PacketIDs :
         \/ \E a \in Actors : Take(p, a)
         \/ Comment(p)
         \/ \E to \in Statuses : Move(p, to)
         \/ Finish(p)
    /\ UNCHANGED <<drafts, calls, late, frozen>>

AuthoringNext ==
    \/ \E i \in Instances :
         \/ \E d \in DraftIDs, a \in Actors, tenant \in TenantIDs, content \in Contents :
              \/ CreateDraft(i, d, a, tenant, content)
              \/ \E parent \in PacketIDs : CreateSupersession(i, d, a, tenant, parent, content)
         \/ \E d \in {e \in DraftIDs : drafts[e] # NoDraft} : \E v \in 1 .. Version(d) :
              \/ \E content \in Contents : EditDraft(i, d, v, content)
              \/ BeginIssue(i, d, v)
         \/ LedgerIssues(i) \/ IssueSucceeds(i) \/ IssueFails(i) \/ Stop(i)
    \/ LateIssue
    \/ AgentStep

AuthoringSpec == AuthoringInit /\ [][AuthoringNext]_authoringVars

-----------------------------------------------------------------------------
(* Properties. *)

AuthoringTypeOK ==
    /\ TypeOK
    /\ \A d \in DraftIDs : drafts[d] = NoDraft \/ drafts[d] \in Draft
    /\ \A i \in Instances : Free(i) \/ calls[i] \in Call
    /\ late \subseteq Call
    /\ \A p \in PacketIDs : frozen[p] = NotFrozen \/ frozen[p] \in Freeze

\* What a packet froze is what its author saw: the version of the draft the author asked to
\* issue, whatever other tabs wrote, however the issue's answer was lost or came late, and
\* whether or not the draft still exists.
FrozenAsSeen ==
    \A p \in PacketIDs :
      IF ~Issued(p) THEN frozen[p] = NotFrozen
      ELSE /\ frozen[p] # NotFrozen
           /\ LET draft == drafts[frozen[p].draft]
              IN  /\ draft.contents[frozen[p].version] =
                       [packet |-> p, body |-> frozen[p].body]
                  /\ packets[p].parent = draft.parent
                  /\ packets[p].tenant = draft.tenant

\* A draft that is reported as issued is a packet, of the draft's id, tenant, parent and
\* body: an error of the tracker never counts as an issue.
IssuedDraftIsPacket ==
    \A d \in DraftIDs :
      drafts[d] # NoDraft /\ drafts[d].state = "issued" =>
        LET p == Last(drafts[d].contents).packet
        IN  Issued(p) /\ frozen[p].draft = d /\ frozen[p].version = Version(d) - 1

\* A packet is superseded by a packet of its own tenant only.  The tracker does not ask for
\* it: the workspace alone compares the tenants, when the draft is made and never again.
LineageStaysInTenant ==
    \A p \in PacketIDs :
      packets[p].parent # None => packets[packets[p].parent].tenant = packets[p].tenant

\* An issued draft is never changed again, and no draft gets back to an earlier version.
IssuedDraftStays ==
    [][\A d \in DraftIDs : drafts[d] # NoDraft =>
         /\ IsPrefix(drafts[d].contents, drafts'[d].contents)
         /\ drafts[d].state # "draft" => drafts'[d].contents = drafts[d].contents]_authoringVars

=============================================================================
