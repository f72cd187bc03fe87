---------------------------- MODULE MCAuthoring -----------------------------
(* Authoring on a small instance. *)
EXTENDS Authoring, FiniteSetsExt, TLC

CONSTANTS
    MaxVersions,    \* versions of a draft before it is issued
    MaxLate,        \* issues that may come late
    MaxEvents       \* events of all packets

Events(ledger) == MapThenSumSet(LAMBDA p : ledger[p].version, PacketIDs)

BoundedNext ==
    /\ AuthoringNext
    /\ \A d \in DraftIDs :
         drafts'[d] # NoDraft /\ drafts'[d].state = "draft" =>
           Len(drafts'[d].contents) <= MaxVersions
    /\ Cardinality(late') <= MaxLate
    /\ Events(packets') <= MaxEvents

BoundedSpec == AuthoringInit /\ [][BoundedNext]_authoringVars

\* The versions of a draft a packet or an issue under way comes from.
Named(d) ==
    {frozen[p].version : p \in {q \in PacketIDs : frozen[q] # NotFrozen /\ frozen[q].draft = d}}
      \cup {c.version : c \in {e \in late \cup {calls[i] : i \in Instances} :
                                e # NoCall /\ e.draft = d}}

\* Of a draft's versions only the last one and the named ones are read again, of a lost
\* draft only the named ones.
DraftView(d) ==
    IF drafts[d] = NoDraft THEN <<"none">>
    ELSE IF drafts[d].state = "lost"
      THEN IF Named(d) = {} THEN <<"lost">>
           ELSE <<"lost", drafts[d].tenant, drafts[d].parent,
                  [v \in Named(d) |-> drafts[d].contents[v]]>>
    ELSE <<drafts[d].home, drafts[d].tenant, drafts[d].parent, drafts[d].state, Version(d),
           [v \in Named(d) \cup {Version(d)} |-> drafts[d].contents[v]]>>

View == <<packets, calls, late, frozen, [d \in DraftIDs |-> DraftView(d)]>>

Symmetry ==
    Permutations(Instances) \cup Permutations(DraftIDs) \cup Permutations(PacketIDs)
      \cup Permutations(TenantIDs)

=============================================================================
