------------------------------ MODULE MCLedger ------------------------------
(* PacketLedger and the exports built from it on a small instance: ledgers of up to *)
(* MaxEvents events.                                                                *)
EXTENDS Export, FiniteSetsExt, TLC

CONSTANT MaxEvents

Events(ledger) == MapThenSumSet(LAMBDA p : ledger[p].version, PacketIDs)

BoundedNext == ExportNext /\ Events(packets') <= MaxEvents

BoundedSpec == ExportInit /\ [][BoundedNext]_exportVars

\* Of a history read in another version than the record, only that matters: such a build
\* cannot verify any more.
View ==
    <<packets, live,
      IF build = NoBuild THEN <<>>
      ELSE <<build.listed,
             [p \in PacketIDs |->
                IF build.history[p].version \in {0, build.listed[p].version}
                THEN <<build.history[p]>> ELSE <<>>]>> >>

Symmetry == Permutations(PacketIDs)

=============================================================================
