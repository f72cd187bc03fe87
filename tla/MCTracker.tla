----------------------------- MODULE MCTracker -----------------------------
(* Tracker on small instances: which streams, trackers and abandoned appends there are is *)
(* for each configuration to say.                                                        *)
EXTENDS Tracker, TLC

Symmetry == Permutations(Trackers) \cup Permutations(PacketIDs)

\* A cached stream that no append is being decided on is read again before it is used, so
\* two states that differ in such a stream alone behave alike.
View ==
    <<storeVars, callVars, ready,
      [t \in Trackers |-> IF phase[t] \in {"appending", "committed"}
                          THEN [p \in Touched(request[t]) |-> <<streams[t][p], projection[t][p]>>]
                          ELSE <<>>]>>

=============================================================================
