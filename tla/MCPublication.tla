--------------------------- MODULE MCPublication ---------------------------
(***************************************************************************)
(* Publication on small instances.                                         *)
(*                                                                         *)
(* The view is a bisimulation: ids of exports matter up to renaming, so it *)
(* replaces each by the first place that refers to it; observed and        *)
(* releasedOver are only ever compared with an export some instance holds, *)
(* fetches, makes or finds live; released only counts while it is younger  *)
(* than RenewalAge and shows the whole store; and no step depends on the   *)
(* rest of the site.                                                       *)
(***************************************************************************)
EXTENDS Publication, SequencesExt, TLC

Order == SetToSeq(Instances)

Places ==
    <<live, stray.made, deploy.made>> \o FlattenSeq([k \in DOMAIN Order |->
      LET i == Order[k] IN <<fetched[i], held[i], call[i].base, call[i].made>>])

\* The first place of each place's export, and 0 for no export.
Firsts(places) ==
    [k \in DOMAIN places |->
       IF places[k] = None THEN 0
       ELSE CHOOSE j \in 1..k : places[j] = places[k] /\ \A h \in 1..(j - 1) : places[h] # places[k]]

View ==
    LET places == Places
        firsts == Firsts(places)
        PlaceOf(c) == IF \E k \in DOMAIN places : places[k] = c /\ c # None
                      THEN firsts[CHOOSE k \in DOMAIN places : places[k] = c] ELSE 0
    IN  <<store, served, deploy.uploads, countVars, firsts,
          [k \in DOMAIN places |-> IF firsts[k] # k THEN <<>> ELSE <<copy[places[k]]>>],
          [i \in Instances |->
             <<up[i], queue[i],
               PlaceOf(observed[i]),
               IF /\ released[i] # None /\ ~Due(released[i])
                  /\ copy[released[i]].content = store /\ PlaceOf(releasedOver[i]) # 0
               THEN <<PlaceOf(releasedOver[i]), copy[released[i]].age>> ELSE <<>> >>]>>
=============================================================================
