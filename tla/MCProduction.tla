----------------------------- MODULE MCProduction -----------------------------
(* Instances of the production workflow for TLC. *)
EXTENDS ProductionProperties, TLC

CONSTANTS steel, chair

\* Two units take one quantity of the one material: what one unit takes is half
\* way between two quantities, and may be rounded to nothing.
OnePerPair == [m \in {steel} |-> 1]
Shelf == [i \in {steel, chair} |-> IF i = steel THEN 2 ELSE 1]

\* Bounds for the run with the longest history: an order that went through held,
\* rework or partially_completed stops after six changes of status, an order of more
\* than one unit after five.
FewDetours ==
  \A o \in Order :
    /\ revision[o] <= 6 \/ \A e \in events[o] : e.to \notin {"held", "rework", "partially_completed"}
    /\ revision[o] <= 5 \/ qty[o] <= 1

\* Bounds for the run on stock: one decision in flight has more than one line, and two
\* orders stop after three changes of status, with one request in flight at a time and
\* no transfer but those of the keepers.
ShortPair ==
  /\ \A d, e \in deciding : Len(d.lines) > 1 /\ Len(e.lines) > 1 => d = e
  /\ (\A o \in Order : Exists(o)) =>
       /\ \A o \in Order : revision[o] <= 3
       /\ InFlight <= 1
       /\ \A d \in deciding : Len(d.lines) <= 1
       /\ \A t \in transfers : t.key \notin ClientKey

AnyOrder == Permutations(Order)
=============================================================================
