---------------------------- MODULE MCInformer ----------------------------
(* One object with all its contents: accepted or rejected by the           *)
(* transform, matching the selector or not (its spec is then never read);  *)
(* one object for longer; the same for long enough to be created again     *)
(* after its deletion was left out of a replay; two handlers; two objects. *)
EXTENDS Informer

CONSTANTS h1, h2, k1, k2, l1, s1, s2, s3

Matching(specs) == [spec : specs, labels : {{l1}}]
Unmatched == [spec |-> s1, labels |-> {}]

OneObject ==
    [handlers |-> {h1}, keys |-> {k1}, contents |-> Matching({s1, s2, s3}) \cup {Unmatched}, changes |-> 2,
     users |-> TRUE]
Longer ==
    [handlers |-> {h1}, keys |-> {k1}, contents |-> Matching({s1}) \cup {Unmatched}, changes |-> 3, users |-> TRUE]
Recreated == [Longer EXCEPT !.changes = 5, !.users = FALSE]
TwoHandlers ==
    [handlers |-> {h1, h2}, keys |-> {k1}, contents |-> Matching({s1}), changes |-> 1, users |-> TRUE]
TwoObjects ==
    [handlers |-> {h1}, keys |-> {k1, k2}, contents |-> Matching({s1}), changes |-> 2, users |-> TRUE]

MCLoads == {OneObject, Longer, Recreated, TwoHandlers, TwoObjects}
LateLoad == {[Longer EXCEPT !.contents = Matching({s1})]}
===========================================================================
