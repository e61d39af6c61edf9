--------------------------- MODULE MCStoreClient ---------------------------
(* All contents of one object without clients; a patch of one object among *)
(* other writers; a DeleteAllOf of two objects among other writers; and    *)
(* two kinds sharing one revision counter and one event log, with a        *)
(* watcher.                                                                *)
EXTENDS StoreClient

CONSTANTS widget, gadget, k1, k2, l1, zero, s1

Plain == [spec |-> zero, status |-> zero, labels |-> {}]
Labelled == [Plain EXCEPT !.labels = {l1}]

Writing ==
    [calls |-> {}, watched |-> FALSE, kinds |-> {widget}, keys |-> {k1}, contents |-> Content, revisions |-> 4]
Patchers ==
    [Writing EXCEPT !.calls = {"Patch"},
                    !.contents = {Plain, Labelled, [Plain EXCEPT !.spec = s1], [Plain EXCEPT !.status = s1]}]
Deleters ==
    [Writing EXCEPT !.calls = {"DeleteAllOf"}, !.keys = {k1, k2}, !.contents = {Plain, Labelled}]
Watched ==
    [Writing EXCEPT !.watched = TRUE, !.kinds = {widget, gadget}, !.contents = {Plain, Labelled}]

MCLoads == {Writing, Patchers, Deleters, Watched}
=============================================================================
