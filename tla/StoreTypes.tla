----------------------------- MODULE StoreTypes -----------------------------
(***************************************************************************)
(* The data every part of storectrl exchanges: API objects, change events  *)
(* and log entries, and what the JSON round trips of the backends do to    *)
(* them.                                                                   *)
(*                                                                         *)
(* An object keeps the parts the properties tell apart.  `spec' and        *)
(* `status' are values, `labels' is the set of label keys (it stands for   *)
(* all map-valued metadata), and generation, uid and rv are the metadata   *)
(* the store manages.  A uid or rv of 0 is the empty string.               *)
(***************************************************************************)
EXTENDS Naturals, Sequences

CONSTANTS
    Kinds,      \* group-version-kinds registered in the scheme
    Keys,       \* namespace/name keys
    Specs,      \* values of an object's spec
    Statuses,   \* values of an object's status
    Labels,     \* label keys
    Zero,       \* the zero value of a spec or status
    OmitEmpty,  \* TRUE if the type's JSON tags omit zero values (omitempty)
    NoObject    \* the absence of an object

ASSUME NoObjectAssumption ==
    NoObject \notin [key : Keys, spec : Specs, status : Statuses,
                     labels : SUBSET Labels, generation : Nat, uid : Nat, rv : Nat]

ASSUME KindsAssumption == Kinds # {}

Object == [key : Keys, spec : Specs, status : Statuses,
           labels : SUBSET Labels, generation : Nat, uid : Nat, rv : Nat]

(* EventBookmark is never produced by the memory and filesystem backends.  *)
Event == [type : {"ADDED", "MODIFIED", "DELETED"}, obj : Object]

eventLogEntry == [revision : Nat, gvk : Kinds, event : Event]

(***************************************************************************)
(* json.Unmarshal(json.Marshal(src), dst).  Fields that src's JSON carries *)
(* replace those of dst.  A zero value that the tags omit leaves dst's     *)
(* field alone, and a JSON map is merged into the map dst already holds.   *)
(***************************************************************************)
Omitted(v) == OmitEmpty /\ v = Zero

Decode(src, dst) ==
    [src EXCEPT !.spec   = IF Omitted(src.spec) THEN dst.spec ELSE src.spec,
                !.status = IF Omitted(src.status) THEN dst.status ELSE src.status,
                !.labels = src.labels \cup dst.labels]

(***************************************************************************)
(* The elements of s at the positions in keep, in order: the loop that     *)
(* appends the entries passing a test to a fresh slice.                    *)
(***************************************************************************)
Pick(s, keep) ==
    LET upTo[i \in 0..Len(s)] ==
          IF i = 0 THEN <<>>
          ELSE IF i \in keep THEN Append(upTo[i - 1], s[i])
          ELSE upTo[i - 1]
    IN  upTo[Len(s)]
=============================================================================
