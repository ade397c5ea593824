---------------------------- MODULE MCSegmentStore ----------------------------
(* One commit stream with two extents, one of which compresses. *)
EXTENDS SegmentStore, TLC

\* Requests are interchangeable: each picks its own operation and key.
RequestSymmetry == Permutations(Requests)

\* At most two requests inside the store at a time.
TwoInFlight ==
    Cardinality({r \in Requests : req[r].pc \in {"submitted", "batched", "committed"}}) <= 2

\* Behaviours are followed until a circumstance that voids every property.
Explored == TwoInFlight /\ gaps \subseteq {"race", "encoded", "marker"}
=============================================================================
