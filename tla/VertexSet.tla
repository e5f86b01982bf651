--------------------------- MODULE VertexSet ---------------------------
(***************************************************************************)
(* What cuckoo_hash_set promises: a set of elements, with one call at a    *)
(* time, and an insertion that does nothing to the set after it has begun. *)
(***************************************************************************)
CONSTANT Elem

VARIABLES
  elems,
  busy   \* an insertion has not returned

Init == elems = {} /\ busy = FALSE

Insert(k) == ~ busy /\ busy' = TRUE /\ elems' = elems \cup {k}

Return == busy /\ busy' = FALSE /\ UNCHANGED elems

Erase(k) == ~ busy /\ k \in elems /\ elems' = elems \ {k} /\ UNCHANGED busy

\* clear, and reserve when it allocates a new table.
Empty == ~ busy /\ elems' = {} /\ UNCHANGED busy

Next == (\E k \in Elem : Insert(k) \/ Erase(k)) \/ Return \/ Empty

Spec == Init /\ [][Next]_<<elems, busy>>
=======================================================================
