------------------------- MODULE DocumentLifecycle -------------------------
(***************************************************************************)
(* What indexing promises about one document: it is stored, then it can be *)
(* found, then its chunks are on record, in this order and for good.  A    *)
(* document may stay in any of these stages for ever.                      *)
(***************************************************************************)
CONSTANT Docs       \* the documents

VARIABLE stage      \* stage[d]: how far document d came

Stage == {"absent", "stored", "searchable", "recorded"}

Follows == {<<"absent", "stored">>, <<"stored", "searchable">>,
            <<"searchable", "recorded">>}

Init == stage = [d \in Docs |-> "absent"]

Advance(d) ==
  \E s \in Stage :
    /\ <<stage[d], s>> \in Follows
    /\ stage' = [stage EXCEPT ![d] = s]

Next == \E d \in Docs : Advance(d)

Spec == Init /\ [][Next]_stage
=============================================================================
