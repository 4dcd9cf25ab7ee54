----------------------------- MODULE OneAnswer -----------------------------
(***************************************************************************)
(* What an idempotency key promises to whoever sends it: the first answer  *)
(* that is settled for a key is the only one anybody is ever told.         *)
(***************************************************************************)
CONSTANTS Keys, Ids, NoId

VARIABLES settled,  \* [Keys -> the id settled for the key, or NoId]
          told      \* [Keys -> the ids told to those who sent the key]

Init == settled = [k \in Keys |-> NoId] /\ told = [k \in Keys |-> {}]

(* An id is settled for a key without one; whoever brought it may be told. *)
Settle(k, i) ==
    /\ settled[k] = NoId /\ settled' = [settled EXCEPT ![k] = i]
    /\ told' \in {told, [told EXCEPT ![k] = @ \cup {i}]}

Tell(k) ==
    /\ settled[k] # NoId /\ told' = [told EXCEPT ![k] = @ \cup {settled[k]}]
    /\ UNCHANGED settled

Next == \E k \in Keys : Tell(k) \/ \E i \in Ids : Settle(k, i)
Spec == Init /\ [][Next]_<<settled, told>>
=============================================================================
