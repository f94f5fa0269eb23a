----------------------------- MODULE Dictionary -----------------------------
(***************************************************************************)
(* What a search tree promises (entry.go): one value a key, the last one   *)
(* that was put under it and not deleted since.                            *)
(***************************************************************************)
CONSTANTS Keys, Vals

VARIABLE map

Init == map = [k \in {} |-> {}]

(* Put: the value under the key is the new one, whether there was one. *)
Put(k, v) == map' = [i \in DOMAIN map \cup {k} |-> IF i = k THEN v ELSE map[i]]

(* Delete: nothing under the key; the others are not touched. *)
Delete(k) == map' = [i \in DOMAIN map \ {k} |-> map[i]]

Next == \E k \in Keys : Delete(k) \/ \E v \in Vals : Put(k, v)

Spec == Init /\ [][Next]_map
=============================================================================
