---------------------------- MODULE RBTreeRounds ----------------------------
(***************************************************************************)
(* RBTree with a history variable, which counts the rounds of the repair   *)
(* that runs and decides no step: how long a repair takes, as a bound that *)
(* each state keeps, where RBTree can only say that it ends.               *)
(***************************************************************************)
EXTENDS RBTree

VARIABLE
  rounds  \* rounds of the repair, but those that find no sibling

rvars == << vars, rounds >>

RoundsInit == Init /\ rounds = 0

(* A call begins, or a round leaves the cursor where it is. *)
Uncounted ==
  \/ \E k \in Keys : Delete(k)
  \/ \E k \in Keys, v \in Vals : OneUnusual(k, v) /\ Put(k, v)
  \/ FixupSpin
Round == FixupRecolor \/ FixupRotate \/ FixupDelete
End == FixupPutEnd \/ FixupDeleteEnd

RoundsNext ==
  \/ Uncounted /\ UNCHANGED rounds
  \/ Round /\ rounds' = rounds + 1
  \/ End /\ rounds' = 0

RoundsSpec == RoundsInit /\ [][RoundsNext]_rvars
FairRoundsSpec == RoundsSpec /\ WF_vars(Fixup)

-----------------------------------------------------------------------------
(* There is nothing left for the repair to do, or, in Delete, no sibling   *)
(* to do it with, now and in every round to come.                          *)
Alone == child[Up(cursor)][Opp(Side(Tree, cursor))] = Nil
NothingLeft ==
  \/ pc = "put" /\ PutAtEnd
  \/ pc = "delete" /\ (AtEnd \/ Alone)

(* A repair is short, in a tree out of balance too: two rounds take four   *)
(* entries and one more.  So the loops of fixupPut and fixupDelete end by  *)
(* themselves, and a Delete that does not return (entry.go:641) is one     *)
(* that found no sibling.                                                  *)
FewRounds ==
  pc # "idle" => 2 * rounds < Cardinality({n \in Keys : value[n] # Nil})

(* A repair turns the tree in one round, which is its last: Put rotates    *)
(* twice at most, Delete three times.                                      *)
TurnsOnce == [][pc # "idle" /\ child' # child => NothingLeft']_vars
=============================================================================
