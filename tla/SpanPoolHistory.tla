--------------------------- MODULE SpanPoolHistory ---------------------------
(***************************************************************************)
(* SpanPool with a history variable, which records how much of the class   *)
(* there was when an Alloc looked at its slice and decides no step.  It    *)
(* says what the walk of an old snapshot is worth: SpanPool itself does    *)
(* not know what a goroutine has looked at once the walk is over.          *)
(***************************************************************************)
EXTENDS SpanPool

VARIABLE
  known  \* known[p]: the spans there were when Alloc of p loaded the slice

hvars == << vars, known >>

HistoryInit == Init /\ known = [p \in Procs |-> 0]

Look(p) ==
  /\ AllocStart(p)
  /\ known' = [known EXCEPT ![p] = used]

Onward(p) ==
  \/ AllocTake(p) \/ AllocPass(p) \/ AllocMiss(p)
  \/ AllocNeed(p) \/ AsyncLoad(p) \/ AsyncSwap(p) \/ AsyncSwapFails(p)
  \/ RemoveHead(p) \/ ExpendSync(p) \/ ExpendSyncSkip(p) \/ ExpendSyncFails(p)
  \/ StoreGen(p)

HistoryNext ==
  \/ \E p \in Procs : Look(p)
  \/ (Grow \/ MemoryRefused \/ \E p \in Procs : Onward(p)) /\ UNCHANGED known

HistorySpec == HistoryInit /\ [][HistoryNext]_hvars
FairHistorySpec == HistorySpec /\ Fairness

-----------------------------------------------------------------------------
(* A goroutine asks for another span only when the class has no slot left  *)
(* of those it had at the load of the slice ("no span has room",           *)
(* span_pool.go:166): heads that others remove during the walk, and spans  *)
(* that were appended or removed just before, hide no free slot from it,   *)
(* but for the one that isFull releases with a span its slots fill.        *)
GrowsForNeed ==
  \A p \in Procs : pc[p] = "expand" =>
    \A s \in 1 .. known[p] :
      \/ allocCount[s] >= nelems
      \/ s \in full /\ nelems - allocCount[s] <= Slack

(* Alloc is lock-free: it calls itself again (span_pool.go:170) only when  *)
(* the class has got a span that the walk before could not see, appended   *)
(* by this goroutine or by another, never just to look once more.          *)
AgainMeansGrown ==
  \A p \in Procs : pc[p] \in {"expanded", "again"} => used > known[p]

-----------------------------------------------------------------------------
(* What makes them inductive: of the spans that were known, those that are *)
(* not behind the walk are used up or on the full list.                    *)
Gone(s) == s \in full \/ allocCount[s] >= nelems
Ahead(p) == {seen[p][i] : i \in idex[p] .. Len(seen[p])}

WalkedUp ==
  \A p \in Procs :
    /\ pc[p] = "walk" => \A s \in 1 .. known[p] : Gone(s) \/ s \in Ahead(p)
    /\ pc[p] = "expand" => \A s \in 1 .. known[p] : Gone(s)
HistoryType == known \in [Procs -> Nat] /\ \A p \in Procs : known[p] <= used
HistoryInv == HistoryType /\ WalkedUp /\ AgainMeansGrown
=============================================================================
