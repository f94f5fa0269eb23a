---------------------------- MODULE XSpanHistory ----------------------------
(***************************************************************************)
(* XSpan with two history variables, which record what setMarked and the   *)
(* sweep do to each other and never decide a step.  They say how much is   *)
(* lost and how long a Free may take, where XSpan can only say that a slot *)
(* may be lost and that a call returns.                                    *)
(***************************************************************************)
EXTENDS XSpan

VARIABLES
  late,    \* marks that a sweep did not count, up to NElems of them
  retries  \* retries[p]: swaps that failed in the Free of p

history == << late, retries >>
hvars == << vars, history >>

(* The swap of p comes after the recount of freeSpan (class_span.go:105)   *)
(* for the array it marks: a sweep is between the recount and the swap of  *)
(* the arrays, or has replaced the array since p looked it up.             *)
MarksLate(p) == ptr[p] # gcmarkBits \/ \E q \in Procs : pc[q] = "swap"

HistoryInit == Init /\ late = 0 /\ retries = [p \in Procs |-> 0]

(* As many late marks as the span has slots say no more than that many.    *)
LateCas(p) ==
  /\ FreeCas(p)
  /\ late' = IF MarksLate(p) /\ late < NElems THEN late + 1 ELSE late
  /\ retries' = [retries EXCEPT ![p] = 0]

CountRetry(p) ==
  /\ FreeRetry(p)
  /\ retries' = [retries EXCEPT ![p] = @ + 1]
  /\ UNCHANGED late

Unrecorded(p) ==
  /\ Alloc(p) \/ FreeStart(p) \/ FreeLoad(p) \/ Sweep(p)
  /\ UNCHANGED history

HistoryNext == \E p \in Procs : LateCas(p) \/ CountRetry(p) \/ Unrecorded(p)

HistorySpec == HistoryInit /\ [][HistoryNext]_hvars

-----------------------------------------------------------------------------
(* Where the slots are: with a caller, to be handed out, marked for the    *)
(* next sweep, or on their way to a mark.                                  *)
Found ==
  live \cup Candidates \cup InFlight
    \cup (IF gcmarkBits = NoBits THEN {} ELSE bits[gcmarkBits])

(* What a sweep loses is bounded by the marks that came late: each of them *)
(* costs the span one slot at most, in however many sweeps, and nothing    *)
(* else costs it any.  freeSpan's count, the swap of the arrays and the    *)
(* test of isFull that lets the sweep in have to agree for it.             *)
LossBounded == Cardinality(Slots \ Found) <= late

(* setMarked is wait-free, not only lock-free: its word only gains marks   *)
(* while it runs, so that it tries again less often than the word has bits.*)
FewRetries ==
  \A p \in Procs : target[p] # NoSlot => retries[p] < Cardinality(MarkWord(target[p]))

-----------------------------------------------------------------------------
(* What makes them inductive: the span believes to have handed out no more *)
(* than what is held, on its way, marked or was marked late, and a sweep   *)
(* that has counted believes so too; each failed swap has seen a mark more.*)
Out == Cardinality(live) + Cardinality(InFlight) + late
LateInv ==
  late < NElems =>
    /\ allocCount <= Out + Cardinality(Marked)
    /\ \A q \in Procs : pc[q] = "swap" => NElems - gcCount <= Out

Word(p) == bits[ptr[p]] \cap MarkWord(target[p])
RetryInv ==
  \A p \in Procs :
    /\ pc[p] = "load" => retries[p] <= Cardinality(Word(p))
    /\ pc[p] = "cas" => val[p] \subseteq Word(p) /\ retries[p] <= Cardinality(val[p])
    /\ pc[p] \notin {"load", "cas"} => retries[p] = 0
HistoryType == late \in 0 .. NElems /\ retries \in [Procs -> Nat]
HistoryInv == HistoryType /\ LateInv /\ RetryInv
=============================================================================
