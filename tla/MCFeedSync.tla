----------------------------- MODULE MCFeedSync -----------------------------
(***************************************************************************)
(* Small instances of FeedSync: pages of one or two, windows of two ticks. *)
(***************************************************************************)
EXTENDS FeedSync, TLC

CONSTANTS x1, x2, x3

Arrived(created, lag) == [created |-> created, shown |-> created + lag]

\* Listed at once, within the overlap, and within the margin.
FeedArrival == {Arrived(1, 0), Arrived(0, 3), Arrived(2, 1)}

\* For the liveness runs: pages of one, and no timestamp fills a tie answer.
LiveArrival == {Arrived(0, 0), Arrived(1, 0), Arrived(2, 1)}

Backfills == {[from |-> 0, to |-> 3]}

TxSymmetry == Permutations(Tx)
=============================================================================
