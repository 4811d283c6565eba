----------------------------- MODULE AtomicBook -----------------------------
(***************************************************************************)
(* What the order book promises its callers: every order is accepted at    *)
(* most once, and an accepted order is matched, in one step, against the   *)
(* makers it crosses, by price and then by id, each served in full before  *)
(* the next one gets anything; a cancelled order leaves the book with the  *)
(* size it still had.  OrderBook.tla implements this one loop iteration at *)
(* a time.                                                                 *)
(***************************************************************************)
EXTENDS Matching

VARIABLES
    book,       \* depths, logSeq and tradeSeq
    logs,       \* every log written so far
    accepted    \* the orders accepted so far

vars == <<book, logs, accepted>>

Init ==
    /\ book = EmptyBook
    /\ logs = << >>
    /\ accepted = {}

Becomes(result) ==
    /\ book' = result.book
    /\ logs' = logs \o result.logs

Submit(order) ==
    /\ \A other \in accepted : other.id # order.id
    /\ accepted' = accepted \cup {order}
    /\ Becomes(ApplyOrder(book, order))

Cancel(order) ==
    /\ Entry(book, order) # {}
    /\ Becomes(CancelOrder(book, order))
    /\ UNCHANGED accepted

Next == \E order \in Orders : Submit(order) \/ Cancel(order)

Spec == Init /\ [][Next]_vars

=============================================================================
