---------------------------- MODULE LedgerContract ----------------------------
(***************************************************************************)
(* What billing promises its callers: money moves in one piece.  The book  *)
(* of an account is all there is to say of it; a movement continues from   *)
(* the balance the book ends with, an allocation writes both its books, is *)
(* covered by what its source has and goes one level down, and a trip is   *)
(* marked as paid together with the movement that pays for it, once.       *)
(*                                                                         *)
(* No lock, no transaction and no stored balance: that transactions which  *)
(* read and lock row after row come to the same is the refinement.         *)
(***************************************************************************)
EXTENDS Integers, Sequences

CONSTANTS Accounts, Level, Trips, NoTrip, Amounts, Credits

VARIABLES book,     \* the movements of each account
          credit,   \* how far each account may go below 0
          paid      \* the trips that were paid for

Init ==
    /\ book = [a \in Accounts |-> << >>]
    /\ credit = [a \in Accounts |-> 0]
    /\ paid = {}

Balance(a) == IF book[a] = << >> THEN 0 ELSE book[a][Len(book[a])].after

\* The book of the account after a movement; a movement of 0 leaves no entry.
Posted(a, amount, trip) ==
    IF amount = 0 THEN book[a]
    ELSE Append(book[a], [amount |-> amount, after |-> Balance(a) + amount, trip |-> trip])

Post(a, amount) ==
    /\ book' = [book EXCEPT ![a] = Posted(a, amount, NoTrip)]
    /\ UNCHANGED <<credit, paid>>

Allocate(from, to, amount) ==
    /\ Level[to] = Level[from] + 1
    /\ Balance(from) + credit[from] >= amount
    /\ book' = [book EXCEPT ![from] = Posted(from, -amount, NoTrip), ![to] = Posted(to, amount, NoTrip)]
    /\ UNCHANGED <<credit, paid>>

Pay(t, a, amount) ==
    /\ t \notin paid
    /\ paid' = paid \cup {t}
    /\ book' = [book EXCEPT ![a] = Posted(a, -amount, t)]
    /\ UNCHANGED credit

SetCredit(a, limit) ==
    /\ credit' = [credit EXCEPT ![a] = limit]
    /\ UNCHANGED <<book, paid>>

Next ==
    \/ \E a \in Accounts, amount \in Amounts, sign \in {-1, 1} : Post(a, sign * amount)
    \/ \E from, to \in Accounts, amount \in Amounts : Allocate(from, to, amount)
    \/ \E t \in Trips, a \in Accounts, amount \in Amounts : Pay(t, a, amount)
    \/ \E a \in Accounts, limit \in Credits : SetCredit(a, limit)

Spec == Init /\ [][Next]_<<book, credit, paid>>
=============================================================================
