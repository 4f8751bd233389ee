------------------------------- MODULE Points -------------------------------
(***************************************************************************)
(* The points of one user: what a day of activity earns (activity), the    *)
(* ledger they are kept in and the item they buy (cosmetics).  Signals     *)
(* are counted in memory, flushed to the row of the day, and settled once  *)
(* the day is over, by the hourly round and by administrators.  Whoever    *)
(* changes the balance locks its row for the rest of the transaction; what *)
(* a transaction read before that may be stale.                            *)
(***************************************************************************)
EXTENDS Integers, Sequences, SequencesExt

CONSTANTS
  Requests,
  MaxLedger,    \* bound of the model: changes of the balance
  MaxCount,     \* bound of the model: signals of the day
  Cap,          \* signals of a day that count
  None

Price == 1

VARIABLES
  bucket, pending,   \* signals in memory, and those being flushed
  row,               \* signals in the row of the day
  over,              \* the day and its ten minutes of grace are over
  granted, total,    \* the day is settled; score of the user
  balance, ledger,   \* the points, and [delta, after, why] of each change
  owned,             \* the item in the inventory: None, "expired", "limited", "forever"
  paid,              \* history: an order for the item was completed
  lock,              \* transaction that holds the row of the points, or None
  request,           \* request -> [step, delta, seen, had], or None
  late,              \* history: signals reached the row after it was read
  crossed            \* history: the item changed hands between look and write

vars == <<bucket, pending, row, over, granted, total, balance, ledger, owned,
          paid, lock, request, late, crossed>>

day     == <<bucket, pending, row, over, late>>
settled == <<granted, total>>
account == <<balance, ledger>>
item    == <<owned, paid, crossed>>

Init ==
  /\ bucket = 0 /\ pending = 0 /\ row = 0 /\ over = FALSE
  /\ granted = FALSE /\ total = 0
  /\ balance = 0 /\ ledger = <<>>
  /\ owned = None /\ paid = FALSE
  /\ lock = None /\ request = [r \in Requests |-> None]
  /\ late = FALSE /\ crossed = FALSE

Doing(r, step) == request[r] # None /\ request[r].step = step
\* The change it will make, the balance it has read, and the item if it grants one.
Slot(step, d, seen, had) == [step |-> step, delta |-> d, seen |-> seen, had |-> had]
Begins(r, step, d, had) ==
  request[r] = None /\ request' = [request EXCEPT ![r] = Slot(step, d, 0, had)]
Ends(r) == request' = [request EXCEPT ![r] = None]

-----------------------------------------------------------------------------
(* Activity. *)

Track ==
  /\ ~ over /\ bucket + pending + row < MaxCount
  /\ bucket' = bucket + 1
  /\ UNCHANGED <<pending, row, over, late, lock, request, settled, account, item>>

FlushSwaps ==
  /\ pending = 0 /\ bucket > 0
  /\ pending' = bucket /\ bucket' = 0
  /\ UNCHANGED <<row, over, late, lock, request, settled, account, item>>

Flush ==
  /\ pending > 0 /\ pending' = 0 /\ row' = row + pending
  /\ late' = (late \/ granted \/ \E r \in Requests : Doing(r, "settle") \/ Doing(r, "settling"))
  /\ UNCHANGED <<bucket, over, lock, request, settled, account, item>>

MergeBack ==
  /\ pending > 0 /\ pending' = 0 /\ bucket' = bucket + pending
  /\ UNCHANGED <<row, over, late, lock, request, settled, account, item>>

\* What is in memory is lost.
Restart ==
  /\ bucket + pending > 0 /\ bucket' = 0 /\ pending' = 0
  /\ UNCHANGED <<row, over, late, lock, request, settled, account, item>>

DayEnds ==
  /\ ~ over /\ over' = TRUE
  /\ UNCHANGED <<bucket, pending, row, late, lock, request, settled, account, item>>

ScoreOf(n) == IF n < Cap THEN n ELSE Cap

\* A round finds the row not yet settled.
RunSettleOnce(r) ==
  /\ over /\ row > 0 /\ ~ granted
  /\ Begins(r, "settle", ScoreOf(row), None)
  /\ UNCHANGED <<day, lock, settled, account, item>>

Claims == ~ granted

-----------------------------------------------------------------------------
(* The balance. *)

\* Mutant: the balance is read without locking its row.
Unlocked == TRUE

Free == lock = None

\* The balance is read under the lock and written back at the commit; the
\* mark on the day and the order belong to the same transaction.
AdjustPoints(r) ==
  /\ Doing(r, "buy") \/ Doing(r, "admin") \/ (Doing(r, "settle") /\ Claims)
  /\ Free /\ Len(ledger) < MaxLedger
  /\ IF balance + request[r].delta < 0
     THEN Ends(r) /\ UNCHANGED lock
     ELSE /\ lock' = r
          /\ request' = [request EXCEPT ![r] =
               Slot(CASE Doing(r, "buy")   -> "buying"
                      [] Doing(r, "admin") -> "granting"
                      [] OTHER             -> "settling", @.delta, balance, None)]
  /\ UNCHANGED <<day, settled, account, item>>

Skips(r) ==
  /\ Doing(r, "settle") /\ ~ Claims /\ Free /\ Ends(r)
  /\ UNCHANGED <<day, lock, settled, account, item>>

Adjusting(r) == \E s \in {"buying", "granting", "settling"} : Doing(r, s)

Books(r) ==
  LET after == request[r].seen + request[r].delta IN
  /\ balance' = after
  /\ ledger' = Append(ledger, [delta |-> request[r].delta, after |-> after,
                               why |-> request[r].step])
  /\ lock' = None /\ Ends(r)

SettleRow(r) ==
  /\ Doing(r, "settling") /\ Books(r)
  /\ granted' = TRUE /\ total' = total + request[r].delta
  /\ UNCHANGED <<day, item>>

AdminGrantPoints(r) ==
  \/ /\ \E d \in {-1, 1} : Begins(r, "admin", d, None)
     /\ UNCHANGED <<day, lock, settled, account, item>>
  \/ /\ Doing(r, "granting") /\ Books(r)
     /\ UNCHANGED <<day, settled, item>>

RollsBack(r) ==
  /\ Adjusting(r) /\ lock' = None /\ Ends(r)
  /\ UNCHANGED <<day, settled, account, item>>

-----------------------------------------------------------------------------
(* The item. *)

Active == owned \in {"limited", "forever"}

\* Permanent, whatever the row said before.
GrantedForever == "forever"

Acquire(r) ==
  /\ ~ Active /\ Begins(r, "buy", - Price, None)
  /\ UNCHANGED <<day, lock, settled, account, item>>

\* Two purchases may both have found the item missing; both are charged.
Purchase(r) ==
  /\ Doing(r, "buying") /\ Books(r)
  /\ paid' = TRUE /\ owned' = GrantedForever
  /\ crossed' = (crossed \/ \E q \in Requests : Doing(q, "give"))
  /\ UNCHANGED <<day, settled>>

\* The grant of an administrator reads the row and then writes it.
AdminGrant(r) ==
  /\ Begins(r, "give", 0, owned)
  /\ UNCHANGED <<day, lock, settled, account, item>>

\* A row that was there is made permanent or, unless it was permanent,
\* prolonged; a row that has come meanwhile makes the insertion fail.
GrantItem(r) ==
  /\ Doing(r, "give") /\ Ends(r)
  /\ \E new \in {"limited", "forever"} :
       owned' = CASE request[r].had = None      -> IF owned = None THEN new ELSE owned
                  [] new = "forever"            -> "forever"
                  [] request[r].had = "forever" -> owned
                  [] OTHER                      -> "limited"
  /\ UNCHANGED <<day, lock, settled, account, paid, crossed>>

Expire ==
  /\ owned = "limited" /\ owned' = "expired"
  /\ UNCHANGED <<day, lock, request, settled, account, paid, crossed>>

Next ==
  \/ Track \/ FlushSwaps \/ Flush \/ MergeBack \/ Restart \/ DayEnds \/ Expire
  \/ \E r \in Requests :
       \/ RunSettleOnce(r) \/ AdjustPoints(r) \/ Skips(r) \/ SettleRow(r)
       \/ AdminGrantPoints(r) \/ RollsBack(r)
       \/ Acquire(r) \/ Purchase(r) \/ AdminGrant(r) \/ GrantItem(r)

Spec == Init /\ [][Next]_vars

-----------------------------------------------------------------------------
Before(i) == IF i = 1 THEN 0 ELSE ledger[i - 1].after

(* The ledger explains the balance change by change and never falls below  *)
(* zero; a day is paid once, by what its row said unless signals came too  *)
(* late; and what was paid for is kept, unless an administrator's grant    *)
(* was under way.                                                          *)
PointsAddUp ==
  /\ \A i \in DOMAIN ledger :
       ledger[i].after = Before(i) + ledger[i].delta /\ ledger[i].after >= 0
  /\ balance = IF ledger = <<>> THEN 0 ELSE Last(ledger).after
  /\ \A i, j \in DOMAIN ledger :
       ledger[i].why = "settling" /\ ledger[j].why = "settling" => i = j
  /\ granted /\ ~ late => total = ScoreOf(row)
  /\ paid /\ ~ crossed => owned = "forever"

(* inventory.go:85 says of a grant that a permanent row is never made a    *)
(* limited one.  The row is read before it is written, and a purchase that *)
(* commits in between makes it permanent.                                  *)
PermanentStays == [][owned = "forever" => owned' = "forever"]_owned
=============================================================================
