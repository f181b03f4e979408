---------------------------- MODULE AttemptLedger ----------------------------
(***************************************************************************)
(* What the attempts of one task promise, whatever writes, crashes and     *)
(* re-runs lie behind them: the ledger of a task.  Attempts are opened one *)
(* at a time within the budget and never after one that succeeded; only    *)
(* the newest attempt is ever closed, once, and a closed attempt is never  *)
(* touched again.  An attempt whose program died stays open for good.      *)
(*                                                                         *)
(* TaskRunner driven by a single caller implements this specification; two *)
(* callers on one task do not.                                             *)
(***************************************************************************)
EXTENDS Naturals, Sequences

CONSTANT MaxAttempts     \* tasks.max_attempts

VARIABLE ledger          \* the statuses of the attempts, oldest first

Closed == {"failed", "built", "target_state"}

TypeOK == ledger \in Seq(Closed \cup {"running"})

Init == ledger = <<>>

\* A new attempt: the budget has room and nothing has succeeded yet.
Open ==
    /\ Len(ledger) < MaxAttempts
    /\ \A i \in 1..Len(ledger) : ledger[i] \notin {"built", "target_state"}
    /\ ledger' = Append(ledger, "running")

\* The newest attempt gets its outcome.
Close ==
    /\ ledger # <<>>
    /\ ledger[Len(ledger)] = "running"
    /\ \E s \in Closed : ledger' = [ledger EXCEPT ![Len(ledger)] = s]

Next == Open \/ Close

Spec == Init /\ [][Next]_ledger

=============================================================================
