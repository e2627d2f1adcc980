--------------------------- MODULE DepositLimits ---------------------------
(***************************************************************************)
(* A customer's deposit limit for one period, and the deposits it bounds:  *)
(* setDepositLimit, removeDepositLimit and cancelPendingIncrease of        *)
(* src/lib/responsible-play/service.ts, assertCanDeposit of policy.ts as   *)
(* the deposit route calls it, and the deposit-limit-activation worker.    *)
(*                                                                         *)
(* A request reads the row and then updates it by key, in two statements;  *)
(* requests of several tabs and the worker interleave between them.  A     *)
(* reduction applies at once, an increase or a removal after a day: the    *)
(* day is the step Mature, and "staged" says on which side of it a row is. *)
(***************************************************************************)
EXTENDS Integers, FiniteSets

CONSTANTS
  Tabs,         \* the requests a customer may have in flight
  MaxLimit,     \* limits are 1 .. MaxLimit; a deposit is 1
  MaxDeposits   \* bound on the deposits inside the window

ASSUME LimitAssumption ==
  MaxLimit \in Nat \ {0} /\ MaxDeposits \in Nat /\ IsFiniteSet(Tabs)

VARIABLES
  limit,     \* the row of deposit_limits, or NoRow
  deposits,  \* the PENDING and COMPLETED deposits inside the period's window
  tab,       \* Tabs -> the request
  tidy       \* the worker's scan

limitVars == <<limit, deposits, tab, tidy>>

Amounts == 1 .. MaxLimit

\* Above every amount and every usage: a customer without a limit.
NoLimit == MaxLimit + MaxDeposits + 1

NoRow == [amount |-> 0, pending |-> 0, removal |-> FALSE, staged |-> "no"]

\* pending 0 is pendingAmount NULL; staged "waiting" is a pendingEffectiveAt
\* in the future, "matured" one that has passed.
Rows == [amount : Amounts, pending : {0} \cup Amounts, removal : BOOLEAN,
         staged : {"no", "waiting", "matured"}] \cup {NoRow}

\* What happened while a deposit is past its check, for the properties: the
\* highest limit that was in force, the most deposits in flight with it at once.
TabTasks ==
  [op : {"idle"}]
    \cup [op : {"set"}, to : Amounts, seen : Rows]
    \cup [op : {"remove"}, seen : Rows]
    \cup [op : {"deposit"}, under : Amounts \cup {NoLimit}, crowd : Nat]

LimitTypeOK ==
  /\ limit \in Rows
  /\ deposits \in [pending : Nat, completed : Nat]
  /\ tab \in [Tabs -> TabTasks]
  /\ tidy \in [at : {"idle", "find", "fold"}, amount : {0} \cup Amounts, late : BOOLEAN]

TidyIdle == [at |-> "idle", amount |-> 0, late |-> FALSE]
TabIdle == [op |-> "idle"]

LimitInit ==
  /\ limit = NoRow
  /\ deposits = [pending |-> 0, completed |-> 0]
  /\ tab = [t \in Tabs |-> TabIdle]
  /\ tidy = TidyIdle

(***************************************************************************)
(* resolveLimit: the limit that applies, evaluated on read.                *)
(***************************************************************************)
InForce(row) ==
  IF row = NoRow \/ (row.removal /\ row.staged = "matured") THEN NoLimit
  ELSE IF row.pending # 0 /\ row.staged = "matured" THEN row.pending
  ELSE row.amount

\* getDepositUsage counts PENDING with COMPLETED.
Usage == deposits.pending + deposits.completed

\* The slip of counting settled deposits only.
MutantCanDeposit == deposits.completed + 1 <= InForce(limit)

\* assertCanDeposit for a deposit of 1.
CanDeposit == Usage + 1 <= InForce(limit)

InFlight(tabs) == Cardinality({t \in Tabs : tabs[t].op = "deposit"})

Higher(a, b) == IF a >= b THEN a ELSE b

\* The deposits in flight, once the requests are tabs and the row is row.
Watched(tabs, row) ==
  [t \in Tabs |->
     IF tabs[t].op = "deposit"
     THEN [op |-> "deposit", under |-> Higher(tabs[t].under, InForce(row)),
           crowd |-> Higher(tabs[t].crowd, InFlight(tabs))]
     ELSE tabs[t]]

(***************************************************************************)
(* The requests.                                                           *)
(***************************************************************************)
Ask(t, task) ==
  /\ tab[t].op = "idle"
  /\ tab' = [tab EXCEPT ![t] = task]
  /\ UNCHANGED <<limit, deposits, tidy>>

AskSet(t, a) == Ask(t, [op |-> "set", to |-> a, seen |-> limit])

\* The slip of staging a removal without looking at the limit in force.
MutantAskRemove(t) == limit # NoRow /\ Ask(t, [op |-> "remove", seen |-> limit])

\* A removal already staged is answered as it is; so is a limit that is gone.
AskRemove(t) ==
  /\ InForce(limit) # NoLimit
  /\ ~limit.removal
  /\ Ask(t, [op |-> "remove", seen |-> limit])

CheckDeposit(t) ==
  /\ CanDeposit /\ tab[t].op = "idle"
  /\ tab' = Watched([tab EXCEPT ![t] = [op |-> "deposit", under |-> InForce(limit),
                                        crowd |-> 1]], limit)
  /\ UNCHANGED <<limit, deposits, tidy>>

Fixed(a) == [amount |-> a, pending |-> 0, removal |-> FALSE, staged |-> "no"]

\* The row setDepositLimit writes for the row it read: a first limit or a
\* reduction at once, an increase staged behind the limit in force.
LimitSet(seen, a) ==
  IF a <= InForce(seen) THEN Fixed(a)
  ELSE [amount |-> InForce(seen), pending |-> a, removal |-> FALSE, staged |-> "waiting"]

Written(t, row) ==
  /\ limit' = row
  /\ tab' = Watched([tab EXCEPT ![t] = TabIdle], row)
  /\ UNCHANGED <<deposits, tidy>>

\* update throws when the row has gone, create when it has appeared.
RequestFails(t) ==
  /\ tab[t].op \in {"set", "remove"}
  /\ (tab[t].seen = NoRow) # (limit = NoRow)
  /\ tab' = [tab EXCEPT ![t] = TabIdle]
  /\ UNCHANGED <<limit, deposits, tidy>>

WriteSet(t) ==
  /\ tab[t].op = "set"
  /\ (tab[t].seen = NoRow) = (limit = NoRow)
  /\ Written(t, LimitSet(tab[t].seen, tab[t].to))

WriteRemoval(t) ==
  /\ tab[t].op = "remove" /\ limit # NoRow
  /\ Written(t, [amount |-> InForce(tab[t].seen), pending |-> 0,
                 removal |-> TRUE, staged |-> "waiting"])

\* cancelPendingIncrease is one update.
CancelPending(t) ==
  /\ tab[t].op = "idle" /\ limit # NoRow
  /\ Written(t, Fixed(limit.amount))

\* The deposit route writes its PENDING row some awaits after the check.
CreateDeposit(t) ==
  /\ tab[t].op = "deposit" /\ Usage < MaxDeposits
  /\ deposits' = [deposits EXCEPT !.pending = @ + 1]
  /\ tab' = [tab EXCEPT ![t] = TabIdle]
  /\ UNCHANGED <<limit, tidy>>

\* The request is answered without a row (an idempotent repeat, an error).
DropDeposit(t) ==
  /\ tab[t].op = "deposit"
  /\ tab' = [tab EXCEPT ![t] = TabIdle]
  /\ UNCHANGED <<limit, deposits, tidy>>

(***************************************************************************)
(* The world: payments settle, deposits leave the window, the day passes.  *)
(***************************************************************************)
SettleDeposit ==
  /\ deposits.pending > 0
  /\ \E credited \in {0, 1} :
       deposits' = [pending |-> deposits.pending - 1,
                    completed |-> deposits.completed + credited]
  /\ UNCHANGED <<limit, tab, tidy>>

LeaveWindow ==
  /\ deposits.completed > 0
  /\ deposits' = [deposits EXCEPT !.completed = @ - 1]
  /\ UNCHANGED <<limit, tab, tidy>>

\* A row that matures during a scan is late for it: the scan compares with
\* the time at which it began.
Mature ==
  /\ limit.staged = "waiting"
  /\ limit' = [limit EXCEPT !.staged = "matured"]
  /\ tidy' = [tidy EXCEPT !.late = (tidy.at # "idle")]
  /\ tab' = Watched(tab, limit')
  /\ UNCHANGED deposits

(***************************************************************************)
(* The worker: delete matured removals, find matured increases, fold each  *)
(* under a guard on pendingEffectiveAt.                                    *)
(***************************************************************************)
TidyMatured == limit.staged = "matured" /\ ~tidy.late

DeleteRemoved ==
  /\ tidy.at = "idle"
  /\ limit' = IF limit.removal /\ TidyMatured THEN NoRow ELSE limit
  /\ tidy' = [tidy EXCEPT !.at = "find"]
  /\ tab' = Watched(tab, limit')
  /\ UNCHANGED deposits

FindMatured ==
  /\ tidy.at = "find"
  /\ tidy' = IF limit.pending # 0 /\ TidyMatured
             THEN [tidy EXCEPT !.at = "fold", !.amount = limit.pending]
             ELSE TidyIdle
  /\ UNCHANGED <<limit, deposits, tab>>

\* The slip of folding by id without the guard.
MutantFoldIncrease ==
  /\ tidy.at = "fold"
  /\ limit' = IF limit = NoRow THEN limit ELSE Fixed(tidy.amount)
  /\ tidy' = TidyIdle
  /\ tab' = Watched(tab, limit')
  /\ UNCHANGED deposits

FoldIncrease ==
  /\ tidy.at = "fold"
  /\ limit' = IF limit.pending # 0 /\ TidyMatured
              THEN Fixed(tidy.amount) ELSE limit
  /\ tidy' = TidyIdle
  /\ tab' = Watched(tab, limit')
  /\ UNCHANGED deposits

LimitNext ==
  \/ \E t \in Tabs :
       \/ \E a \in Amounts : AskSet(t, a)
       \/ AskRemove(t) \/ CheckDeposit(t) \/ CancelPending(t)
       \/ WriteSet(t) \/ WriteRemoval(t) \/ RequestFails(t)
       \/ CreateDeposit(t) \/ DropDeposit(t)
  \/ SettleDeposit \/ LeaveWindow \/ Mature
  \/ DeleteRemoved \/ FindMatured \/ FoldIncrease

LimitSpec == LimitInit /\ [][LimitNext]_limitVars

(***************************************************************************)
(* The properties.                                                         *)
(***************************************************************************)

\* The request of tab t ends in this step with a row read before another
\* write: two requests of the customer overlapped.
StaleWrite(t) ==
  /\ tab[t].op \in {"set", "remove"} /\ tab'[t].op = "idle"
  /\ tab[t].seen # limit

\* The limit in force is never loosened but by the day a staged change waits
\* (service.ts:141-142, :234-235): not by the worker, whatever it read, and
\* not by a request, unless it writes from a row that another has replaced.
LoosensOnlyAfterDelay ==
  [][InForce(limit') > InForce(limit) =>
       (limit.staged = "waiting" /\ limit' = [limit EXCEPT !.staged = "matured"])
         \/ \E t \in Tabs : StaleWrite(t)]_limitVars

\* The deposit of tab t gets its row in this step.
Recorded(t) ==
  /\ tab[t].op = "deposit" /\ tab'[t].op = "idle"
  /\ deposits'.pending > deposits.pending

\* The check and the row are not one transaction (policy.ts:64-83,
\* deposit/route.ts:53, :102), so deposits that overlap may together pass the
\* limit, but never by more than the others that overlap: the deposits inside
\* the window, the ones still on their way counted, exceed the highest limit
\* in force since the check by at most one for each other deposit in flight at
\* once with it; a deposit alone in flight stays inside the limit.
OvershootIsBounded ==
  [][\A t \in Tabs :
       Recorded(t) => Usage' <= tab[t].under + tab[t].crowd - 1]_limitVars

============================================================================
