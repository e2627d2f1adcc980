--------------------------- MODULE WalletPromise ---------------------------
(***************************************************************************)
(* What the wallet promises about money that crosses its border.  A card   *)
(* payment the customer made is credited at most once, and nothing else    *)
(* is.  A withdrawal leaves the wallet at most once, out of money that is  *)
(* there; only one that has left it is ever sent to the customer's bank or *)
(* given back, and each of those happens at most once.                     *)
(***************************************************************************)
EXTENDS Integers

CONSTANTS
    Customers,
    DepositKeys, WithdrawalKeys,    \* the client's idempotency keys
    Owner,                          \* [keys -> Customers]
    Amount                          \* [keys -> pence]

VARIABLES
    balance,    \* what each wallet holds
    charged,    \* deposits the customer's card has been charged for
    credited,   \* deposits credited to their wallet
    debited,    \* withdrawals taken out of the wallet
    transferred,\* withdrawals sent to the customer's connected account
    returned    \* withdrawals put back into the wallet

promiseVars == <<balance, charged, credited, debited, transferred, returned>>

Init ==
    /\ balance = [u \in Customers |-> 0]
    /\ charged = {} /\ credited = {} /\ debited = {} /\ transferred = {} /\ returned = {}

Adds(k, amount) == balance' = [balance EXCEPT ![Owner[k]] = @ + amount]

Charge(d) ==
    /\ charged' = charged \cup {d}
    /\ UNCHANGED <<balance, credited, debited, transferred, returned>>

Credit(d) ==
    /\ d \in charged \ credited
    /\ credited' = credited \cup {d}
    /\ Adds(d, Amount[d])
    /\ UNCHANGED <<charged, debited, transferred, returned>>

Debit(w) ==
    /\ w \notin debited
    /\ balance[Owner[w]] >= Amount[w]
    /\ debited' = debited \cup {w}
    /\ Adds(w, -Amount[w])
    /\ UNCHANGED <<charged, credited, transferred, returned>>

Transfer(w) ==
    /\ w \in debited \ transferred
    /\ transferred' = transferred \cup {w}
    /\ UNCHANGED <<balance, charged, credited, debited, returned>>

Return(w) ==
    /\ w \in debited \ returned
    /\ returned' = returned \cup {w}
    /\ Adds(w, Amount[w])
    /\ UNCHANGED <<charged, credited, debited, transferred>>

Next ==
    \/ \E d \in DepositKeys : Charge(d) \/ Credit(d)
    \/ \E w \in WithdrawalKeys : Debit(w) \/ Transfer(w) \/ Return(w)

Spec == Init /\ [][Next]_promiseVars
=============================================================================
