-------------------------- MODULE MCStripePayments --------------------------
(* Instances of StripePayments for TLC. *)
EXTENDS StripePayments

CONSTANTS
    alice,      \* a customer
    d1, w1,     \* idempotency keys: a deposit, a withdrawal
    r1, r2,     \* requests
    h1, h2      \* webhook deliveries

MCOwner == [k \in Keys |-> alice]
MCAmount == [k \in Keys |-> 2]
=============================================================================
