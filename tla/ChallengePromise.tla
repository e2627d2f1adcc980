-------------------------- MODULE ChallengePromise --------------------------
(***************************************************************************)
(* What the lobby promises about a challenge.  It is sent once and ends    *)
(* once: in a match, for which both players' stakes leave their balances   *)
(* together and are covered by them, or without one, and then it never     *)
(* costs anybody anything.  A challenge that is sent, or that becomes a    *)
(* match, may end others.  The stake is one unit.                          *)
(***************************************************************************)
EXTENDS Integers

CONSTANTS
    Players, Challenges,
    From, To,       \* [Challenges -> Players]
    Funds           \* [Players -> Nat]

VARIABLES
    phase,      \* [Challenges -> {"unsent", "open", "matched", "ended"}]
    purse       \* what each player has free

Open == {c \in Challenges : phase[c] = "open"}

Init ==
    /\ phase = [c \in Challenges |-> "unsent"]
    /\ purse = Funds

\* c moves on to a phase while the open challenges of a set end.
MovesOn(c, to, ended) ==
    phase' = [d \in Challenges |-> IF d = c THEN to ELSE IF d \in ended THEN "ended" ELSE phase[d]]

Offer(c, ended) ==
    /\ phase[c] = "unsent"
    /\ MovesOn(c, "open", ended)
    /\ UNCHANGED purse

Match(c, ended) ==
    /\ phase[c] = "open"
    /\ purse[From[c]] >= 1 /\ purse[To[c]] >= 1
    /\ MovesOn(c, "matched", ended)
    /\ purse' = [p \in Players |-> IF p \in {From[c], To[c]} THEN purse[p] - 1 ELSE purse[p]]

End(ended) ==
    /\ phase' = [c \in Challenges |-> IF c \in ended THEN "ended" ELSE phase[c]]
    /\ UNCHANGED purse

Next ==
    \E ended \in SUBSET Open :
        \/ End(ended)
        \/ \E c \in Challenges : Offer(c, ended) \/ Match(c, ended)

Spec == Init /\ [][Next]_<<phase, purse>>
=============================================================================
