----------------------- MODULE BetEscrowMoney_proofs -----------------------
(***************************************************************************)
(* Money is conserved, for any finite sets of users and bets: every step   *)
(* moves what it takes out of one balance into others, and the developer's *)
(* escrow counter follows the accounts exactly.                            *)
(*                                                                         *)
(* The balances are added up with the community modules' fold, about which *)
(* the provers know nothing.  The first section proves what is needed of   *)
(* it, that changing one entry changes the total by as much, from the      *)
(* definition and the well-foundedness of strict inclusion on a finite     *)
(* set.                                                                    *)
(***************************************************************************)
EXTENDS MCBetEscrow, BetEscrow_proofs, FiniteSetTheorems

-----------------------------------------------------------------------------
(* Totals *)

\* Among sets of subsets of a finite set there is a smallest one, so that a
\* claim about all subsets is refuted at a least counterexample.
LEMMA MinimalSubset ==
    ASSUME NEW S, IsFiniteSet(S), NEW T, T \subseteq SUBSET S, T # {}
    PROVE  \E t \in T : \A u \in T : u \subseteq t => u = t
<1>1. IsWellFoundedOn(StrictSubsetOrdering(S), SUBSET S)
  BY FS_StrictSubsetOrderingWellFounded, FS_FiniteSubsetsOfFinite
<1>2. \E t \in T : \A u \in T : ~ (<<u, t>> \in StrictSubsetOrdering(S))
  BY <1>1, WFMin
<1> QED
  BY <1>2 DEF StrictSubsetOrdering

\* The community modules' fold over a set, spelled out: the function that
\* adds f up over every subset of its domain, one chosen element at a time.
First(s) == CHOOSE x \in s : TRUE
Sums(g, f, s) == IF s = {} THEN 0 ELSE f[First(s)] + g[s \ {First(s)}]
AddsUp(g, f, t) == g = [s \in SUBSET t |-> Sums(g, f, s)]
Adder(f) == CHOOSE g : AddsUp(g, f, DOMAIN f)

\* What is chosen from a set is in it.
LEMMA FirstIn == ASSUME NEW s, s # {} PROVE First(s) \in s
BY DEF First

\* Total is that function's value at the whole domain.
LEMMA TotalIsSum == ASSUME NEW f PROVE Total(f) = Adder(f)[DOMAIN f]
BY DEF Total, MapThenSumSet, MapThenFoldSet, Adder, AddsUp, Sums, First

\* The function satisfies its own equation.
LEMMA SumValue ==
    ASSUME NEW g, NEW f, NEW t, AddsUp(g, f, t), NEW s \in SUBSET t
    PROVE  g[s] = Sums(g, f, s)
BY Zenon DEF AddsUp

\* Two such functions agree wherever both are defined.
LEMMA SumsAgree ==
    ASSUME NEW S, IsFiniteSet(S), NEW f, NEW t \in SUBSET S, NEW u \in SUBSET S, NEW g, NEW h,
           AddsUp(g, f, t), AddsUp(h, f, u), NEW w, w \subseteq t, w \subseteq u
    PROVE  g[w] = h[w]
<1> DEFINE Bad == {s \in SUBSET S : s \subseteq t /\ s \subseteq u /\ g[s] # h[s]}
<1>1. SUFFICES ASSUME Bad # {} PROVE FALSE
  OBVIOUS
<1>2. \E s \in Bad : \A r \in Bad : r \subseteq s => r = s
  <2>1. Bad \subseteq SUBSET S
    OBVIOUS
  <2> HIDE DEF Bad
  <2> QED
    BY <1>1, <2>1, MinimalSubset
<1>3. PICK s \in Bad : \A r \in Bad : r \subseteq s => r = s
  BY <1>2
<1>4. g[s] = Sums(g, f, s) /\ h[s] = Sums(h, f, s)
  BY <1>3, SumValue
<1>5. s # {}
  BY <1>3, <1>4 DEF Sums
<1>6. First(s) \in s
  BY <1>5, FirstIn
<1>7. s \ {First(s)} \notin Bad
  BY <1>3, <1>6
<1>8. g[s \ {First(s)}] = h[s \ {First(s)}]
  BY <1>3, <1>7
<1> QED
  BY <1>3, <1>4, <1>5, <1>8 DEF Sums

\* There is such a function for every finite domain: for a least domain
\* without one, those of its proper subsets make one.
LEMMA AdderExists ==
    ASSUME NEW S, IsFiniteSet(S), NEW f
    PROVE  \E g : AddsUp(g, f, S)
<1> DEFINE Bad == {t \in SUBSET S : ~\E g : AddsUp(g, f, t)}
<1>1. SUFFICES ASSUME Bad # {} PROVE FALSE
  OBVIOUS
<1>2. \E t \in Bad : \A u \in Bad : u \subseteq t => u = t
  <2>1. Bad \subseteq SUBSET S
    OBVIOUS
  <2> HIDE DEF Bad
  <2> QED
    BY <1>1, <2>1, MinimalSubset
<1>3. PICK t \in Bad : \A u \in Bad : u \subseteq t => u = t
  BY <1>2
<1> DEFINE H(u) == CHOOSE g : AddsUp(g, f, u)
           V(u) == H(u)[u]
           G == [s \in SUBSET t |-> IF s = {} THEN 0 ELSE f[First(s)] + V(s \ {First(s)})]
<1>4. \A u \in SUBSET t : u # t => AddsUp(H(u), f, u)
  <2>1. \A u \in SUBSET t : u # t => \E g : AddsUp(g, f, u)
    BY <1>3
  <2> QED
    BY <2>1, Zenon
<1> HIDE DEF H
<1>5. ASSUME NEW u \in SUBSET t, u # t PROVE G[u] = V(u)
  <2>1. AddsUp(H(u), f, u)
    BY <1>4, <1>5
  <2>2. V(u) = Sums(H(u), f, u)
    BY <2>1, SumValue
  <2>3. CASE u = {}
    BY <2>2, <2>3 DEF Sums
  <2>4. CASE u # {}
    <3> DEFINE w == u \ {First(u)}
    <3>1. First(u) \in u
      BY <2>4, FirstIn
    <3>2. w \in SUBSET t /\ w # t /\ w \subseteq u
      BY <3>1
    <3>3. AddsUp(H(w), f, w)
      BY <1>4, <3>2
    <3>4. H(u)[w] = H(w)[w]
      <4>1. u \in SUBSET S /\ w \in SUBSET S
        BY <1>3
      <4> QED
        BY <2>1, <3>2, <3>3, <4>1, SumsAgree
    <3> QED
      BY <2>2, <2>4, <3>4 DEF Sums
  <2> QED
    BY <2>3, <2>4
<1>6. ASSUME NEW s \in SUBSET t PROVE G[s] = Sums(G, f, s)
  <2>1. CASE s = {}
    BY <2>1 DEF Sums
  <2>2. CASE s # {}
    <3>1. First(s) \in s
      BY <2>2, FirstIn
    <3>2. G[s \ {First(s)}] = V(s \ {First(s)})
      BY <1>5, <3>1
    <3>3. G[s] = f[First(s)] + V(s \ {First(s)})
      BY <2>2
    <3> QED
      BY <2>2, <3>2, <3>3 DEF Sums
  <2> QED
    BY <2>1, <2>2
<1>7. G = [s \in SUBSET t |-> Sums(G, f, s)]
  <2> DEFINE Gs == [s \in SUBSET t |-> Sums(G, f, s)]
  <2>1. \A s \in SUBSET t : G[s] = Gs[s]
    BY <1>6
  <2> QED
    BY <2>1
<1>8. AddsUp(G, f, t)
  BY <1>7, Zenon DEF AddsUp
<1> QED
  BY <1>3, <1>8

\* So the one that Total chooses is one.
LEMMA AdderAdds ==
    ASSUME NEW f, IsFiniteSet(DOMAIN f)
    PROVE  AddsUp(Adder(f), f, DOMAIN f)
BY AdderExists, Zenon DEF Adder

\* The sum over a set, of which one element may be taken out first.
SumTo(f, s) == Adder(f)[s]

\* Its equation, as a recursion on the set.
LEMMA SumToValue ==
    ASSUME NEW f, IsFiniteSet(DOMAIN f), NEW s \in SUBSET DOMAIN f
    PROVE  SumTo(f, s) = IF s = {} THEN 0 ELSE f[First(s)] + SumTo(f, s \ {First(s)})
BY AdderAdds, SumValue DEF SumTo, Sums

\* A sum of numbers is a number.
LEMMA SumToType ==
    ASSUME NEW f, IsFiniteSet(DOMAIN f), NEW N, N \in {Nat, Int}, \A x \in DOMAIN f : f[x] \in N,
           NEW w \in SUBSET DOMAIN f
    PROVE  SumTo(f, w) \in N
<1> DEFINE Bad == {s \in SUBSET DOMAIN f : SumTo(f, s) \notin N}
<1>1. SUFFICES ASSUME Bad # {} PROVE FALSE
  OBVIOUS
<1>2. \E s \in Bad : \A r \in Bad : r \subseteq s => r = s
  <2>1. Bad \subseteq SUBSET DOMAIN f
    OBVIOUS
  <2> HIDE DEF Bad
  <2> QED
    BY <1>1, <2>1, MinimalSubset
<1>3. PICK s \in Bad : \A r \in Bad : r \subseteq s => r = s
  BY <1>2
<1>4. SumTo(f, s) = IF s = {} THEN 0 ELSE f[First(s)] + SumTo(f, s \ {First(s)})
  BY <1>3, SumToValue
<1>5. s # {}
  BY <1>3, <1>4
<1>6. First(s) \in s
  BY <1>5, FirstIn
<1>7. s \ {First(s)} \notin Bad
  BY <1>3, <1>6
<1>8. SumTo(f, s \ {First(s)}) \in N /\ f[First(s)] \in N
  BY <1>3, <1>6, <1>7
<1> QED
  BY <1>3, <1>4, <1>5, <1>8

\* Any element, not just the chosen one, may be taken out of a sum.
LEMMA SumToWithout ==
    ASSUME NEW f, IsFiniteSet(DOMAIN f), \A x \in DOMAIN f : f[x] \in Int,
           NEW w \in SUBSET DOMAIN f, NEW e \in w
    PROVE  SumTo(f, w) = f[e] + SumTo(f, w \ {e})
<1> DEFINE Bad == {s \in SUBSET DOMAIN f : \E y \in s : SumTo(f, s) # f[y] + SumTo(f, s \ {y})}
<1>1. SUFFICES ASSUME Bad # {} PROVE FALSE
  OBVIOUS
<1>2. \E s \in Bad : \A r \in Bad : r \subseteq s => r = s
  <2>1. Bad \subseteq SUBSET DOMAIN f
    OBVIOUS
  <2> HIDE DEF Bad
  <2> QED
    BY <1>1, <2>1, MinimalSubset
<1>3. PICK s \in Bad : \A r \in Bad : r \subseteq s => r = s
  BY <1>2
<1>4. PICK y \in s : SumTo(f, s) # f[y] + SumTo(f, s \ {y})
  BY <1>3
<1> DEFINE x == First(s)
<1>5. x \in s
  BY <1>4, FirstIn
<1>6. SumTo(f, s) = f[x] + SumTo(f, s \ {x})
  BY <1>3, <1>4, SumToValue
<1>7. x # y
  BY <1>4, <1>6
<1>8. SumTo(f, s \ {x}) = f[y] + SumTo(f, (s \ {x}) \ {y})
  <2>1. s \ {x} \notin Bad /\ y \in s \ {x}
    BY <1>3, <1>4, <1>5, <1>7
  <2> QED
    BY <1>3, <2>1
<1>9. SumTo(f, s \ {y}) = f[x] + SumTo(f, (s \ {y}) \ {x})
  <2>1. s \ {y} \notin Bad /\ x \in s \ {y}
    BY <1>3, <1>4, <1>5, <1>7
  <2> QED
    BY <1>3, <2>1
<1>10. (s \ {x}) \ {y} = (s \ {y}) \ {x}
  OBVIOUS
<1>11. /\ f[x] \in Int /\ f[y] \in Int
       /\ SumTo(f, (s \ {x}) \ {y}) \in Int
  BY <1>3, <1>4, <1>5, SumToType
<1> DEFINE rest == SumTo(f, (s \ {x}) \ {y})
<1>12. /\ SumTo(f, s) = f[x] + (f[y] + rest)
       /\ SumTo(f, s \ {y}) = f[x] + rest
  BY <1>6, <1>8, <1>9, <1>10
<1> HIDE DEF rest, x
<1>13. SumTo(f, s) = f[y] + SumTo(f, s \ {y})
  BY <1>11, <1>12 DEF rest
<1> QED
  BY <1>4, <1>13

\* A sum depends on the terms added up only.
LEMMA SumToAgree ==
    ASSUME NEW f, NEW h, DOMAIN h = DOMAIN f, IsFiniteSet(DOMAIN f),
           NEW w \in SUBSET DOMAIN f, \A x \in w : f[x] = h[x]
    PROVE  SumTo(f, w) = SumTo(h, w)
<1> DEFINE Bad == {s \in SUBSET DOMAIN f : s \subseteq w /\ SumTo(f, s) # SumTo(h, s)}
<1>1. SUFFICES ASSUME Bad # {} PROVE FALSE
  OBVIOUS
<1>2. \E s \in Bad : \A r \in Bad : r \subseteq s => r = s
  <2>1. Bad \subseteq SUBSET DOMAIN f
    OBVIOUS
  <2> HIDE DEF Bad
  <2> QED
    BY <1>1, <2>1, MinimalSubset
<1>3. PICK s \in Bad : \A r \in Bad : r \subseteq s => r = s
  BY <1>2
<1>4. /\ SumTo(f, s) = IF s = {} THEN 0 ELSE f[First(s)] + SumTo(f, s \ {First(s)})
      /\ SumTo(h, s) = IF s = {} THEN 0 ELSE h[First(s)] + SumTo(h, s \ {First(s)})
  BY <1>3, SumToValue
<1>5. s # {}
  BY <1>3, <1>4
<1>6. First(s) \in s
  BY <1>5, FirstIn
<1>7. s \ {First(s)} \notin Bad
  BY <1>3, <1>6
<1>8. SumTo(f, s \ {First(s)}) = SumTo(h, s \ {First(s)}) /\ f[First(s)] = h[First(s)]
  BY <1>3, <1>6, <1>7
<1> QED
  BY <1>3, <1>4, <1>5, <1>8

\* The total of natural numbers is one.
LEMMA TotalType ==
    ASSUME NEW S, IsFiniteSet(S), NEW f \in [S -> Nat]
    PROVE  Total(f) \in Nat
<1>1. DOMAIN f = S /\ \A x \in S : f[x] \in Nat
  OBVIOUS
<1> QED
  BY <1>1, SumToType, TotalIsSum DEF SumTo

\* Changing one entry changes the total by as much.
LEMMA TotalChanged ==
    ASSUME NEW S, IsFiniteSet(S), NEW f \in [S -> Nat], NEW e \in S, NEW v \in Nat
    PROVE  /\ Total(f) >= f[e]
           /\ Total([f EXCEPT ![e] = v]) = Total(f) - f[e] + v
<1> DEFINE h == [f EXCEPT ![e] = v]
<1>1. /\ DOMAIN f = S /\ DOMAIN h = S
      /\ \A x \in S : f[x] \in Nat /\ f[x] \in Int /\ h[x] \in Int
      /\ \A x \in S \ {e} : f[x] = h[x]
      /\ h[e] = v
  OBVIOUS
<1> HIDE DEF h
<1>2. Total(f) = SumTo(f, S) /\ Total(h) = SumTo(h, S)
  BY <1>1, TotalIsSum DEF SumTo
<1>3. SumTo(f, S) = f[e] + SumTo(f, S \ {e}) /\ SumTo(h, S) = v + SumTo(h, S \ {e})
  BY <1>1, SumToWithout
<1>4. SumTo(h, S \ {e}) = SumTo(f, S \ {e})
  BY <1>1, SumToAgree
<1>5. SumTo(f, S \ {e}) \in Nat
  BY <1>1, SumToType
<1> QED
  BY <1>1, <1>2, <1>3, <1>4, <1>5 DEF h

\* The total of empty accounts is nothing.
LEMMA TotalOfNothing ==
    ASSUME NEW S, IsFiniteSet(S)
    PROVE  Total([x \in S |-> 0]) = 0
<1> DEFINE f == [x \in S |-> 0]
           Bad == {s \in SUBSET S : SumTo(f, s) # 0}
<1>1. DOMAIN f = S /\ \A x \in S : f[x] = 0
  OBVIOUS
<1>2. SUFFICES ASSUME Bad # {} PROVE FALSE
  BY <1>1, TotalIsSum DEF SumTo
<1>3. \E s \in Bad : \A r \in Bad : r \subseteq s => r = s
  <2>1. Bad \subseteq SUBSET S
    OBVIOUS
  <2> HIDE DEF Bad
  <2> QED
    BY <1>2, <2>1, MinimalSubset
<1>4. PICK s \in Bad : \A r \in Bad : r \subseteq s => r = s
  BY <1>3
<1> HIDE DEF f
<1>5. SumTo(f, s) = IF s = {} THEN 0 ELSE f[First(s)] + SumTo(f, s \ {First(s)})
  BY <1>1, <1>4, SumToValue
<1>6. s # {}
  BY <1>4, <1>5
<1>7. First(s) \in s
  BY <1>6, FirstIn
<1>8. SumTo(f, s \ {First(s)}) = 0 /\ f[First(s)] = 0
  BY <1>1, <1>4, <1>7
<1> QED
  BY <1>4, <1>5, <1>8

\* Money received by one user adds as much to the total of the wallets.
LEMMA ReceiptAdds ==
    ASSUME NEW w \in [Users -> Nat], NEW payee \in Users, NEW n \in Nat
    PROVE  LET paid == [u \in Users |-> w[u] + Receives(u, payee, n)]
           IN  paid \in [Users -> Nat] /\ Total(paid) = Total(w) + n
<1> DEFINE paid == [u \in Users |-> w[u] + Receives(u, payee, n)]
<1>1. paid = [w EXCEPT ![payee] = w[payee] + n]
  <2>1. \A u \in Users : w[u] + Receives(u, payee, n) = IF u = payee THEN w[payee] + n ELSE w[u]
    BY DEF Receives
  <2>2. paid = [u \in Users |-> IF u = payee THEN w[payee] + n ELSE w[u]]
    BY <2>1
  <2>3. [w EXCEPT ![payee] = w[payee] + n] = [u \in Users |-> IF u = payee THEN w[payee] + n ELSE w[u]]
    OBVIOUS
  <2> QED
    BY <2>2, <2>3
<1>2. w[payee] \in Nat /\ w[payee] + n \in Nat
  OBVIOUS
<1>3. Total([w EXCEPT ![payee] = w[payee] + n]) = Total(w) - w[payee] + (w[payee] + n)
  BY <1>2, TotalChanged, FiniteAssumption
<1>4. Total(w) \in Nat
  BY TotalType, FiniteAssumption
<1> HIDE DEF paid
<1>5. Total(paid) = Total(w) + n
  BY <1>1, <1>2, <1>3, <1>4
<1> QED
  BY <1>1, <1>2, <1>5 DEF paid

-----------------------------------------------------------------------------
(* Who is paid: the players of a bet once it is accepted, and a referee from *)
(* the moment one officiates until long after the bet is over.               *)

Officiated(b) ==
    \/ status[b] \in {"RESULT_REPORTED", "DISPUTED", "SETTLED"}
    \/ assignment[b] \in ActiveAssignments
    \/ \E d \in Disputes : dispute[d] # "idle" /\ filedOn[d] = b

\* No bet is settled with nobody to pay: its players are known, and whoever
\* made or will make the call on it.
PayeesKnown ==
    \A b \in Bets :
        /\ status[b] # "NONE" => playerA[b] \in Players /\ playerB[b] \in Players
        /\ Officiated(b) => referee[b] # Null

LEMMA PayeesFrame ==
    ASSUME PayeesKnown, UNCHANGED <<playerA, playerB, referee>>,
           \A b \in Bets : status'[b] # "NONE" => status[b] # "NONE",
           \A b \in Bets : Officiated(b)' => Officiated(b)
    PROVE  PayeesKnown'
BY DEF PayeesKnown

\* Without new disputes, what makes a bet officiated is its own row.
LEMMA PayeesKeptByBets ==
    ASSUME PayeesKnown, UNCHANGED <<playerA, playerB, referee, dispute, filedOn>>,
           NEW b \in Bets, status[b] # "NONE",
           \A c \in Bets \ {b} : status'[c] = status[c] /\ assignment'[c] = assignment[c],
           \/ status'[b] \notin {"RESULT_REPORTED", "DISPUTED", "SETTLED"}
           \/ Officiated(b),
           assignment'[b] \in ActiveAssignments => Officiated(b)
    PROVE  PayeesKnown'
<1>1. \A c \in Bets : Officiated(c)' => Officiated(c)
  BY DEF Officiated
<1> QED
  BY <1>1, PayeesFrame

LEMMA PayeesAccept ==
    ASSUME IInv, PayeesKnown, NEW b \in Bets, NEW p \in Players, NEW q \in Players,
           NEW s \in Stakes, Accept(b, p, q, s)
    PROVE  PayeesKnown'
<1> USE DEF IInv
<1>1. /\ status[b] = "NONE"
      /\ playerA' = [playerA EXCEPT ![b] = p] /\ playerB' = [playerB EXCEPT ![b] = q]
      /\ status' = [status EXCEPT ![b] = "MATCHED"]
      /\ assignment' = [assignment EXCEPT ![b] = "OPEN"]
      /\ UNCHANGED <<referee, dispute, filedOn>>
  BY DEF Accept, disputeVars
<1>2. \A c \in Bets : Officiated(c)' => Officiated(c)
  BY <1>1 DEF Officiated, ActiveAssignments, TypeOK
<1> QED
  BY <1>1, <1>2 DEF PayeesKnown, TypeOK

LEMMA PayeesReferee ==
    ASSUME IInv, PayeesKnown, NEW b \in Bets, RefereeStep(b) \/ SweepStalled(b)
    PROVE  PayeesKnown'
<1> USE DEF IInv, betVars, disputeVars
<1>1. ASSUME NEW r \in Referees, ClaimAssignment(b, r) PROVE PayeesKnown'
  <2>1. /\ referee' = [referee EXCEPT ![b] = r]
        /\ assignment' = [assignment EXCEPT ![b] = "ASSIGNED"]
        /\ UNCHANGED <<status, playerA, playerB, dispute, filedOn>>
    BY <1>1 DEF ClaimAssignment
  <2>2. r # Null
    BY UsersAssumption
  <2>3. \A c \in Bets \ {b} : Officiated(c)' => Officiated(c)
    BY <2>1 DEF Officiated, TypeOK
  <2> QED
    BY <2>1, <2>2, <2>3 DEF PayeesKnown, TypeOK
<1>2. CASE Ready(b) \/ Start(b)
  <2>1. /\ assignment[b] \in ActiveAssignments
        /\ \A c \in Bets \ {b} : assignment'[c] = assignment[c]
        /\ UNCHANGED <<betVars, referee, dispute, filedOn>>
    BY <1>2 DEF Ready, Start, AdvanceAssignment, ActiveAssignments, TypeOK
  <2>2. Officiated(b) /\ status[b] # "NONE"
    BY <2>1 DEF Officiated, BetRows, LiveAssignments, ActiveAssignments
  <2> QED
    BY <2>1, <2>2, PayeesKeptByBets
<1>3. ASSUME NEW result \in Outcomes, SubmitDecision(b, result) PROVE PayeesKnown'
  <2>1. /\ assignment[b] \in ActiveAssignments /\ status[b] # "NONE"
        /\ \A c \in Bets \ {b} : status'[c] = status[c] /\ assignment'[c] = assignment[c]
        /\ UNCHANGED <<playerA, playerB, referee, dispute, filedOn>>
    BY <1>3 DEF SubmitDecision, ActiveAssignments, TypeOK
  <2>2. Officiated(b)
    BY <2>1 DEF Officiated
  <2> QED
    BY <2>1, <2>2, PayeesKeptByBets
<1>4. CASE SweepStalled(b)
  <2>1. /\ status[b] = "MATCHED" /\ assignment'[b] = "OPEN"
        /\ referee' = [referee EXCEPT ![b] = Null]
        /\ \A c \in Bets \ {b} : assignment'[c] = assignment[c]
        /\ UNCHANGED <<status, playerA, playerB, dispute, filedOn>>
    BY <1>4 DEF SweepStalled, TypeOK
  <2>2. ~Officiated(b)'
    BY <2>1 DEF Officiated, ActiveAssignments, DisputeRows
  <2>3. \A c \in Bets \ {b} : Officiated(c)' => Officiated(c)
    BY <2>1 DEF Officiated
  <2> QED
    BY <2>1, <2>2, <2>3 DEF PayeesKnown, TypeOK
<1> QED
  BY <1>1, <1>2, <1>3, <1>4 DEF RefereeStep

\* A void closes a bet and forgets nobody.
LEMMA PayeesVoid ==
    ASSUME IInv, PayeesKnown, NEW b \in Bets, NEW cancellable, status[b] # "NONE",
           VoidBet(b), CancelAssignment(b, cancellable), UNCHANGED filedOn,
           \A d \in Disputes : dispute'[d] # "idle" => dispute[d] # "idle"
    PROVE  PayeesKnown'
<1> USE DEF IInv
<1>1. /\ status'[b] = "VOIDED" /\ UNCHANGED <<playerA, playerB, referee>>
      /\ \A c \in Bets \ {b} : status'[c] = status[c] /\ assignment'[c] = assignment[c]
      /\ assignment'[b] \in {"CANCELLED", assignment[b]}
  BY CancelledAssignment DEF VoidBet, TypeOK
<1>2. \A c \in Bets : Officiated(c)' => Officiated(c)
  BY <1>1 DEF Officiated, ActiveAssignments
<1> QED
  BY <1>1, <1>2, PayeesFrame

\* A step that leaves bets and assignments alone, and files nothing new.
LEMMA PayeesIdle ==
    ASSUME PayeesKnown, UNCHANGED <<status, playerA, playerB, assignment, referee, filedOn>>,
           \A d \in Disputes : dispute'[d] # "idle" => dispute[d] # "idle"
    PROVE  PayeesKnown'
<1>1. \A c \in Bets : Officiated(c)' => Officiated(c)
  BY DEF Officiated
<1> QED
  BY <1>1, PayeesFrame

LEMMA PayeesFiling ==
    ASSUME IInv, PayeesKnown, NEW d \in Disputes, FilingStep(d)
    PROVE  PayeesKnown'
<1> USE DEF IInv, betVars, refereeVars
<1>1. ASSUME NEW b \in Bets, NEW p \in Players, FileCheck(d, b, p) PROVE PayeesKnown'
  <2>1. /\ status[b] \in {"RESULT_REPORTED", "SETTLED"} /\ filedOn' = [filedOn EXCEPT ![d] = b]
        /\ \A e \in Disputes \ {d} : dispute'[e] = dispute[e]
        /\ UNCHANGED <<status, playerA, playerB, assignment, referee>>
    BY <1>1 DEF FileCheck, TypeOK
  <2>2. \A c \in Bets : Officiated(c)' => Officiated(c)
    BY <2>1 DEF Officiated, TypeOK
  <2> QED
    BY <2>1, <2>2, PayeesFrame
<1>2. CASE FileConflict(d)
  BY <1>2, PayeesFrame DEF FileConflict, TypeOK, Officiated
<1>3. CASE FileCommit(d)
  <2>1. PICK b \in Bets : b = filedOn[d]
    BY <1>3 DEF FileCommit, DisputeRows
  <2>2. /\ dispute[d] # "idle"
        /\ \A e \in Disputes \ {d} : dispute'[e] = dispute[e]
        /\ \A c \in Bets \ {b} : status'[c] = status[c] /\ assignment'[c] = assignment[c]
        /\ status[b] # "NONE"
        /\ UNCHANGED <<playerA, playerB, referee, filedOn>>
    BY <1>3, <2>1 DEF FileCommit, TypeOK
  <2>3. Officiated(b)
    BY <2>1, <2>2 DEF Officiated
  <2>4. \A c \in Bets \ {b} : Officiated(c)' => Officiated(c)
    BY <2>2 DEF Officiated
  <2> QED
    BY <2>2, <2>3, <2>4, PayeesFrame
<1> QED
  BY <1>1, <1>2, <1>3 DEF FilingStep

LEMMA PayeesReview ==
    ASSUME IInv, PayeesKnown, NEW d \in Disputes, ReviewStep(d) \/ EscalationStep(d)
    PROVE  PayeesKnown'
<1> USE DEF IInv, betVars, refereeVars
<1>1. ASSUME NEW r \in Reviewers, ClaimDispute(r, d) \/ DecideCheck(r, d) \/ ResolveFails(r, d)
      PROVE  PayeesKnown'
  BY <1>1, PayeesIdle DEF ClaimDispute, DecideCheck, ResolveFails, OpenDisputeStatuses, TypeOK
<1>2. ASSUME NEW r \in Reviewers, ResolveVoid(r, d) PROVE PayeesKnown'
  <2>1. /\ <<r, d>> \in deciding /\ VoidBet(filedOn[d])
        /\ CancelAssignment(filedOn[d], AssignmentStatuses) /\ RecordRuling(r, d, "VOID")
    BY <1>2 DEF ResolveVoid
  <2>2. /\ filedOn[d] \in Bets /\ status[filedOn[d]] # "NONE"
        /\ dispute[d] \in FiledDisputeStatuses
    BY <2>1, DecidedDispute
  <2>3. UNCHANGED filedOn /\ \A e \in Disputes : dispute'[e] # "idle" => dispute[e] # "idle"
    BY <2>1, <2>2 DEF RecordRuling, FiledDisputeStatuses, OpenDisputeStatuses, TypeOK
  <2> QED
    BY <2>1, <2>2, <2>3, PayeesVoid
<1>3. ASSUME NEW r \in Reviewers, NEW result \in Outcomes, ResolveOutcome(r, d, result)
      PROVE  PayeesKnown'
  <2>1. PICK b \in Bets : b = filedOn[d]
    BY <1>3, DecidedDispute DEF ResolveOutcome
  <2>2. /\ dispute[d] \in FiledDisputeStatuses /\ status[b] # "NONE"
    BY <1>3, <2>1, DecidedDispute DEF ResolveOutcome
  <2>3. /\ \A e \in Disputes \ {d} : dispute'[e] = dispute[e]
        /\ \A c \in Bets \ {b} : status'[c] = status[c] /\ assignment'[c] = assignment[c]
        /\ UNCHANGED <<playerA, playerB, referee, filedOn>>
    BY <1>3, <2>1 DEF ResolveOutcome, RecordRuling, TypeOK
  <2>4. Officiated(b)
    BY <2>1, <2>2 DEF Officiated, FiledDisputeStatuses, OpenDisputeStatuses
  <2>5. \A c \in Bets \ {b} : Officiated(c)' => Officiated(c)
    BY <2>1, <2>3 DEF Officiated
  <2> QED
    BY <2>2, <2>3, <2>4, <2>5, PayeesFrame
<1>4. CASE Escalate(d) \/ AutoCloseDispute(d)
  BY <1>4, PayeesIdle DEF Escalate, AutoCloseDispute, CloseStaleDispute, TypeOK
<1>5. CASE AutoVoidDispute(d)
  <2>1. /\ VoidBet(filedOn[d]) /\ UNCHANGED filedOn
        /\ CancelAssignment(filedOn[d], AssignmentStatuses \ {"NONE", "COMPLETED", "CANCELLED"})
        /\ \A e \in Disputes : dispute'[e] # "idle" => dispute[e] # "idle"
    BY <1>5 DEF AutoVoidDispute, CloseStaleDispute, TypeOK
  <2>2. filedOn[d] \in Bets /\ status[filedOn[d]] # "NONE"
    BY <1>5 DEF AutoVoidDispute, DisputeRows
  <2> QED
    BY <2>1, <2>2, PayeesVoid
<1> QED
  BY <1>1, <1>2, <1>3, <1>4, <1>5 DEF ReviewStep, EscalationStep

LEMMA PayeesKept == IInv /\ PayeesKnown /\ [Next]_vars => PayeesKnown'
<1> SUFFICES ASSUME IInv, PayeesKnown, [Next]_vars PROVE PayeesKnown'
  OBVIOUS
<1> USE DEF betVars, refereeVars, disputeVars
<1>1. ASSUME UNCHANGED <<betVars, refereeVars, disputeVars>> PROVE PayeesKnown'
  BY <1>1, PayeesIdle
<1>2. ASSUME NEW b \in Bets, VoidNoShowMatch(b) \/ VoidUnderage(b) PROVE PayeesKnown'
  BY <1>2, PayeesVoid DEF VoidNoShowMatch, VoidUnderage
<1>3. ASSUME NEW b \in Bets, PlayerStep(b) PROVE PayeesKnown'
  BY <1>2, <1>3, PayeesAccept DEF PlayerStep, WithdrawFromMatch
<1>4. ASSUME NEW b \in Bets, RefereeStep(b) PROVE PayeesKnown'
  BY <1>4, PayeesReferee
<1>5. ASSUME NEW b \in Bets, SweepStep(b) PROVE PayeesKnown'
  BY <1>2, <1>5, PayeesReferee DEF SweepStep, SweepUnclaimed, SweepOverrun, VoidStaleMatch
<1>6. ASSUME NEW b \in Bets, Tick(b) PROVE PayeesKnown'
  BY <1>6, PayeesIdle DEF Tick
<1>7. ASSUME NEW d \in Disputes, FilingStep(d) PROVE PayeesKnown'
  BY <1>7, PayeesFiling
<1>8. ASSUME NEW d \in Disputes, ReviewStep(d) \/ EscalationStep(d) PROVE PayeesKnown'
  BY <1>8, PayeesReview
<1>9. ASSUME NEW b \in Bets, SettlementStep(b) PROVE PayeesKnown'
  <2>1. CASE SettleSkip(b) \/ SettleFails(b) \/ Announce(b)
    BY <1>1, <2>1 DEF SettleSkip, SettleFails, Announce
  <2>2. CASE SettleBet(b)
    <3>1. /\ status[b] = "RESULT_REPORTED" /\ assignment'[b] = "COMPLETED"
          /\ \A c \in Bets \ {b} : status'[c] = status[c] /\ assignment'[c] = assignment[c]
          /\ UNCHANGED <<playerA, playerB, referee, dispute, filedOn>>
      BY <2>2 DEF SettleBet, StillReported, IInv, TypeOK
    <3>2. Officiated(b) /\ assignment'[b] \notin ActiveAssignments
      BY <3>1 DEF Officiated, ActiveAssignments
    <3> QED
      BY <3>1, <3>2, PayeesKeptByBets
  <2> QED
    BY <1>9, <2>1, <2>2 DEF SettlementStep
<1>10. ASSUME SettlementScan \/ CrashSettlement \/ UNCHANGED vars PROVE PayeesKnown'
  BY <1>1, <1>10 DEF SettlementScan, CrashSettlement, vars
<1> QED
  BY <1>3, <1>4, <1>5, <1>2, <1>6, <1>7, <1>8, <1>9, <1>10 DEF Next

LEMMA PayeesInitially == Init => PayeesKnown
BY RowsAssumption DEF Init, PayeesKnown, Officiated, ActiveAssignments

-----------------------------------------------------------------------------
(* What each step does to the balances *)

\* All that players have at stake, over all bets, is within the developer's
\* escrow cap, which each accepted bet is checked against.
StakesWithinCap == Total(escrow) <= EscrowCap

Balances == MoneyConserved /\ EscrowCounterExact /\ StakesWithinCap

\* A step that changes one escrow account, makes up for it in the other
\* balances and moves the counter along keeps both invariants.
LEMMA BalancesKept ==
    ASSUME TypeOK, Balances, NEW b \in Bets, NEW v \in Nat,
           escrow' = [escrow EXCEPT ![b] = v], Total(wallet') \in Int,
           Total(wallet') + (revenue' + devBalance') + v
               = Total(wallet) + (revenue + devBalance) + escrow[b],
           currentEscrow' = currentEscrow - escrow[b] + v,
           revenue' \in Nat, devBalance' \in Nat, v <= escrow[b] \/ currentEscrow' <= EscrowCap
    PROVE  Balances'
<1>1. /\ escrow \in [Bets -> Nat] /\ escrow[b] \in Nat /\ wallet \in [Users -> Nat]
      /\ revenue \in Nat /\ devBalance \in Nat /\ currentEscrow \in Nat
  BY DEF TypeOK
<1>2. Total(escrow') = Total(escrow) - escrow[b] + v
  BY <1>1, TotalChanged, FiniteAssumption
<1>3. Total(escrow) \in Nat /\ Total(wallet) \in Nat /\ Total(OpeningBalance) \in Nat
  BY <1>1, TotalType, FiniteAssumption, MoneyAssumption
<1>4. currentEscrow = Total(escrow)
  BY DEF Balances, EscrowCounterExact
<1>5. Total(wallet) + Total(escrow) + revenue + devBalance = Total(OpeningBalance)
  BY DEF Balances, MoneyConserved
<1>6. currentEscrow' = Total(escrow')
  BY <1>2, <1>4
<1>7. Total(wallet') + Total(escrow') + revenue' + devBalance' = Total(OpeningBalance)
  <2> DEFINE tw == Total(wallet)
             te == Total(escrow)
             to == Total(OpeningBalance)
             tw2 == Total(wallet')
             te2 == Total(escrow')
             house2 == revenue'
             owed2 == devBalance'
  <2>1. /\ tw \in Int /\ te \in Int /\ to \in Int /\ tw2 \in Int /\ house2 \in Int /\ owed2 \in Int
        /\ tw + te + revenue + devBalance = to
        /\ te2 = te - escrow[b] + v
        /\ tw2 + (house2 + owed2) + v = tw + (revenue + devBalance) + escrow[b]
    BY <1>2, <1>3, <1>5
  <2> HIDE DEF tw, te, to, tw2, te2, house2, owed2
  <2>2. tw2 + te2 + house2 + owed2 = to
    BY <1>1, <2>1
  <2> QED
    BY <2>2 DEF tw, te, to, tw2, te2, house2, owed2
<1>8. Total(escrow') <= EscrowCap
  BY <1>1, <1>2, <1>3, <1>4, <1>6, MoneyAssumption DEF Balances, StakesWithinCap
<1> QED
  BY <1>6, <1>7, <1>8 DEF Balances, MoneyConserved, EscrowCounterExact, StakesWithinCap

LEMMA BalancesFrame ==
    ASSUME Balances, UNCHANGED ledgerVars
    PROVE  Balances'
BY DEF Balances, MoneyConserved, EscrowCounterExact, StakesWithinCap, ledgerVars

LEMMA AcceptBalances ==
    ASSUME IInv, Balances, NEW b \in Bets, NEW p \in Players, NEW q \in Players,
           NEW s \in Stakes, Accept(b, p, q, s)
    PROVE  Balances'
<1> USE DEF IInv
<1>1. /\ p # q /\ status[b] = "NONE" /\ wallet[p] >= s /\ wallet[q] >= s
      /\ wallet' = [wallet EXCEPT ![p] = @ - s, ![q] = @ - s]
      /\ escrow' = [escrow EXCEPT ![b] = 2 * s]
      /\ currentEscrow' = currentEscrow + 2 * s /\ currentEscrow' <= EscrowCap
      /\ UNCHANGED <<revenue, devBalance>>
  BY DEF Accept, HoldBoth
<1>2. /\ p \in Users /\ q \in Users /\ s \in Nat /\ escrow[b] = 0
      /\ wallet \in [Users -> Nat] /\ wallet[p] \in Nat /\ wallet[q] \in Nat
      /\ revenue \in Nat /\ devBalance \in Nat /\ currentEscrow \in Nat
  BY <1>1, UsersAssumption, MoneyAssumption DEF PotState, Untouched, TypeOK
<1> DEFINE w == [wallet EXCEPT ![p] = wallet[p] - s]
<1>3. wallet[p] - s \in Nat /\ wallet[q] - s \in Nat
  BY <1>1, <1>2
<1>4. w \in [Users -> Nat] /\ w[q] = wallet[q] /\ wallet' = [w EXCEPT ![q] = wallet[q] - s]
  BY <1>1, <1>2, <1>3
<1>5. Total(w) = Total(wallet) - wallet[p] + (wallet[p] - s)
  BY <1>2, <1>3, TotalChanged, FiniteAssumption
<1> HIDE DEF w
<1>6. Total(wallet') = Total(w) - wallet[q] + (wallet[q] - s)
  <2>1. Total([w EXCEPT ![q] = wallet[q] - s]) = Total(w) - w[q] + (wallet[q] - s)
    BY <1>2, <1>3, <1>4, TotalChanged, FiniteAssumption
  <2> QED
    BY <1>4, <2>1
<1>7. Total(wallet) \in Nat
  BY <1>2, TotalType, FiniteAssumption
<1> DEFINE pot == 2 * s
<1>8. Total(wallet') \in Int /\ Total(wallet') + pot = Total(wallet)
  BY <1>2, <1>5, <1>6, <1>7
<1>9. /\ pot \in Nat /\ revenue' \in Nat /\ devBalance' \in Nat
      /\ escrow' = [escrow EXCEPT ![b] = pot]
      /\ currentEscrow' = currentEscrow - escrow[b] + pot /\ currentEscrow' <= EscrowCap
      /\ UNCHANGED <<revenue, devBalance>>
  BY <1>1, <1>2
<1> HIDE DEF pot
<1>10. Total(wallet') + (revenue' + devBalance') + pot
         = Total(wallet) + (revenue + devBalance) + escrow[b]
  BY <1>2, <1>7, <1>8, <1>9
<1> QED
  BY <1>8, <1>9, <1>10, BalancesKept

\* A refund takes from escrow what it gives back, and from the counter too.
LEMMA RefundBalances ==
    ASSUME IInv, PayeesKnown, Balances, NEW b \in Bets \ SeededBets, NEW key \in RefundKeys,
           status[b] # "NONE", RefundBoth(b, key), UNCHANGED <<stake, playerA, playerB>>
    PROVE  Balances'
<1> USE DEF IInv
<1> DEFINE s == stake[b]
<1>1. s > 0 /\ s \in Nat /\ (Held(b) \/ Paid(b) \/ Refunded(b))
  BY DEF BetRows, PotState, TypeOK
<1>2. Held(b) /\ revenue' \in Nat /\ devBalance' \in Nat
  BY <1>1, RefundFacts
<1>3. escrow[b] = 2 * s /\ Moved(b, key) = s
  BY <1>2 DEF Held, Pot, Moved
<1>4. /\ escrow' = [escrow EXCEPT ![b] = @ - 2 * s]
      /\ wallet' = [u \in Users |-> wallet[u] + Receives(u, playerA[b], s)
                                              + Receives(u, playerB[b], s)]
      /\ currentEscrow' = AtLeastZero(currentEscrow - 2 * s)
      /\ UNCHANGED <<revenue, devBalance>>
  BY <1>3 DEF RefundBoth, FreedByRefund
<1>5. /\ playerA[b] \in Users /\ playerB[b] \in Users /\ wallet \in [Users -> Nat]
      /\ escrow \in [Bets -> Nat] /\ revenue \in Nat /\ devBalance \in Nat /\ currentEscrow \in Nat
  BY UsersAssumption DEF PayeesKnown, TypeOK
<1> HIDE DEF s
<1> DEFINE w == [u \in Users |-> wallet[u] + Receives(u, playerA[b], s)]
           x == [u \in Users |-> w[u] + Receives(u, playerB[b], s)]
<1>6. wallet' = x
  BY <1>4
<1>7. w \in [Users -> Nat] /\ Total(w) = Total(wallet) + s
  BY <1>1, <1>5, ReceiptAdds
<1> HIDE DEF w
<1>8. Total(x) = Total(w) + s
  BY <1>1, <1>5, <1>7, ReceiptAdds
<1> HIDE DEF x
<1>9. Total(wallet) \in Nat
  BY <1>5, TotalType, FiniteAssumption
<1>10. Total(wallet') \in Int /\ Total(wallet') = Total(wallet) + 2 * s
  BY <1>1, <1>6, <1>7, <1>8, <1>9
<1>11. currentEscrow = Total(escrow) /\ Total(escrow) >= escrow[b]
  BY <1>5, TotalChanged, FiniteAssumption DEF Balances, EscrowCounterExact
<1>12. currentEscrow' = currentEscrow - escrow[b] + 0
  BY <1>1, <1>3, <1>4, <1>5, <1>11 DEF AtLeastZero
<1>13. escrow' = [escrow EXCEPT ![b] = 0]
  <2>1. escrow[b] - 2 * s = 0
    BY <1>1, <1>3
  <2> QED
    BY <1>4, <2>1
<1>14. /\ 0 <= escrow[b]
       /\ Total(wallet') + (revenue' + devBalance') + 0
            = Total(wallet) + (revenue + devBalance) + escrow[b]
  BY <1>1, <1>3, <1>4, <1>5, <1>9, <1>10
<1> QED
  BY <1>2, <1>10, <1>12, <1>13, <1>14, BalancesKept

\* A settlement divides what it takes from escrow among the players, the
\* referee, the developer and the platform.
LEMMA SettlementBalances ==
    ASSUME IInv, PayeesKnown, Balances, NEW b \in Bets, SettleBet(b)
    PROVE  Balances'
<1> USE DEF IInv
<1> DEFINE s == stake[b]
           toA == ShareA(outcome[b], s, FeeBp)
           toB == ShareB(outcome[b], s, FeeBp)
           fee == Fee(s, FeeBp)
           refereeFee == RefereeFee(s, FeeBp, RewardBp)
           devShare == DevShare(s, FeeBp, RewardBp, RevShareBp)
<1>1. /\ status[b] = "RESULT_REPORTED"
      /\ escrow[b] = Pot(s)
      /\ escrow' = [escrow EXCEPT ![b] = @ - fee - toA - toB]
      /\ wallet' = [u \in Users |-> wallet[u] + Receives(u, playerA[b], toA)
                                              + Receives(u, playerB[b], toB)
                                              + Receives(u, referee[b], refereeFee)]
      /\ revenue' = revenue + (fee - refereeFee - devShare)
      /\ devBalance' = devBalance + devShare
      /\ currentEscrow' = AtLeastZero(currentEscrow - Pot(s))
  BY DEF SettleBet, PotIntact, StillReported, PaidResult, KeptByPlatform, FreedBySettlement
<1>2. s \in Nat /\ Pot(s) \in Nat
  BY DEF TypeOK, Pot
<1>3. toA \in Nat /\ toB \in Nat /\ toA + toB + fee = Pot(s)
  BY <1>2, SharesDividePot, MoneyAssumption
<1>4. fee \in Nat /\ refereeFee \in Nat /\ devShare \in Nat /\ refereeFee + devShare <= fee
  BY <1>2, FeeCoversShares, FeeBounds, MoneyAssumption
<1>5. /\ playerA[b] \in Users /\ playerB[b] \in Users /\ referee[b] \in Users
      /\ wallet \in [Users -> Nat] /\ escrow \in [Bets -> Nat]
      /\ revenue \in Nat /\ devBalance \in Nat /\ currentEscrow \in Nat
  <2>1. /\ playerA[b] \in Players /\ playerB[b] \in Players /\ referee[b] # Null
    BY <1>1 DEF PayeesKnown, Officiated
  <2> QED
    BY <2>1, UsersAssumption DEF TypeOK
<1> DEFINE pot == Pot(s)
<1> HIDE DEF s, toA, toB, fee, refereeFee, devShare, pot
<1> DEFINE w == [u \in Users |-> wallet[u] + Receives(u, playerA[b], toA)]
           x == [u \in Users |-> w[u] + Receives(u, playerB[b], toB)]
           y == [u \in Users |-> x[u] + Receives(u, referee[b], refereeFee)]
<1>6. wallet' = y
  BY <1>1
<1>7. w \in [Users -> Nat] /\ Total(w) = Total(wallet) + toA
  BY <1>3, <1>5, ReceiptAdds
<1> HIDE DEF w
<1>8. x \in [Users -> Nat] /\ Total(x) = Total(w) + toB
  BY <1>3, <1>5, <1>7, ReceiptAdds
<1> HIDE DEF x
<1>9. Total(y) = Total(x) + refereeFee
  BY <1>4, <1>5, <1>8, ReceiptAdds
<1> HIDE DEF y
<1>10. Total(wallet) \in Nat
  BY <1>5, TotalType, FiniteAssumption
<1>11. Total(wallet') \in Int /\ Total(wallet') = Total(wallet) + (toA + toB + refereeFee)
  BY <1>3, <1>4, <1>6, <1>7, <1>8, <1>9, <1>10
<1>12. currentEscrow = Total(escrow) /\ Total(escrow) >= escrow[b]
  BY <1>5, TotalChanged, FiniteAssumption DEF Balances, EscrowCounterExact
<1>13. pot \in Nat /\ escrow[b] = pot /\ 0 <= escrow[b] /\ toA + toB + fee = pot
  BY <1>1, <1>2, <1>3 DEF pot
<1>14. currentEscrow' = currentEscrow - escrow[b] + 0
  <2>1. currentEscrow' = AtLeastZero(currentEscrow - pot)
    BY <1>1 DEF pot
  <2> QED
    BY <1>5, <1>12, <1>13, <2>1 DEF AtLeastZero
<1>15. escrow' = [escrow EXCEPT ![b] = 0]
  <2>1. escrow[b] - fee - toA - toB = 0
    BY <1>3, <1>4, <1>13
  <2> QED
    BY <1>1, <2>1
<1>16. /\ revenue' \in Nat /\ devBalance' \in Nat
       /\ revenue' + devBalance' = revenue + devBalance + (fee - refereeFee)
  BY <1>1, <1>4, <1>5
<1>17. Total(wallet') + (revenue' + devBalance') + 0
         = Total(wallet) + (revenue + devBalance) + escrow[b]
  <2> DEFINE tw == Total(wallet)
             tw2 == Total(wallet')
             house == revenue + devBalance
             house2 == revenue' + devBalance'
  <2>1. /\ tw \in Int /\ tw2 = tw + (toA + toB + refereeFee)
        /\ house \in Int /\ house2 = house + (fee - refereeFee)
    BY <1>5, <1>10, <1>11, <1>16
  <2> HIDE DEF tw, tw2, house, house2
  <2>2. tw2 + house2 + 0 = tw + house + escrow[b]
    BY <1>3, <1>4, <1>13, <2>1
  <2> QED
    BY <2>2 DEF tw, tw2, house, house2
<1> QED
  BY <1>11, <1>13, <1>14, <1>15, <1>16, <1>17, BalancesKept

LEMMA BalancesInitially == Init => Balances
<1> SUFFICES ASSUME Init PROVE Balances
  OBVIOUS
<1>1. /\ escrow = [b \in Bets |-> 0] /\ wallet = OpeningBalance
      /\ revenue = 0 /\ devBalance = 0 /\ currentEscrow = 0
  BY DEF Init
<1>2. Total(escrow) = 0
  BY <1>1, TotalOfNothing, FiniteAssumption
<1>3. Total(wallet) \in Nat
  BY <1>1, TotalType, FiniteAssumption, MoneyAssumption
<1> QED
  BY <1>1, <1>2, <1>3, MoneyAssumption
     DEF Balances, MoneyConserved, EscrowCounterExact, StakesWithinCap

LEMMA BalancesStep ==
    ASSUME IInv, PayeesKnown, Balances, [Next]_vars
    PROVE  Balances'
<1> USE DEF IInv
<1>1. ASSUME NEW b \in Bets, NEW key \in RefundKeys, status[b] # "NONE",
             VoidBet(b), RefundIfHeld(b, key)
      PROVE  Balances'
  BY <1>1, RefundBalances, BalancesFrame DEF RefundIfHeld, HasEscrowAccount, VoidBet
<1>2. ASSUME NEW b \in Bets, VoidNoShowMatch(b) \/ VoidUnderage(b) PROVE Balances'
  BY <1>1, <1>2 DEF VoidNoShowMatch, VoidUnderage, RefundKeys
<1>3. ASSUME NEW b \in Bets, PlayerStep(b) PROVE Balances'
  BY <1>2, <1>3, AcceptBalances DEF PlayerStep, WithdrawFromMatch
<1>4. ASSUME NEW b \in Bets, RefereeStep(b) \/ Tick(b) PROVE Balances'
  BY <1>4, BalancesFrame DEF RefereeStep, ClaimAssignment, Ready, Start, AdvanceAssignment,
     SubmitDecision, Tick
<1>5. ASSUME NEW b \in Bets, SweepStep(b) PROVE Balances'
  BY <1>2, <1>5, BalancesFrame
     DEF SweepStep, SweepUnclaimed, SweepOverrun, SweepStalled, VoidStaleMatch
<1>6. ASSUME NEW d \in Disputes, FilingStep(d) PROVE Balances'
  BY <1>6, BalancesFrame DEF FilingStep, FileCheck, FileCommit, FileConflict
<1>7. ASSUME NEW d \in Disputes, ReviewStep(d) PROVE Balances'
  <2>1. ASSUME NEW r \in Reviewers, ResolveVoid(r, d) PROVE Balances'
    <3>1. <<r, d>> \in deciding /\ RefundBoth(filedOn[d], d) /\ VoidBet(filedOn[d])
      BY <2>1 DEF ResolveVoid
    <3>2. /\ filedOn[d] \in Bets \ SeededBets /\ status[filedOn[d]] # "NONE"
          /\ d \in RefundKeys
      BY <3>1, DecidedDispute DEF RefundKeys
    <3> QED
      BY <3>1, <3>2, RefundBalances DEF VoidBet
  <2> QED
    BY <1>7, <2>1, BalancesFrame
       DEF ReviewStep, ClaimDispute, DecideCheck, ResolveOutcome, ResolveFails
<1>8. ASSUME NEW d \in Disputes, EscalationStep(d) PROVE Balances'
  <2>1. CASE AutoVoidDispute(d)
    <3>1. /\ RefundBoth(filedOn[d], "autoVoid") /\ VoidBet(filedOn[d])
          /\ dispute[d] = "UNDER_REVIEW"
      BY <2>1 DEF AutoVoidDispute
    <3>2. /\ filedOn[d] \in Bets \ SeededBets /\ status[filedOn[d]] # "NONE"
          /\ "autoVoid" \in RefundKeys
      BY <3>1 DEF DisputeRows, RefundKeys
    <3> QED
      BY <3>1, <3>2, RefundBalances DEF VoidBet
  <2> QED
    BY <1>8, <2>1, BalancesFrame DEF EscalationStep, Escalate, AutoCloseDispute
<1>9. ASSUME NEW b \in Bets, SettlementStep(b) PROVE Balances'
  BY <1>9, SettlementBalances, BalancesFrame
     DEF SettlementStep, SettleSkip, SettleFails, Announce
<1>10. ASSUME SettlementScan \/ CrashSettlement \/ UNCHANGED vars PROVE Balances'
  BY <1>10, BalancesFrame DEF SettlementScan, CrashSettlement, vars
<1> QED
  BY <1>2, <1>3, <1>4, <1>5, <1>6, <1>7, <1>8, <1>9, <1>10 DEF Next

LEMMA BalancesInductive == Spec => []Balances
BY InitIInv, PayeesInitially, BalancesInitially, NextIInv, PayeesKept, BalancesStep, PTL DEF Spec

\* No step makes or loses money: wallets, escrow accounts, the platform and the
\* developer always add up to what there was at first, for any finite number
\* of users and bets and any rounding of the shares.
THEOREM MoneyIsConserved == Spec => []MoneyConserved
BY BalancesInductive, PTL DEF Balances

\* The clamped counter behind the developer's escrow cap is always exactly what
\* the escrow accounts hold, so the cap is enforced on what is really at stake.
THEOREM EscrowCounterIsExact == Spec => []EscrowCounterExact
BY BalancesInductive, PTL DEF Balances

\* However many bets are on at once, what their players have at stake is within
\* the developer's escrow cap.
THEOREM StakesAreWithinCap == Spec => []StakesWithinCap
BY BalancesInductive, PTL DEF Balances
=============================================================================
