---------------------------- MODULE Lobby_proofs ----------------------------
(***************************************************************************)
(* Theorems of the lobby, for any number of players, challenges and        *)
(* requests.                                                               *)
(***************************************************************************)
EXTENDS Lobby, FiniteSetTheorems, TLAPS

Answering(r) == Busy(r) /\ request[r].at \in AcceptSteps

\* A match is of a challenge that has been answered.
MatchedWasAnswered == \A c \in matched : challenge[c] \in {"ACCEPTED", "ENDED"}

\* What is invited or listed to be ended has been sent.
ListedWasSent ==
    /\ \A c \in Challenges : streamerEntry[c] = "INVITED" => challenge[c] # "none"
    /\ \A r \in Requests : Busy(r) => \A c \in request[r].list : challenge[c] # "none"
    /\ \A p \in Players : sweep[p] # Idle => \A c \in sweep[p].list : challenge[c] # "none"

\* One request sends a challenge.
OneSender ==
    \A q, r \in Requests :
        /\ Busy(q) /\ Busy(r) /\ q # r
        /\ request[q].at \in SendSteps /\ request[r].at \in SendSteps
        => request[q].ch # request[r].ch

\* A request that holds two stakes can pay them, and shares no player with another.
StakesHeld ==
    /\ \A r \in Requests : At(r, "match") =>
         balance[From[request[r].ch]] >= 1 /\ balance[To[request[r].ch]] >= 1
    /\ \A q, r \in Requests : At(q, "match") /\ At(r, "match") /\ q # r =>
         {From[request[q].ch], To[request[q].ch]} \cap {From[request[r].ch], To[request[r].ch]} = {}

\* A challenge still open although a rival has been accepted was sent after
\* that; one open beside a rival that holds its stakes is listed or was sent after.
RivalsKnown ==
    /\ \A c \in matched, d \in Challenges :
         c # d /\ To[c] = To[d] /\ Pending(d) => c \in sentAfter[d]
    /\ \A r \in Requests, d \in Challenges :
         At(r, "match") /\ d # request[r].ch /\ To[d] = To[request[r].ch] /\ Pending(d)
           => d \in request[r].list \/ request[r].ch \in sentAfter[d]

\* p was free to play when request r looked.
Saw(r, p) ==
    /\ Answering(r)
    /\ p = To[request[r].ch] \/ (request[r].at # "ask" /\ p = From[request[r].ch])

\* Of what was asked before the player was barred, the sweep misses nothing.
SweepMissesNothing ==
    /\ \A p \in Players : sweep[p] # Idle => p \in barred
    /\ \A p \in Players, r \in Requests :
         Saw(r, p) /\ Pending(request[r].ch) =>
           /\ p \notin swept
           /\ sweep[p] # Idle /\ sweep[p].at = "withdraw" => request[r].ch \in sweep[p].list

IInv ==
    /\ TypeOK /\ MatchedWasAnswered /\ ListedWasSent /\ OneSender
    /\ StakesHeld /\ StakesMatchBets
    /\ RivalsKnown /\ OneOfRivals
    /\ SweepMissesNothing

LEMMA GotoWithMoves ==
  ASSUME TypeOK, NEW r \in Requests, Busy(r),
         NEW step \in RequestSteps, NEW list \in SUBSET Challenges, GotoWith(r, step, list)
  PROVE  \E next \in [at : {step}, ch : {request[r].ch}, list : {list}] :
           request' = [request EXCEPT ![r] = next]
  <1> DEFINE next == [request[r] EXCEPT !.at = step, !.list = list]
  <1>1. request[r] \in [at : RequestSteps, ch : Challenges, list : SUBSET Challenges]
    BY DEF TypeOK, Busy
  <1>2. next \in [at : {step}, ch : {request[r].ch}, list : {list}]
    BY <1>1
  <1> QED BY <1>2 DEF GotoWith, TypeOK

LEMMA AskSendKeeps ==
  ASSUME IInv, NEW r \in Requests, NEW c \in Challenges, AskSend(r, c)
  PROVE  IInv'
  <1> USE LobbyAssumption DEF IInv, AskSend, rows, people, At, Busy, Idle, Finish, Goto, GotoWith, Pending, Open
  <1>1. TypeOK'
    BY DEF TypeOK, Statuses, ViewerStatuses, StreamerStatuses, RequestSteps, SendSteps, AcceptSteps
  <1>2. MatchedWasAnswered'
    BY DEF MatchedWasAnswered, TypeOK, RequestSteps, SendSteps, AcceptSteps
  <1>3. ListedWasSent'
    BY DEF ListedWasSent, TypeOK, RequestSteps, SendSteps, AcceptSteps
  <1>4. OneSender'
    BY DEF OneSender, TypeOK, RequestSteps, SendSteps, AcceptSteps
  <1>5. StakesHeld'
    BY DEF StakesHeld, TypeOK, RequestSteps, SendSteps, AcceptSteps
  <1>6. StakesMatchBets'
    BY DEF StakesMatchBets, MatchesOf, TypeOK, RequestSteps, SendSteps, AcceptSteps
  <1>7. RivalsKnown'
    BY DEF RivalsKnown, TypeOK, RequestSteps, SendSteps, AcceptSteps
  <1>8. OneOfRivals'
    BY DEF OneOfRivals, TypeOK, RequestSteps, SendSteps, AcceptSteps
  <1>9. SweepMissesNothing'
    BY DEF SweepMissesNothing, Saw, Answering, TypeOK, RequestSteps, SendSteps, AcceptSteps
  <1> QED BY <1>1, <1>2, <1>3, <1>4, <1>5, <1>6, <1>7, <1>8, <1>9

LEMMA FindSupersededKeeps ==
  ASSUME IInv, NEW r \in Requests, FindSuperseded(r)
  PROVE  IInv'
  <1> USE LobbyAssumption DEF IInv, Busy, At, Idle
  <1> DEFINE list == {d \in Challenges : Pending(d) /\ From[d] = From[request[r].ch]}
  <1>1. PICK next \in [at : {"send"}, ch : {request[r].ch}, list : {list}] :
          request' = [request EXCEPT ![r] = next]
    <2>1. TypeOK /\ Busy(r) /\ "send" \in RequestSteps /\ list \in SUBSET Challenges
      BY DEF FindSuperseded, RequestSteps, SendSteps, AcceptSteps
    <2>2. GotoWith(r, "send", list)
      BY DEF FindSuperseded
    <2> HIDE DEF list, Busy, IInv
    <2> QED BY <2>1, <2>2, GotoWithMoves
  <1>2. next.at = "send" /\ next.ch = request[r].ch /\ next.list = list
    OBVIOUS
  <1>3. \A q \in Requests : request'[q] = IF q = r THEN next ELSE request[q]
    BY <1>1 DEF TypeOK
  <1>4. next # [at |-> "idle"]
    BY <1>2
  <1>5. /\ request[r] # [at |-> "idle"] /\ request[r].at = "find"
        /\ UNCHANGED <<challenge, viewerEntry, streamerEntry, late, matched, balance>>
        /\ UNCHANGED <<barred, sweep, swept, scanned, sentAfter>>
    BY DEF FindSuperseded, rows, people
  <1>6. request[r].ch \in Challenges /\ list \in SUBSET Challenges /\ \A c \in list : challenge[c] # "none"
    BY <1>5 DEF TypeOK, Pending
  <1>7. TypeOK'
    <2>1. request' \in [Requests -> {[at |-> "idle"]} \cup
             [at : RequestSteps, ch : Challenges, list : SUBSET Challenges]]
      BY <1>1, <1>6 DEF TypeOK, RequestSteps, SendSteps, AcceptSteps
    <2>2. \A q \in Requests : request'[q] # [at |-> "idle"] =>
             (request'[q].at \in SendSteps <=> challenge[request'[q].ch] = "none")
      BY <1>2, <1>3, <1>5 DEF TypeOK, SendSteps, AcceptSteps
    <2> QED BY <1>5, <2>1, <2>2 DEF TypeOK
  <1>8. MatchedWasAnswered' /\ ListedWasSent'
    BY <1>2, <1>3, <1>5, <1>6 DEF MatchedWasAnswered, ListedWasSent
  <1>9. OneSender'
    BY <1>2, <1>3, <1>5 DEF OneSender, SendSteps
  <1>10. StakesHeld'
    BY <1>2, <1>3, <1>5 DEF StakesHeld
  <1>11. StakesMatchBets' /\ OneOfRivals'
    BY <1>5 DEF StakesMatchBets, MatchesOf, OneOfRivals
  <1>12. RivalsKnown'
    BY <1>2, <1>3, <1>5 DEF RivalsKnown, Pending
  <1>13. SweepMissesNothing'
    BY <1>2, <1>3, <1>5 DEF SweepMissesNothing, Saw, Answering, AcceptSteps, Pending
  <1> QED BY <1>7, <1>8, <1>9, <1>10, <1>11, <1>12, <1>13

LEMMA SendKeeps ==
  ASSUME IInv, NEW r \in Requests, Send(r)
  PROVE  IInv'
  <1> USE LobbyAssumption DEF IInv, Send, rows, people, At, Busy, Idle, Finish, Goto, GotoWith, Pending, Open
  <1>1. TypeOK'
    <2>1. /\ challenge' \in [Challenges -> Statuses]
          /\ viewerEntry' \in [Challenges -> ViewerStatuses]
          /\ streamerEntry' \in [Challenges -> StreamerStatuses]
      BY DEF TypeOK, Statuses, ViewerStatuses, StreamerStatuses
    <2>2. request' \in [Requests -> {[at |-> "idle"]} \cup
             [at : RequestSteps, ch : Challenges, list : SUBSET Challenges]]
      BY DEF TypeOK, RequestSteps, SendSteps, AcceptSteps
    <2>3. \A q \in Requests : request'[q] # [at |-> "idle"] =>
             (request'[q].at \in SendSteps <=> challenge'[request'[q].ch] = "none")
      BY <2>2 DEF TypeOK, OneSender, ListedWasSent, RequestSteps, SendSteps, AcceptSteps
    <2>4. late' \in [Challenges -> 0..2] /\ matched' \subseteq Challenges /\ balance' \in [Players -> Nat]
      BY DEF TypeOK, StakesHeld
    <2>5. sentAfter' \in [Challenges -> SUBSET Challenges]
      BY DEF TypeOK
    <2>6. /\ barred' \subseteq Players /\ swept' \subseteq barred'
          /\ sweep' \in [Players -> {[at |-> "idle"]} \cup [at : {"list", "withdraw"}, list : SUBSET Challenges]]
      BY DEF TypeOK, SweepMissesNothing
    <2> QED BY <2>1, <2>2, <2>3, <2>4, <2>5, <2>6 DEF TypeOK
  <1>2. MatchedWasAnswered'
    BY DEF MatchedWasAnswered, TypeOK, RequestSteps, SendSteps, AcceptSteps
  <1>3. ListedWasSent'
    BY DEF ListedWasSent, TypeOK, RequestSteps, SendSteps, AcceptSteps
  <1>4. OneSender'
    BY DEF OneSender, TypeOK, RequestSteps, SendSteps, AcceptSteps
  <1>5. StakesHeld'
    BY DEF StakesHeld, TypeOK, RequestSteps, SendSteps, AcceptSteps
  <1>6. StakesMatchBets'
    BY DEF StakesMatchBets, MatchesOf, TypeOK, RequestSteps, SendSteps, AcceptSteps
  <1>7. RivalsKnown'
    BY DEF RivalsKnown, TypeOK, RequestSteps, SendSteps, AcceptSteps
  <1>8. OneOfRivals'
    BY DEF OneOfRivals, TypeOK, RequestSteps, SendSteps, AcceptSteps
  <1>9. SweepMissesNothing'
    BY DEF SweepMissesNothing, Saw, Answering, TypeOK, RequestSteps, SendSteps, AcceptSteps
  <1> QED BY <1>1, <1>2, <1>3, <1>4, <1>5, <1>6, <1>7, <1>8, <1>9

LEMMA AskAcceptKeeps ==
  ASSUME IInv, NEW r \in Requests, NEW c \in Challenges, AskAccept(r, c)
  PROVE  IInv'
  <1> USE LobbyAssumption DEF IInv, AskAccept, rows, people, At, Busy, Idle, Finish, Goto, GotoWith, Pending, Open
  <1>1. TypeOK'
    BY DEF TypeOK, Statuses, ViewerStatuses, StreamerStatuses, RequestSteps, SendSteps, AcceptSteps
  <1>2. MatchedWasAnswered'
    BY DEF MatchedWasAnswered, TypeOK, RequestSteps, SendSteps, AcceptSteps
  <1>3. ListedWasSent'
    BY DEF ListedWasSent, TypeOK, RequestSteps, SendSteps, AcceptSteps
  <1>4. OneSender'
    BY DEF OneSender, TypeOK, RequestSteps, SendSteps, AcceptSteps
  <1>5. StakesHeld'
    BY DEF StakesHeld, TypeOK, RequestSteps, SendSteps, AcceptSteps
  <1>6. StakesMatchBets'
    BY DEF StakesMatchBets, MatchesOf, TypeOK, RequestSteps, SendSteps, AcceptSteps
  <1>7. RivalsKnown'
    BY DEF RivalsKnown, TypeOK, RequestSteps, SendSteps, AcceptSteps
  <1>8. OneOfRivals'
    BY DEF OneOfRivals, TypeOK, RequestSteps, SendSteps, AcceptSteps
  <1>9. SweepMissesNothing'
    BY DEF SweepMissesNothing, Saw, Answering, TypeOK, RequestSteps, SendSteps, AcceptSteps
  <1> QED BY <1>1, <1>2, <1>3, <1>4, <1>5, <1>6, <1>7, <1>8, <1>9

LEMMA CheckOpponentKeeps ==
  ASSUME IInv, NEW r \in Requests, CheckOpponent(r)
  PROVE  IInv'
  <1> USE LobbyAssumption DEF IInv, CheckOpponent, rows, people, At, Busy, Idle, Finish, Goto, GotoWith, Pending, Open
  <1>1. TypeOK'
    BY DEF TypeOK, Statuses, ViewerStatuses, StreamerStatuses, RequestSteps, SendSteps, AcceptSteps
  <1>2. MatchedWasAnswered'
    BY DEF MatchedWasAnswered, TypeOK, RequestSteps, SendSteps, AcceptSteps
  <1>3. ListedWasSent'
    BY DEF ListedWasSent, TypeOK, RequestSteps, SendSteps, AcceptSteps
  <1>4. OneSender'
    BY DEF OneSender, TypeOK, RequestSteps, SendSteps, AcceptSteps
  <1>5. StakesHeld'
    BY DEF StakesHeld, TypeOK, RequestSteps, SendSteps, AcceptSteps
  <1>6. StakesMatchBets'
    BY DEF StakesMatchBets, MatchesOf, TypeOK, RequestSteps, SendSteps, AcceptSteps
  <1>7. RivalsKnown'
    BY DEF RivalsKnown, TypeOK, RequestSteps, SendSteps, AcceptSteps
  <1>8. OneOfRivals'
    BY DEF OneOfRivals, TypeOK, RequestSteps, SendSteps, AcceptSteps
  <1>9. SweepMissesNothing'
    BY DEF SweepMissesNothing, Saw, Answering, TypeOK, RequestSteps, SendSteps, AcceptSteps
  <1> QED BY <1>1, <1>2, <1>3, <1>4, <1>5, <1>6, <1>7, <1>8, <1>9

LEMMA ReadInviteKeeps ==
  ASSUME IInv, NEW r \in Requests, ReadInvite(r)
  PROVE  IInv'
  <1> USE LobbyAssumption DEF IInv, ReadInvite, rows, people, At, Busy, Idle, Finish, Goto, GotoWith, Pending, Open
  <1>1. TypeOK'
    BY DEF TypeOK, Statuses, ViewerStatuses, StreamerStatuses, RequestSteps, SendSteps, AcceptSteps
  <1>2. MatchedWasAnswered'
    BY DEF MatchedWasAnswered, TypeOK, RequestSteps, SendSteps, AcceptSteps
  <1>3. ListedWasSent'
    BY DEF ListedWasSent, TypeOK, RequestSteps, SendSteps, AcceptSteps
  <1>4. OneSender'
    BY DEF OneSender, TypeOK, RequestSteps, SendSteps, AcceptSteps
  <1>5. StakesHeld'
    BY DEF StakesHeld, TypeOK, RequestSteps, SendSteps, AcceptSteps
  <1>6. StakesMatchBets'
    BY DEF StakesMatchBets, MatchesOf, TypeOK, RequestSteps, SendSteps, AcceptSteps
  <1>7. RivalsKnown'
    BY DEF RivalsKnown, TypeOK, RequestSteps, SendSteps, AcceptSteps
  <1>8. OneOfRivals'
    BY DEF OneOfRivals, TypeOK, RequestSteps, SendSteps, AcceptSteps
  <1>9. SweepMissesNothing'
    BY DEF SweepMissesNothing, Saw, Answering, TypeOK, RequestSteps, SendSteps, AcceptSteps
  <1> QED BY <1>1, <1>2, <1>3, <1>4, <1>5, <1>6, <1>7, <1>8, <1>9

LEMMA HoldStakesKeeps ==
  ASSUME IInv, NEW r \in Requests, HoldStakes(r)
  PROVE  IInv'
  <1> USE LobbyAssumption DEF IInv, Busy, At, Idle
  <1> DEFINE list == {d \in Challenges \ {request[r].ch} : Pending(d) /\ To[d] = To[request[r].ch]}
  <1>1. PICK next \in [at : {"match"}, ch : {request[r].ch}, list : {list}] :
          request' = [request EXCEPT ![r] = next]
    <2>1. TypeOK /\ Busy(r) /\ "match" \in RequestSteps /\ list \in SUBSET Challenges
      BY DEF HoldStakes, RequestSteps, SendSteps, AcceptSteps
    <2>2. GotoWith(r, "match", list)
      BY DEF HoldStakes
    <2> HIDE DEF list, Busy, IInv
    <2> QED BY <2>1, <2>2, GotoWithMoves
  <1>2. next.at = "match" /\ next.ch = request[r].ch /\ next.list = list
    OBVIOUS
  <1>3. \A q \in Requests : request'[q] = IF q = r THEN next ELSE request[q]
    BY <1>1 DEF TypeOK
  <1>4. next # [at |-> "idle"]
    BY <1>2
  <1>5. /\ request[r] # [at |-> "idle"] /\ request[r].at = "hold"
        /\ UNCHANGED <<challenge, viewerEntry, streamerEntry, late, matched, balance>>
        /\ UNCHANGED <<barred, sweep, swept, scanned, sentAfter>>
    BY DEF HoldStakes, rows, people
  <1>6. request[r].ch \in Challenges /\ list \in SUBSET Challenges /\ \A c \in list : challenge[c] # "none"
    BY <1>5 DEF TypeOK, Pending
  <1>7. TypeOK'
    <2>1. request' \in [Requests -> {[at |-> "idle"]} \cup
             [at : RequestSteps, ch : Challenges, list : SUBSET Challenges]]
      BY <1>1, <1>6 DEF TypeOK, RequestSteps, SendSteps, AcceptSteps
    <2>2. \A q \in Requests : request'[q] # [at |-> "idle"] =>
             (request'[q].at \in SendSteps <=> challenge[request'[q].ch] = "none")
      BY <1>2, <1>3, <1>5 DEF TypeOK, SendSteps, AcceptSteps
    <2> QED BY <1>5, <2>1, <2>2 DEF TypeOK
  <1>8. MatchedWasAnswered' /\ ListedWasSent'
    BY <1>2, <1>3, <1>5, <1>6 DEF MatchedWasAnswered, ListedWasSent
  <1>9. OneSender'
    BY <1>2, <1>3, <1>5 DEF OneSender, SendSteps
  <1>10. StakesHeld'
    BY <1>2, <1>3, <1>5 DEF StakesHeld, HoldStakes
  <1>11. StakesMatchBets' /\ OneOfRivals'
    BY <1>5 DEF StakesMatchBets, MatchesOf, OneOfRivals
  <1>12. RivalsKnown'
    BY <1>2, <1>3, <1>5 DEF RivalsKnown, Pending
  <1>13. SweepMissesNothing'
    BY <1>2, <1>3, <1>5 DEF SweepMissesNothing, Saw, Answering, AcceptSteps, Pending
  <1> QED BY <1>7, <1>8, <1>9, <1>10, <1>11, <1>12, <1>13

LEMMA MatchKeeps ==
  ASSUME IInv, NEW r \in Requests, Match(r)
  PROVE  IInv'
  <1> USE LobbyAssumption DEF IInv, Match, rows, people, At, Busy, Idle, Finish, Goto, GotoWith, Pending, Open, Accepted
  <1>1. TypeOK'
    <2>1. /\ challenge' \in [Challenges -> Statuses]
          /\ viewerEntry' \in [Challenges -> ViewerStatuses]
          /\ streamerEntry' \in [Challenges -> StreamerStatuses]
      BY DEF TypeOK, Statuses, ViewerStatuses, StreamerStatuses
    <2>2. request' \in [Requests -> {[at |-> "idle"]} \cup
             [at : RequestSteps, ch : Challenges, list : SUBSET Challenges]]
      BY DEF TypeOK, RequestSteps, SendSteps, AcceptSteps
    <2>3. \A q \in Requests : request'[q] # [at |-> "idle"] =>
             (request'[q].at \in SendSteps <=> challenge'[request'[q].ch] = "none")
      BY <2>2 DEF TypeOK, OneSender, ListedWasSent, RequestSteps, SendSteps, AcceptSteps
    <2>4. late' \in [Challenges -> 0..2] /\ matched' \subseteq Challenges /\ balance' \in [Players -> Nat]
      BY DEF TypeOK, StakesHeld
    <2>5. sentAfter' \in [Challenges -> SUBSET Challenges]
      BY DEF TypeOK
    <2>6. /\ barred' \subseteq Players /\ swept' \subseteq barred'
          /\ sweep' \in [Players -> {[at |-> "idle"]} \cup [at : {"list", "withdraw"}, list : SUBSET Challenges]]
      BY DEF TypeOK, SweepMissesNothing
    <2> QED BY <2>1, <2>2, <2>3, <2>4, <2>5, <2>6 DEF TypeOK
  <1>2. MatchedWasAnswered'
    BY DEF MatchedWasAnswered, TypeOK, RequestSteps, SendSteps, AcceptSteps
  <1>3. ListedWasSent'
    BY DEF ListedWasSent, TypeOK, RequestSteps, SendSteps, AcceptSteps
  <1>4. OneSender'
    BY DEF OneSender, TypeOK, RequestSteps, SendSteps, AcceptSteps
  <1>5. StakesHeld'
    BY DEF StakesHeld, TypeOK, RequestSteps, SendSteps, AcceptSteps
  <1>6. StakesMatchBets'
    <2> DEFINE c == request[r].ch
    <2>1. /\ c \in Challenges /\ c \notin matched /\ matched' = matched \cup {c}
          /\ \A p \in Players : balance[p] \in Nat /\
               balance'[p] = IF p \in {From[c], To[c]} THEN balance[p] - 1 ELSE balance[p]
      BY DEF TypeOK, MatchedWasAnswered, RequestSteps, SendSteps, AcceptSteps
    <2>2. ASSUME NEW p \in Players
          PROVE  balance'[p] + Cardinality(MatchesOf(p)') = Funds[p]
      <3>1. IsFiniteSet(MatchesOf(p)) /\ c \notin MatchesOf(p)
        BY <2>1, FS_Subset DEF MatchesOf, TypeOK
      <3>2. MatchesOf(p)' = IF p \in {From[c], To[c]} THEN MatchesOf(p) \cup {c} ELSE MatchesOf(p)
        BY <2>1 DEF MatchesOf
      <3>3. Cardinality(MatchesOf(p) \cup {c}) = Cardinality(MatchesOf(p)) + 1
        BY <3>1, FS_AddElement
      <3>4. Cardinality(MatchesOf(p)) \in Nat
        BY <3>1, FS_CardinalityType
      <3>5. balance[p] + Cardinality(MatchesOf(p)) = Funds[p]
        BY DEF StakesMatchBets
      <3> QED BY <2>1, <3>2, <3>3, <3>4, <3>5
    <2> QED BY <2>2 DEF StakesMatchBets
  <1>7. RivalsKnown'
    BY DEF RivalsKnown, TypeOK, RequestSteps, SendSteps, AcceptSteps
  <1>8. OneOfRivals'
    <2> DEFINE c == request[r].ch
    <2>1. /\ c \in Challenges /\ challenge[c] = "PENDING" /\ matched' = matched \cup {c}
          /\ UNCHANGED sentAfter
      BY DEF TypeOK, RequestSteps
    <2>2. \A d \in matched : d # c /\ To[d] = To[c] => d \in sentAfter[c]
      BY <2>1 DEF RivalsKnown
    <2> QED BY <2>1, <2>2 DEF OneOfRivals
  <1>9. SweepMissesNothing'
    BY DEF SweepMissesNothing, Saw, Answering, TypeOK, RequestSteps, SendSteps, AcceptSteps
  <1> QED BY <1>1, <1>2, <1>3, <1>4, <1>5, <1>6, <1>7, <1>8, <1>9

LEMMA AskDeclineKeeps ==
  ASSUME IInv, NEW r \in Requests, NEW c \in Challenges, AskDecline(r, c)
  PROVE  IInv'
  <1> USE LobbyAssumption DEF IInv, AskDecline, rows, people, At, Busy, Idle, Finish, Goto, GotoWith, Pending, Open
  <1>1. TypeOK'
    <2>1. /\ challenge' \in [Challenges -> Statuses]
          /\ viewerEntry' \in [Challenges -> ViewerStatuses]
          /\ streamerEntry' \in [Challenges -> StreamerStatuses]
      BY DEF TypeOK, Statuses, ViewerStatuses, StreamerStatuses
    <2>2. request' \in [Requests -> {[at |-> "idle"]} \cup
             [at : RequestSteps, ch : Challenges, list : SUBSET Challenges]]
      BY DEF TypeOK, RequestSteps, SendSteps, AcceptSteps
    <2>3. \A q \in Requests : request'[q] # [at |-> "idle"] =>
             (request'[q].at \in SendSteps <=> challenge'[request'[q].ch] = "none")
      BY <2>2 DEF TypeOK, OneSender, ListedWasSent, RequestSteps, SendSteps, AcceptSteps
    <2>4. late' \in [Challenges -> 0..2] /\ matched' \subseteq Challenges /\ balance' \in [Players -> Nat]
      BY DEF TypeOK, StakesHeld
    <2>5. sentAfter' \in [Challenges -> SUBSET Challenges]
      BY DEF TypeOK
    <2>6. /\ barred' \subseteq Players /\ swept' \subseteq barred'
          /\ sweep' \in [Players -> {[at |-> "idle"]} \cup [at : {"list", "withdraw"}, list : SUBSET Challenges]]
      BY DEF TypeOK, SweepMissesNothing
    <2> QED BY <2>1, <2>2, <2>3, <2>4, <2>5, <2>6 DEF TypeOK
  <1>2. MatchedWasAnswered'
    BY DEF MatchedWasAnswered, TypeOK, RequestSteps, SendSteps, AcceptSteps
  <1>3. ListedWasSent'
    BY DEF ListedWasSent, TypeOK, RequestSteps, SendSteps, AcceptSteps
  <1>4. OneSender'
    BY DEF OneSender, TypeOK, RequestSteps, SendSteps, AcceptSteps
  <1>5. StakesHeld'
    BY DEF StakesHeld, TypeOK, RequestSteps, SendSteps, AcceptSteps
  <1>6. StakesMatchBets'
    BY DEF StakesMatchBets, MatchesOf, TypeOK, RequestSteps, SendSteps, AcceptSteps
  <1>7. RivalsKnown'
    BY DEF RivalsKnown, TypeOK, RequestSteps, SendSteps, AcceptSteps
  <1>8. OneOfRivals'
    BY DEF OneOfRivals, TypeOK, RequestSteps, SendSteps, AcceptSteps
  <1>9. SweepMissesNothing'
    BY DEF SweepMissesNothing, Saw, Answering, TypeOK, RequestSteps, SendSteps, AcceptSteps
  <1> QED BY <1>1, <1>2, <1>3, <1>4, <1>5, <1>6, <1>7, <1>8, <1>9

LEMMA DeclineKeeps ==
  ASSUME IInv, NEW r \in Requests, Decline(r)
  PROVE  IInv'
  <1> USE LobbyAssumption DEF IInv, Decline, rows, people, At, Busy, Idle, Finish, Goto, GotoWith, Pending, Open, Close
  <1>1. TypeOK'
    BY DEF TypeOK, Statuses, ViewerStatuses, StreamerStatuses, RequestSteps, SendSteps, AcceptSteps
  <1>2. MatchedWasAnswered'
    BY DEF MatchedWasAnswered, TypeOK, RequestSteps, SendSteps, AcceptSteps
  <1>3. ListedWasSent'
    BY DEF ListedWasSent, TypeOK, RequestSteps, SendSteps, AcceptSteps
  <1>4. OneSender'
    BY DEF OneSender, TypeOK, RequestSteps, SendSteps, AcceptSteps
  <1>5. StakesHeld'
    BY DEF StakesHeld, TypeOK, RequestSteps, SendSteps, AcceptSteps
  <1>6. StakesMatchBets'
    BY DEF StakesMatchBets, MatchesOf, TypeOK, RequestSteps, SendSteps, AcceptSteps
  <1>7. RivalsKnown'
    BY DEF RivalsKnown, TypeOK, RequestSteps, SendSteps, AcceptSteps
  <1>8. OneOfRivals'
    BY DEF OneOfRivals, TypeOK, RequestSteps, SendSteps, AcceptSteps
  <1>9. SweepMissesNothing'
    BY DEF SweepMissesNothing, Saw, Answering, TypeOK, RequestSteps, SendSteps, AcceptSteps
  <1> QED BY <1>1, <1>2, <1>3, <1>4, <1>5, <1>6, <1>7, <1>8, <1>9

LEMMA AbandonKeeps ==
  ASSUME IInv, NEW r \in Requests, Abandon(r)
  PROVE  IInv'
  <1> USE LobbyAssumption DEF IInv, Abandon, rows, people, At, Busy, Idle, Finish, Goto, GotoWith, Pending, Open
  <1>1. TypeOK'
    BY DEF TypeOK, Statuses, ViewerStatuses, StreamerStatuses, RequestSteps, SendSteps, AcceptSteps
  <1>2. MatchedWasAnswered'
    BY DEF MatchedWasAnswered, TypeOK, RequestSteps, SendSteps, AcceptSteps
  <1>3. ListedWasSent'
    BY DEF ListedWasSent, TypeOK, RequestSteps, SendSteps, AcceptSteps
  <1>4. OneSender'
    BY DEF OneSender, TypeOK, RequestSteps, SendSteps, AcceptSteps
  <1>5. StakesHeld'
    BY DEF StakesHeld, TypeOK, RequestSteps, SendSteps, AcceptSteps
  <1>6. StakesMatchBets'
    BY DEF StakesMatchBets, MatchesOf, TypeOK, RequestSteps, SendSteps, AcceptSteps
  <1>7. RivalsKnown'
    BY DEF RivalsKnown, TypeOK, RequestSteps, SendSteps, AcceptSteps
  <1>8. OneOfRivals'
    BY DEF OneOfRivals, TypeOK, RequestSteps, SendSteps, AcceptSteps
  <1>9. SweepMissesNothing'
    BY DEF SweepMissesNothing, Saw, Answering, TypeOK, RequestSteps, SendSteps, AcceptSteps
  <1> QED BY <1>1, <1>2, <1>3, <1>4, <1>5, <1>6, <1>7, <1>8, <1>9

LEMMA CancelKeeps ==
  ASSUME IInv, NEW c \in Challenges, Cancel(c)
  PROVE  IInv'
  <1> USE LobbyAssumption DEF IInv, Cancel, rows, people, At, Busy, Idle, Finish, Goto, GotoWith, Pending, Open, Close
  <1>1. TypeOK'
    BY DEF TypeOK, Statuses, ViewerStatuses, StreamerStatuses, RequestSteps, SendSteps, AcceptSteps
  <1>2. MatchedWasAnswered'
    BY DEF MatchedWasAnswered, TypeOK, RequestSteps, SendSteps, AcceptSteps
  <1>3. ListedWasSent'
    BY DEF ListedWasSent, TypeOK, RequestSteps, SendSteps, AcceptSteps
  <1>4. OneSender'
    BY DEF OneSender, TypeOK, RequestSteps, SendSteps, AcceptSteps
  <1>5. StakesHeld'
    BY DEF StakesHeld, TypeOK, RequestSteps, SendSteps, AcceptSteps
  <1>6. StakesMatchBets'
    BY DEF StakesMatchBets, MatchesOf, TypeOK, RequestSteps, SendSteps, AcceptSteps
  <1>7. RivalsKnown'
    BY DEF RivalsKnown, TypeOK, RequestSteps, SendSteps, AcceptSteps
  <1>8. OneOfRivals'
    BY DEF OneOfRivals, TypeOK, RequestSteps, SendSteps, AcceptSteps
  <1>9. SweepMissesNothing'
    BY DEF SweepMissesNothing, Saw, Answering, TypeOK, RequestSteps, SendSteps, AcceptSteps
  <1> QED BY <1>1, <1>2, <1>3, <1>4, <1>5, <1>6, <1>7, <1>8, <1>9

LEMMA ExpireChallengeKeeps ==
  ASSUME IInv, NEW c \in Challenges, ExpireChallenge(c)
  PROVE  IInv'
  <1> USE LobbyAssumption DEF IInv, ExpireChallenge, rows, people, At, Busy, Idle, Finish, Goto, GotoWith, Pending, Open, Close
  <1>1. TypeOK'
    BY DEF TypeOK, Statuses, ViewerStatuses, StreamerStatuses, RequestSteps, SendSteps, AcceptSteps
  <1>2. MatchedWasAnswered'
    BY DEF MatchedWasAnswered, TypeOK, RequestSteps, SendSteps, AcceptSteps
  <1>3. ListedWasSent'
    BY DEF ListedWasSent, TypeOK, RequestSteps, SendSteps, AcceptSteps
  <1>4. OneSender'
    BY DEF OneSender, TypeOK, RequestSteps, SendSteps, AcceptSteps
  <1>5. StakesHeld'
    BY DEF StakesHeld, TypeOK, RequestSteps, SendSteps, AcceptSteps
  <1>6. StakesMatchBets'
    BY DEF StakesMatchBets, MatchesOf, TypeOK, RequestSteps, SendSteps, AcceptSteps
  <1>7. RivalsKnown'
    BY DEF RivalsKnown, TypeOK, RequestSteps, SendSteps, AcceptSteps
  <1>8. OneOfRivals'
    BY DEF OneOfRivals, TypeOK, RequestSteps, SendSteps, AcceptSteps
  <1>9. SweepMissesNothing'
    BY DEF SweepMissesNothing, Saw, Answering, TypeOK, RequestSteps, SendSteps, AcceptSteps
  <1> QED BY <1>1, <1>2, <1>3, <1>4, <1>5, <1>6, <1>7, <1>8, <1>9

\* What the scan lists, and the entries it writes, touch nothing else.
LEMMA EntriesWritten ==
  ASSUME IInv,
         viewerEntry' \in [Challenges -> ViewerStatuses],
         streamerEntry' \in [Challenges -> StreamerStatuses],
         \A c \in Challenges : streamerEntry'[c] = "INVITED" => streamerEntry[c] = "INVITED",
         scanned' \subseteq {"viewer", "streamer", "invite"} \X Challenges,
         UNCHANGED <<challenge, late, matched, balance, people, request, sentAfter>>
  PROVE  IInv'
  <1> USE DEF IInv, people
  <1>1. TypeOK'
    BY DEF TypeOK, Busy
  <1>3. MatchedWasAnswered' /\ ListedWasSent'
    BY DEF MatchedWasAnswered, ListedWasSent, Answering, Pending, At, Busy
  <1>4. OneSender' /\ StakesHeld'
    BY DEF OneSender, StakesHeld, At, Busy
  <1>2. StakesMatchBets' /\ RivalsKnown' /\ OneOfRivals' /\ SweepMissesNothing'
    BY DEF StakesMatchBets, MatchesOf, RivalsKnown, OneOfRivals, SweepMissesNothing,
           Saw, Answering, At, Busy, Pending
  <1> QED BY <1>1, <1>2, <1>3, <1>4

LEMMA ScanKeeps ==
  ASSUME IInv, Scan
  PROVE  IInv'
  <1>0. /\ viewerEntry \in [Challenges -> ViewerStatuses]
        /\ streamerEntry \in [Challenges -> StreamerStatuses]
        /\ scanned \subseteq {"viewer", "streamer", "invite"} \X Challenges
    BY DEF IInv, TypeOK
  <1>1. CASE ListStale \/ ListTimedOut
    BY <1>0, <1>1, EntriesWritten DEF ListStale, ListTimedOut, List, Stale, TimedOut, rows
  <1>2. ASSUME NEW c \in Challenges, ExpireChallenge(c) PROVE IInv'
    BY <1>2, ExpireChallengeKeeps
  <1>3. ASSUME NEW c \in Challenges, ExpireEntry(c) PROVE IInv'
    BY <1>0, <1>3, EntriesWritten DEF ExpireEntry, ViewerStatuses, StreamerStatuses
  <1>4. ASSUME NEW c \in Challenges, TimeOutInvite(c) PROVE IInv'
    BY <1>0, <1>4, EntriesWritten DEF TimeOutInvite, ViewerStatuses, StreamerStatuses
  <1>5. ASSUME NEW x \in scanned, MissEntry(x) PROVE IInv'
    BY <1>0, <1>5, EntriesWritten DEF MissEntry, rows
  <1> QED BY <1>1, <1>2, <1>3, <1>4, <1>5 DEF Scan

LEMMA TickKeeps ==
  ASSUME IInv, NEW c \in Challenges, Tick(c)
  PROVE  IInv'
  <1> USE LobbyAssumption DEF IInv, Tick, rows, people, At, Busy, Idle, Finish, Goto, GotoWith, Pending, Open
  <1>1. TypeOK'
    BY DEF TypeOK, Statuses, ViewerStatuses, StreamerStatuses, RequestSteps, SendSteps, AcceptSteps
  <1>2. MatchedWasAnswered'
    BY DEF MatchedWasAnswered, TypeOK, RequestSteps, SendSteps, AcceptSteps
  <1>3. ListedWasSent'
    BY DEF ListedWasSent, TypeOK, RequestSteps, SendSteps, AcceptSteps
  <1>4. OneSender'
    BY DEF OneSender, TypeOK, RequestSteps, SendSteps, AcceptSteps
  <1>5. StakesHeld'
    BY DEF StakesHeld, TypeOK, RequestSteps, SendSteps, AcceptSteps
  <1>6. StakesMatchBets'
    BY DEF StakesMatchBets, MatchesOf, TypeOK, RequestSteps, SendSteps, AcceptSteps
  <1>7. RivalsKnown'
    BY DEF RivalsKnown, TypeOK, RequestSteps, SendSteps, AcceptSteps
  <1>8. OneOfRivals'
    BY DEF OneOfRivals, TypeOK, RequestSteps, SendSteps, AcceptSteps
  <1>9. SweepMissesNothing'
    BY DEF SweepMissesNothing, Saw, Answering, TypeOK, RequestSteps, SendSteps, AcceptSteps
  <1> QED BY <1>1, <1>2, <1>3, <1>4, <1>5, <1>6, <1>7, <1>8, <1>9

LEMMA BarKeeps ==
  ASSUME IInv, NEW p \in Players, Bar(p)
  PROVE  IInv'
  <1> USE LobbyAssumption DEF IInv, Bar, rows, people, At, Busy, Idle, Finish, Goto, GotoWith, Pending, Open
  <1>1. TypeOK'
    BY DEF TypeOK, Statuses, ViewerStatuses, StreamerStatuses, RequestSteps, SendSteps, AcceptSteps
  <1>2. MatchedWasAnswered'
    BY DEF MatchedWasAnswered, TypeOK, RequestSteps, SendSteps, AcceptSteps
  <1>3. ListedWasSent'
    BY DEF ListedWasSent, TypeOK, RequestSteps, SendSteps, AcceptSteps
  <1>4. OneSender'
    BY DEF OneSender, TypeOK, RequestSteps, SendSteps, AcceptSteps
  <1>5. StakesHeld'
    BY DEF StakesHeld, TypeOK, RequestSteps, SendSteps, AcceptSteps
  <1>6. StakesMatchBets'
    BY DEF StakesMatchBets, MatchesOf, TypeOK, RequestSteps, SendSteps, AcceptSteps
  <1>7. RivalsKnown'
    BY DEF RivalsKnown, TypeOK, RequestSteps, SendSteps, AcceptSteps
  <1>8. OneOfRivals'
    BY DEF OneOfRivals, TypeOK, RequestSteps, SendSteps, AcceptSteps
  <1>9. SweepMissesNothing'
    BY DEF SweepMissesNothing, Saw, Answering, TypeOK, RequestSteps, SendSteps, AcceptSteps
  <1> QED BY <1>1, <1>2, <1>3, <1>4, <1>5, <1>6, <1>7, <1>8, <1>9

LEMMA ListOpenKeeps ==
  ASSUME IInv, NEW p \in Players, ListOpen(p)
  PROVE  IInv'
  <1> USE LobbyAssumption DEF IInv, ListOpen, rows, people, At, Busy, Idle, Finish, Goto, GotoWith, Pending, Open
  <1>1. TypeOK'
    BY DEF TypeOK, Statuses, ViewerStatuses, StreamerStatuses, RequestSteps, SendSteps, AcceptSteps
  <1>2. MatchedWasAnswered'
    BY DEF MatchedWasAnswered, TypeOK, RequestSteps, SendSteps, AcceptSteps
  <1>3. ListedWasSent'
    BY DEF ListedWasSent, TypeOK, RequestSteps, SendSteps, AcceptSteps
  <1>4. OneSender'
    BY DEF OneSender, TypeOK, RequestSteps, SendSteps, AcceptSteps
  <1>5. StakesHeld'
    BY DEF StakesHeld, TypeOK, RequestSteps, SendSteps, AcceptSteps
  <1>6. StakesMatchBets'
    BY DEF StakesMatchBets, MatchesOf, TypeOK, RequestSteps, SendSteps, AcceptSteps
  <1>7. RivalsKnown'
    BY DEF RivalsKnown, TypeOK, RequestSteps, SendSteps, AcceptSteps
  <1>8. OneOfRivals'
    BY DEF OneOfRivals, TypeOK, RequestSteps, SendSteps, AcceptSteps
  <1>9. SweepMissesNothing'
    BY DEF SweepMissesNothing, Saw, Answering, TypeOK, RequestSteps, SendSteps, AcceptSteps
  <1> QED BY <1>1, <1>2, <1>3, <1>4, <1>5, <1>6, <1>7, <1>8, <1>9

LEMMA WithdrawKeeps ==
  ASSUME IInv, NEW p \in Players, Withdraw(p)
  PROVE  IInv'
  <1> USE LobbyAssumption DEF IInv, Withdraw, rows, people, At, Busy, Idle, Finish, Goto, GotoWith, Pending, Open
  <1>1. TypeOK'
    <2>1. /\ challenge' \in [Challenges -> Statuses]
          /\ viewerEntry' \in [Challenges -> ViewerStatuses]
          /\ streamerEntry' \in [Challenges -> StreamerStatuses]
      BY DEF TypeOK, Statuses, ViewerStatuses, StreamerStatuses
    <2>2. request' \in [Requests -> {[at |-> "idle"]} \cup
             [at : RequestSteps, ch : Challenges, list : SUBSET Challenges]]
      BY DEF TypeOK, RequestSteps, SendSteps, AcceptSteps
    <2>3. \A q \in Requests : request'[q] # [at |-> "idle"] =>
             (request'[q].at \in SendSteps <=> challenge'[request'[q].ch] = "none")
      BY <2>2 DEF TypeOK, OneSender, ListedWasSent, RequestSteps, SendSteps, AcceptSteps
    <2>4. late' \in [Challenges -> 0..2] /\ matched' \subseteq Challenges /\ balance' \in [Players -> Nat]
      BY DEF TypeOK, StakesHeld
    <2>5. sentAfter' \in [Challenges -> SUBSET Challenges]
      BY DEF TypeOK
    <2>6. /\ barred' \subseteq Players /\ swept' \subseteq barred'
          /\ sweep' \in [Players -> {[at |-> "idle"]} \cup [at : {"list", "withdraw"}, list : SUBSET Challenges]]
      BY DEF TypeOK, SweepMissesNothing
    <2> QED BY <2>1, <2>2, <2>3, <2>4, <2>5, <2>6 DEF TypeOK
  <1>2. MatchedWasAnswered'
    BY DEF MatchedWasAnswered, TypeOK, RequestSteps, SendSteps, AcceptSteps
  <1>3. ListedWasSent'
    BY DEF ListedWasSent, TypeOK, RequestSteps, SendSteps, AcceptSteps
  <1>4. OneSender'
    BY DEF OneSender, TypeOK, RequestSteps, SendSteps, AcceptSteps
  <1>5. StakesHeld'
    BY DEF StakesHeld, TypeOK, RequestSteps, SendSteps, AcceptSteps
  <1>6. StakesMatchBets'
    BY DEF StakesMatchBets, MatchesOf, TypeOK, RequestSteps, SendSteps, AcceptSteps
  <1>7. RivalsKnown'
    BY DEF RivalsKnown, TypeOK, RequestSteps, SendSteps, AcceptSteps
  <1>8. OneOfRivals'
    BY DEF OneOfRivals, TypeOK, RequestSteps, SendSteps, AcceptSteps
  <1>9. SweepMissesNothing'
    BY DEF SweepMissesNothing, Saw, Answering, TypeOK, RequestSteps, SendSteps, AcceptSteps
  <1> QED BY <1>1, <1>2, <1>3, <1>4, <1>5, <1>6, <1>7, <1>8, <1>9

LEMMA StopSweepKeeps ==
  ASSUME IInv, NEW p \in Players, StopSweep(p)
  PROVE  IInv'
  <1> USE LobbyAssumption DEF IInv, StopSweep, rows, people, At, Busy, Idle, Finish, Goto, GotoWith, Pending, Open
  <1>1. TypeOK'
    BY DEF TypeOK, Statuses, ViewerStatuses, StreamerStatuses, RequestSteps, SendSteps, AcceptSteps
  <1>2. MatchedWasAnswered'
    BY DEF MatchedWasAnswered, TypeOK, RequestSteps, SendSteps, AcceptSteps
  <1>3. ListedWasSent'
    BY DEF ListedWasSent, TypeOK, RequestSteps, SendSteps, AcceptSteps
  <1>4. OneSender'
    BY DEF OneSender, TypeOK, RequestSteps, SendSteps, AcceptSteps
  <1>5. StakesHeld'
    BY DEF StakesHeld, TypeOK, RequestSteps, SendSteps, AcceptSteps
  <1>6. StakesMatchBets'
    BY DEF StakesMatchBets, MatchesOf, TypeOK, RequestSteps, SendSteps, AcceptSteps
  <1>7. RivalsKnown'
    BY DEF RivalsKnown, TypeOK, RequestSteps, SendSteps, AcceptSteps
  <1>8. OneOfRivals'
    BY DEF OneOfRivals, TypeOK, RequestSteps, SendSteps, AcceptSteps
  <1>9. SweepMissesNothing'
    BY DEF SweepMissesNothing, Saw, Answering, TypeOK, RequestSteps, SendSteps, AcceptSteps
  <1> QED BY <1>1, <1>2, <1>3, <1>4, <1>5, <1>6, <1>7, <1>8, <1>9

LEMMA ReturnKeeps ==
  ASSUME IInv, NEW p \in Players, Return(p)
  PROVE  IInv'
  <1> USE LobbyAssumption DEF IInv, Return, rows, people, At, Busy, Idle, Finish, Goto, GotoWith, Pending, Open
  <1>1. TypeOK'
    BY DEF TypeOK, Statuses, ViewerStatuses, StreamerStatuses, RequestSteps, SendSteps, AcceptSteps
  <1>2. MatchedWasAnswered'
    BY DEF MatchedWasAnswered, TypeOK, RequestSteps, SendSteps, AcceptSteps
  <1>3. ListedWasSent'
    BY DEF ListedWasSent, TypeOK, RequestSteps, SendSteps, AcceptSteps
  <1>4. OneSender'
    BY DEF OneSender, TypeOK, RequestSteps, SendSteps, AcceptSteps
  <1>5. StakesHeld'
    BY DEF StakesHeld, TypeOK, RequestSteps, SendSteps, AcceptSteps
  <1>6. StakesMatchBets'
    BY DEF StakesMatchBets, MatchesOf, TypeOK, RequestSteps, SendSteps, AcceptSteps
  <1>7. RivalsKnown'
    BY DEF RivalsKnown, TypeOK, RequestSteps, SendSteps, AcceptSteps
  <1>8. OneOfRivals'
    BY DEF OneOfRivals, TypeOK, RequestSteps, SendSteps, AcceptSteps
  <1>9. SweepMissesNothing'
    BY DEF SweepMissesNothing, Saw, Answering, TypeOK, RequestSteps, SendSteps, AcceptSteps
  <1> QED BY <1>1, <1>2, <1>3, <1>4, <1>5, <1>6, <1>7, <1>8, <1>9

LEMMA InitEstablishes == Init => IInv
  <1> SUFFICES ASSUME Init PROVE IInv
    OBVIOUS
  <1> USE LobbyAssumption DEF Init, Idle, Busy, At, Pending
  <1>1. TypeOK
    BY DEF TypeOK, Statuses, ViewerStatuses, StreamerStatuses
  <1>2. MatchedWasAnswered /\ ListedWasSent /\ OneSender /\ StakesHeld
    BY DEF MatchedWasAnswered, ListedWasSent, OneSender, StakesHeld
  <1>3. StakesMatchBets
    <2>1. ASSUME NEW p \in Players
          PROVE  balance[p] + Cardinality(MatchesOf(p)) = Funds[p]
      <3>1. MatchesOf(p) = {}
        BY DEF MatchesOf
      <3>2. Cardinality(MatchesOf(p)) = 0
        BY <3>1, FS_EmptySet
      <3>3. balance[p] = Funds[p] /\ Funds[p] \in Nat
        OBVIOUS
      <3> HIDE DEF Init
      <3> QED BY <3>2, <3>3
    <2> QED BY <2>1 DEF StakesMatchBets
  <1>4. RivalsKnown /\ OneOfRivals /\ SweepMissesNothing
    BY DEF RivalsKnown, OneOfRivals, SweepMissesNothing, Saw, Answering
  <1> QED BY <1>1, <1>2, <1>3, <1>4 DEF IInv

LEMMA StutterKeeps ==
  ASSUME IInv, UNCHANGED vars
  PROVE  IInv'
  <1> USE DEF IInv, vars, rows, people
  <1>1. TypeOK' /\ MatchedWasAnswered' /\ ListedWasSent' /\ OneSender' /\ StakesHeld'
    BY DEF TypeOK, MatchedWasAnswered, ListedWasSent, OneSender, StakesHeld, At, Busy
  <1>2. StakesMatchBets' /\ RivalsKnown' /\ OneOfRivals' /\ SweepMissesNothing'
    BY DEF StakesMatchBets, MatchesOf, RivalsKnown, OneOfRivals, SweepMissesNothing,
           Saw, Answering, At, Busy, Pending
  <1> QED BY <1>1, <1>2

LEMMA NextKeeps == IInv /\ [Next]_vars => IInv'
  <1> SUFFICES ASSUME IInv, [Next]_vars PROVE IInv'
    OBVIOUS
  <1>1. CASE UNCHANGED vars
    BY <1>1, StutterKeeps
  <1>2. CASE \E r \in Requests, c \in Challenges :
               AskSend(r, c) \/ AskAccept(r, c) \/ AskDecline(r, c)
    BY <1>2, AskSendKeeps, AskAcceptKeeps, AskDeclineKeeps
  <1>3. CASE \E r \in Requests : RequestStep(r)
    BY <1>3, FindSupersededKeeps, SendKeeps, CheckOpponentKeeps, ReadInviteKeeps,
       HoldStakesKeeps, MatchKeeps, DeclineKeeps, AbandonKeeps DEF RequestStep
  <1>4. CASE (\E c \in Challenges : Cancel(c) \/ Tick(c)) \/ Scan
    BY <1>4, CancelKeeps, TickKeeps, ScanKeeps
  <1>5. CASE \E p \in Players : Bar(p) \/ ListOpen(p) \/ Withdraw(p) \/ StopSweep(p) \/ Return(p)
    BY <1>5, BarKeeps, ListOpenKeeps, WithdrawKeeps, StopSweepKeeps, ReturnKeeps
  <1> QED BY <1>1, <1>2, <1>3, <1>4, <1>5 DEF Next

-----------------------------------------------------------------------------
(* The theorems *)

\* What an accept in flight may rely on, and the types, in every reachable state.
THEOREM LobbyInductive == Spec => []IInv
  <1> QED BY InitEstablishes, NextKeeps, PTL DEF Spec

\* Rows and requests stay well formed, and no balance goes below zero although
\* accepts of one player check it before they take their stake: the ledger
\* row lock of the hold (lib/ledger/transfer.ts:165-171) is why.
THEOREM LobbyTypeCorrect == Spec => []TypeOK
  <1>1. IInv => TypeOK
    BY DEF IInv
  <1> QED BY <1>1, LobbyInductive, PTL

\* A player has one stake held per match, whatever accepts race
\* (lib/lobby/service.ts:552-754).
THEOREM StakesAreHeldOnce == Spec => []StakesMatchBets
  <1>1. IInv => StakesMatchBets
    BY DEF IInv
  <1> QED BY <1>1, LobbyInductive, PTL

\* Two challenges to a streamer that were open together never both become a
\* match (service.ts:707-742).
THEOREM RivalsLose == Spec => []OneOfRivals
  <1>1. IInv => OneOfRivals
    BY DEF IInv
  <1> QED BY <1>1, LobbyInductive, PTL

\* Who has been taken out of the lobby is not matched any more
\* (responsible-play/service.ts:386-438).
THEOREM BarredAreNotMatched == Spec => SweepEndsPlay
  <1> DEFINE A == \A c \in matched' \ matched : {From[c], To[c]} \cap barred \cap swept = {}
  <1>1. ASSUME IInv, Next PROVE A
    <2>1. CASE \E r \in Requests : Match(r)
      <3>1. PICK r \in Requests : Match(r)
        BY <2>1
      <3>2. PICK c \in Challenges : c = request[r].ch
        BY <1>1, <3>1 DEF IInv, TypeOK, Match, At, Busy
      <3>3. matched' = matched \cup {c} /\ Pending(c)
        BY <3>1, <3>2 DEF Match, Accepted
      <3>4. Saw(r, From[c]) /\ Saw(r, To[c])
        BY <3>1, <3>2 DEF Saw, Answering, Match, At, AcceptSteps
      <3>5. From[c] \notin swept /\ To[c] \notin swept
        BY <1>1, <3>2, <3>3, <3>4, LobbyAssumption DEF IInv, SweepMissesNothing
      <3> QED BY <3>3, <3>5
    <2>2. CASE ~\E r \in Requests : Match(r)
      <3>1. UNCHANGED matched
        BY <1>1, <2>2 DEF Next, AskSend, AskAccept, AskDecline, RequestStep, FindSuperseded, Send,
           CheckOpponent, ReadInvite, HoldStakes, Decline, Abandon, Cancel, Scan, ExpireChallenge,
           ListStale, ListTimedOut, List, ExpireEntry, TimeOutInvite, MissEntry, Tick, Bar, ListOpen, Withdraw, StopSweep, Return
      <3> QED BY <3>1
    <2> QED BY <2>1, <2>2
  <1>2. IInv /\ [Next]_vars => [A]_vars
    BY <1>1
  <1> QED BY <1>2, LobbyInductive, PTL DEF Spec, SweepEndsPlay

-----------------------------------------------------------------------------
(* The refinement *)

LEMMA PhaseIs ==
  ASSUME NEW c \in Challenges
  PROVE  /\ c \in matched => Phase(c) = "matched"
         /\ c \notin matched /\ challenge[c] = "none" => Phase(c) = "unsent"
         /\ c \notin matched /\ challenge[c] = "PENDING" => Phase(c) = "open"
         /\ c \notin matched /\ challenge[c] \notin {"none", "PENDING"} => Phase(c) = "ended"
  <1> QED BY DEF Phase

LEMMA PhaseBecomes ==
  ASSUME NEW c \in Challenges
  PROVE  /\ c \in matched' => Phase(c)' = "matched"
         /\ c \notin matched' /\ challenge'[c] = "none" => Phase(c)' = "unsent"
         /\ c \notin matched' /\ challenge'[c] = "PENDING" => Phase(c)' = "open"
         /\ c \notin matched' /\ challenge'[c] \notin {"none", "PENDING"} => Phase(c)' = "ended"
  <1> QED BY DEF Phase

promised == <<[c \in Challenges |-> Phase(c)], balance>>

LEMMA InitRefines == Init => Promise!Init
  BY PhaseIs DEF Init, Promise!Init

LEMMA QuietRefines ==
  ASSUME UNCHANGED <<challenge, matched, balance>>
  PROVE  UNCHANGED promised
  <1>1. \A c \in Challenges : Phase(c)' = Phase(c)
    BY DEF Phase
  <1> QED BY <1>1 DEF promised

\* Some of the open challenges end.
LEMMA EndingRefines ==
  ASSUME IInv, NEW ended \in SUBSET Challenges, UNCHANGED <<matched, balance>>,
         \A c \in ended : challenge[c] # "none",
         \A c \in Challenges : challenge'[c] = IF c \in ended THEN "ENDED" ELSE challenge[c]
  PROVE  Promise!Next
  <1>1. PICK open \in SUBSET Challenges : open = {c \in ended : Phase(c) = "open"}
    OBVIOUS
  <1>2. \A c \in Challenges : Phase(c)' = IF c \in open THEN "ended" ELSE Phase(c)
    BY <1>1, PhaseIs, PhaseBecomes
  <1>3. open \in SUBSET Promise!Open
    BY <1>1 DEF Promise!Open
  <1>4. Promise!End(open)
    BY <1>2 DEF Promise!End
  <1> QED BY <1>3, <1>4 DEF Promise!Next

LEMMA CloseRefines ==
  ASSUME IInv, NEW c \in Challenges, Close(c), UNCHANGED <<matched, balance>>
  PROVE  Promise!Next
  <1>1. /\ challenge[c] # "none"
        /\ \A d \in Challenges : challenge'[d] = IF d \in {c} THEN "ENDED" ELSE challenge[d]
    BY DEF Close, Pending, IInv, TypeOK
  <1> QED BY <1>1, EndingRefines

LEMMA SendRefines ==
  ASSUME IInv, NEW r \in Requests, Send(r)
  PROVE  Promise!Next
  <1>1. PICK c \in Challenges : c = request[r].ch
    BY DEF IInv, TypeOK, Send, At, Busy
  <1>2. PICK list \in SUBSET Challenges : list = request[r].list
    BY DEF IInv, TypeOK, Send, At, Busy
  <1>3. /\ \A d \in Challenges : challenge'[d] =
             IF d = c THEN "PENDING" ELSE IF d \in list THEN "ENDED" ELSE challenge[d]
        /\ UNCHANGED <<matched, balance>>
    BY <1>1, <1>2 DEF Send
  <1>4. challenge[c] = "none" /\ c \notin matched /\ \A d \in list : challenge[d] # "none"
    BY <1>1, <1>2 DEF Send, At, IInv, TypeOK, SendSteps, MatchedWasAnswered, ListedWasSent
  <1>5. PICK open \in SUBSET Challenges : open = {d \in list : Phase(d) = "open"}
    OBVIOUS
  <1>6. \A d \in Challenges :
          Phase(d)' = IF d = c THEN "open" ELSE IF d \in open THEN "ended" ELSE Phase(d)
    BY <1>3, <1>4, <1>5, PhaseIs, PhaseBecomes
  <1>7. open \in SUBSET Promise!Open
    BY <1>5 DEF Promise!Open
  <1>8. Phase(c) = "unsent"
    BY <1>4, PhaseIs
  <1>9. Promise!Offer(c, open)
    BY <1>3, <1>6, <1>8 DEF Promise!Offer, Promise!MovesOn
  <1> QED BY <1>7, <1>9 DEF Promise!Next

LEMMA MatchRefines ==
  ASSUME IInv, NEW r \in Requests, Match(r)
  PROVE  Promise!Next
  <1>1. PICK c \in Challenges : c = request[r].ch
    BY DEF IInv, TypeOK, Match, At, Busy
  <1>2. PICK list \in SUBSET Challenges : list = request[r].list
    BY DEF IInv, TypeOK, Match, At, Busy
  <1>3. /\ \A d \in Challenges : challenge'[d] =
             IF d = c THEN "ACCEPTED" ELSE IF d \in list THEN "ENDED" ELSE challenge[d]
        /\ matched' = matched \cup {c}
        /\ balance' = [p \in Players |->
             IF p \in {From[c], To[c]} THEN balance[p] - 1 ELSE balance[p]]
    BY <1>1, <1>2 DEF Match, Accepted
  <1>4. /\ challenge[c] = "PENDING" /\ c \notin matched
        /\ \A d \in list : challenge[d] # "none"
        /\ balance[From[c]] >= 1 /\ balance[To[c]] >= 1
    BY <1>1, <1>2 DEF Match, Pending, At, IInv, MatchedWasAnswered, ListedWasSent, StakesHeld
  <1>5. PICK open \in SUBSET Challenges : open = {d \in list \ {c} : Phase(d) = "open"}
    OBVIOUS
  <1>6. \A d \in Challenges :
          Phase(d)' = IF d = c THEN "matched" ELSE IF d \in open THEN "ended" ELSE Phase(d)
    BY <1>3, <1>4, <1>5, PhaseIs, PhaseBecomes
  <1>7. open \in SUBSET Promise!Open
    BY <1>5 DEF Promise!Open
  <1>8. Phase(c) = "open"
    BY <1>4, PhaseIs
  <1>9. Promise!Match(c, open)
    BY <1>3, <1>4, <1>6, <1>8 DEF Promise!Match, Promise!MovesOn
  <1> QED BY <1>7, <1>9 DEF Promise!Next

LEMMA WithdrawRefines ==
  ASSUME IInv, NEW p \in Players, Withdraw(p)
  PROVE  Promise!Next
  <1>1. PICK list \in SUBSET Challenges : list = sweep[p].list
    BY DEF IInv, TypeOK, Withdraw
  <1>2. /\ \A c \in Challenges : challenge'[c] = IF c \in list THEN "ENDED" ELSE challenge[c]
        /\ UNCHANGED <<matched, balance>>
        /\ \A c \in list : challenge[c] # "none"
    BY <1>1 DEF Withdraw, IInv, ListedWasSent
  <1> QED BY <1>2, EndingRefines

LEMMA NextRefines == IInv /\ [Next]_vars => [Promise!Next]_promised
  <1> SUFFICES ASSUME IInv, [Next]_vars PROVE Promise!Next \/ UNCHANGED promised
    OBVIOUS
  <1>1. CASE UNCHANGED vars
    BY <1>1, QuietRefines DEF vars, rows
  <1>2. CASE \E r \in Requests, c \in Challenges :
               AskSend(r, c) \/ AskAccept(r, c) \/ AskDecline(r, c)
    BY <1>2, QuietRefines DEF AskSend, AskAccept, AskDecline, rows
  <1>3. ASSUME NEW r \in Requests, RequestStep(r) PROVE Promise!Next \/ UNCHANGED promised
    <2>1. CASE FindSuperseded(r) \/ CheckOpponent(r) \/ ReadInvite(r) \/ HoldStakes(r) \/ Abandon(r)
      BY <2>1, QuietRefines DEF FindSuperseded, CheckOpponent, ReadInvite, HoldStakes, Abandon, rows
    <2>2. CASE Decline(r)
      <3>1. PICK c \in Challenges : c = request[r].ch
        BY <2>2 DEF IInv, TypeOK, Decline, At, Busy
      <3> QED BY <2>2, <3>1, CloseRefines DEF Decline
    <2> QED BY <1>3, <2>1, <2>2, SendRefines, MatchRefines DEF RequestStep
  <1>4. ASSUME (\E c \in Challenges : Cancel(c) \/ Tick(c)) \/ Scan
        PROVE  Promise!Next \/ UNCHANGED promised
    <2>1. ASSUME NEW c \in Challenges, Cancel(c) \/ ExpireChallenge(c)
          PROVE  Promise!Next \/ UNCHANGED promised
      BY <2>1, CloseRefines DEF Cancel, ExpireChallenge
    <2>2. ASSUME NEW c \in Challenges, ExpireEntry(c) \/ TimeOutInvite(c) \/ Tick(c)
          PROVE  Promise!Next \/ UNCHANGED promised
      BY <2>2, QuietRefines DEF ExpireEntry, TimeOutInvite, Tick, rows
    <2>3. CASE ListStale \/ ListTimedOut \/ \E x \in scanned : MissEntry(x)
      BY <2>3, QuietRefines DEF ListStale, ListTimedOut, List, MissEntry, rows
    <2> QED BY <1>4, <2>1, <2>2, <2>3 DEF Scan
  <1>5. ASSUME NEW p \in Players, Bar(p) \/ ListOpen(p) \/ Withdraw(p) \/ StopSweep(p) \/ Return(p)
        PROVE  Promise!Next \/ UNCHANGED promised
    <2>1. CASE Bar(p) \/ ListOpen(p) \/ StopSweep(p) \/ Return(p)
      BY <2>1, QuietRefines DEF Bar, ListOpen, StopSweep, Return, rows
    <2> QED BY <1>5, <2>1, WithdrawRefines
  <1> QED BY <1>1, <1>2, <1>3, <1>4, <1>5 DEF Next

\* Every step of the lobby is one the promise allows, or is invisible to it:
\* a challenge ends once, and a match takes both stakes, once.
THEOREM LobbyRefines == Spec => PromiseKept
  <1>1. IInv /\ [Next]_vars => [Promise!Next]_<<[c \in Challenges |-> Phase(c)], balance>>
    BY NextRefines DEF promised
  <1> QED BY <1>1, InitRefines, LobbyInductive, PTL DEF Spec, PromiseKept, Promise!Spec
=============================================================================
