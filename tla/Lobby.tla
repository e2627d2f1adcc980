------------------------------- MODULE Lobby -------------------------------
(***************************************************************************)
(* Challenges of one viewer to one streamer: sending, answering,           *)
(* cancelling and expiring them, and what takes a player out of the lobby  *)
(* (a break, a closed account).  An accepted challenge is a bet with both  *)
(* stakes held, and from there on BetEscrow's.                             *)
(*                                                                         *)
(* The lobby's transactions are READ COMMITTED and mostly write without    *)
(* looking again, so a step is what one of them reads, or all it writes:   *)
(* its writes keep their rows locked until it commits, and a write that    *)
(* met such a lock is evaluated again after it, which is the order here.   *)
(* The ledger rows of both players are locked before an accept looks for   *)
(* the other challenges it closes, so that lock is a guard (HoldStakes).   *)
(* A request may stop anywhere: refused by a gate that is data here (live  *)
(* on Kick, match rules, blocks, KYC), failed, deadlocked or killed.       *)
(*                                                                         *)
(* One game, one stake.  An entry's 60 s and 10 min are late = 1 and 2.    *)
(***************************************************************************)
EXTENDS Integers, FiniteSets

CONSTANTS
    Players,
    Challenges,         \* ids, each sent at most once
    From, To,           \* [Challenges -> Players]: viewer and streamer
    Funds,              \* [Players -> stakes a player has free at first]
    MaxPerPair,         \* MAX_MATCHES_PER_PAIR_PER_WINDOW
    Requests,           \* bound: HTTP requests in flight
    Leavers,            \* bound: players who may be barred
    Deadlines           \* bound: how many of an entry's two deadlines may pass

ASSUME LobbyAssumption ==
    /\ IsFiniteSet(Challenges)
    /\ From \in [Challenges -> Players] /\ To \in [Challenges -> Players]
    /\ \A c \in Challenges : From[c] # To[c]
    /\ Funds \in [Players -> Nat]
    /\ MaxPerPair \in Nat
    /\ Leavers \subseteq Players
    /\ Deadlines \in 0..2

\* ENDED stands for DECLINED, CANCELLED and EXPIRED, GONE for an entry's
\* CANCELLED and EXPIRED: nothing tells them apart but what the players are shown.
Statuses == {"none", "PENDING", "ACCEPTED", "ENDED"}
ViewerStatuses == {"none", "WAITING", "MATCHED", "GONE"}
StreamerStatuses == ViewerStatuses \cup {"INVITED"}
Open == {"WAITING", "INVITED"}

SendSteps == {"find", "send"}
AcceptSteps == {"ask", "read", "hold", "match"}
RequestSteps == SendSteps \cup AcceptSteps \cup {"decline"}

VARIABLES
    challenge,                      \* StreamChallenge.status
    viewerEntry, streamerEntry,     \* LobbyEntry.status of its two entries
    late,                           \* which of its deadlines have passed: 0, 1, 2
    matched,                        \* challenges with a bet and both stakes held
    balance,                        \* stakes a player has free
    barred,                         \* players on a break or not ACTIVE
    request,                        \* requests in flight
    sweep,                          \* a player's withdrawOpenActivity
    scanned,                        \* what the expiry scan has listed and not written
    \* history: barred players whose sweep has finished, and for each
    \* challenge those that were accepted, or being accepted, when it was sent
    swept, sentAfter

rows == <<challenge, viewerEntry, streamerEntry>>
people == <<barred, sweep, swept>>
vars == <<rows, late, matched, balance, people, request, scanned, sentAfter>>

Idle == [at |-> "idle"]
Busy(r) == request[r] # Idle
At(r, step) == Busy(r) /\ request[r].at = step

Init ==
    /\ challenge = [c \in Challenges |-> "none"]
    /\ viewerEntry = [c \in Challenges |-> "none"]
    /\ streamerEntry = [c \in Challenges |-> "none"]
    /\ late = [c \in Challenges |-> 0]
    /\ matched = {}
    /\ balance = Funds
    /\ barred = {} /\ swept = {}
    /\ request = [r \in Requests |-> Idle]
    /\ sweep = [p \in Players |-> Idle]
    /\ scanned = {}
    /\ sentAfter = [c \in Challenges |-> {}]

-----------------------------------------------------------------------------
(* What several steps share *)

Pending(c) == challenge[c] = "PENDING"

Goto(r, step) == request' = [request EXCEPT ![r] = [@ EXCEPT !.at = step]]
GotoWith(r, step, list) ==
    request' = [request EXCEPT ![r] = [@ EXCEPT !.at = step, !.list = list]]
Finish(r) == request' = [request EXCEPT ![r] = Idle]

\* One challenge ends, and its entries go if they are still open.
Close(c) ==
    /\ Pending(c)
    /\ challenge' = [challenge EXCEPT ![c] = "ENDED"]
    /\ viewerEntry' = [viewerEntry EXCEPT ![c] = IF @ \in Open THEN "GONE" ELSE @]
    /\ streamerEntry' = [streamerEntry EXCEPT ![c] = IF @ \in Open THEN "GONE" ELSE @]

-----------------------------------------------------------------------------
(* Sending *)

\* An earlier pending challenge to the same streamer is answered instead.
AskSend(r, c) ==
    /\ ~Busy(r)
    /\ challenge[c] = "none"
    /\ \A q \in Requests : Busy(q) => request[q].ch # c
    /\ From[c] \notin barred
    /\ balance[From[c]] >= 1
    /\ ~\E d \in Challenges : Pending(d) /\ late[d] = 0 /\ From[d] = From[c] /\ To[d] = To[c]
    /\ request' = [request EXCEPT ![r] = [at |-> "find", ch |-> c, list |-> {}]]
    /\ UNCHANGED <<rows, late, matched, balance, people, scanned, sentAfter>>

FindSuperseded(r) ==
    /\ At(r, "find")
    /\ GotoWith(r, "send", {d \in Challenges : Pending(d) /\ From[d] = From[request[r].ch]})
    /\ UNCHANGED <<rows, late, matched, balance, people, scanned, sentAfter>>

\* The superseded ones and their entries end as they were listed, and
\* every other open entry of the viewer, in either role, with them.
Send(r) ==
    LET c == request[r].ch
        superseded == request[r].list
    IN
    /\ At(r, "send")
    /\ challenge' = [d \in Challenges |->
         IF d = c THEN "PENDING" ELSE IF d \in superseded THEN "ENDED" ELSE challenge[d]]
    /\ viewerEntry' = [d \in Challenges |->
         IF d = c THEN "WAITING"
         ELSE IF d \in superseded \/ (From[d] = From[c] /\ viewerEntry[d] \in Open)
           THEN "GONE" ELSE viewerEntry[d]]
    /\ streamerEntry' = [d \in Challenges |->
         IF d = c THEN "INVITED"
         ELSE IF d \in superseded \/ (To[d] = From[c] /\ streamerEntry[d] \in Open)
           THEN "GONE" ELSE streamerEntry[d]]
    /\ sentAfter' = [sentAfter EXCEPT ![c] =
         matched \cup {d \in Challenges : \E q \in Requests : At(q, "match") /\ request[q].ch = d}]
    /\ Finish(r)
    /\ UNCHANGED <<late, matched, balance, people, scanned>>

-----------------------------------------------------------------------------
(* Accepting *)

\* The streamer's client knows the entry's id, so the challenge exists (one
\* that has ended is refused later); "now" is taken here, and the deadline
\* compared with it.
AskAccept(r, c) ==
    /\ ~Busy(r)
    /\ Pending(c) /\ late[c] = 0
    /\ To[c] \notin barred
    /\ request' = [request EXCEPT ![r] = [at |-> "ask", ch |-> c, list |-> {}]]
    /\ UNCHANGED <<rows, late, matched, balance, people, scanned, sentAfter>>

Between(c) == {d \in matched : {From[d], To[d]} = {From[c], To[c]}}

MutantCheckOpponent(r) ==
    /\ At(r, "ask")
    /\ Cardinality(Between(request[r].ch)) < MaxPerPair
    /\ Goto(r, "read")
    /\ UNCHANGED <<rows, late, matched, balance, people, scanned, sentAfter>>

CheckOpponent(r) ==
    /\ At(r, "ask")
    /\ From[request[r].ch] \notin barred
    /\ Cardinality(Between(request[r].ch)) < MaxPerPair
    /\ Goto(r, "read")
    /\ UNCHANGED <<rows, late, matched, balance, people, scanned, sentAfter>>

ReadInvite(r) ==
    LET c == request[r].ch IN
    /\ At(r, "read")
    /\ Pending(c) /\ streamerEntry[c] = "INVITED" /\ viewerEntry[c] = "WAITING"
    /\ Goto(r, "hold")
    /\ UNCHANGED <<rows, late, matched, balance, people, scanned, sentAfter>>

\* Both balances must cover the stake; their rows stay locked.  Then the
\* streamer's other challenges are listed.
HoldStakes(r) ==
    LET c == request[r].ch IN
    /\ At(r, "hold")
    /\ balance[From[c]] >= 1 /\ balance[To[c]] >= 1
    /\ \A q \in Requests :
         At(q, "match") => {From[request[q].ch], To[request[q].ch]} \cap {From[c], To[c]} = {}
    /\ GotoWith(r, "match", {d \in Challenges \ {c} : Pending(d) /\ To[d] = To[c]})
    /\ UNCHANGED <<rows, late, matched, balance, people, scanned, sentAfter>>

\* The accept and the other challenges' end; their entries follow if still
\* open.  A challenge no longer pending rolls everything back (Abandon).
Accepted(r) ==
    LET c == request[r].ch
        rivals == request[r].list
    IN
    /\ challenge' = [d \in Challenges |->
         IF d = c THEN "ACCEPTED" ELSE IF d \in rivals THEN "ENDED" ELSE challenge[d]]
    /\ viewerEntry' = [d \in Challenges |->
         IF d = c THEN "MATCHED"
         ELSE IF d \in rivals /\ viewerEntry[d] \in Open THEN "GONE" ELSE viewerEntry[d]]
    /\ streamerEntry' = [d \in Challenges |->
         IF d = c THEN "MATCHED"
         ELSE IF d \in rivals /\ streamerEntry[d] \in Open THEN "GONE" ELSE streamerEntry[d]]
    /\ matched' = matched \cup {c}
    /\ balance' = [p \in Players |-> IF p \in {From[c], To[c]} THEN balance[p] - 1 ELSE balance[p]]
    /\ Finish(r)
    /\ UNCHANGED <<late, people, scanned, sentAfter>>

MutantMatch(r) == At(r, "match") /\ Accepted(r)

Match(r) ==
    /\ At(r, "match")
    /\ Pending(request[r].ch)
    /\ Accepted(r)

-----------------------------------------------------------------------------
(* Declining, cancelling, expiring *)

AskDecline(r, c) ==
    /\ ~Busy(r)
    /\ streamerEntry[c] = "INVITED"
    /\ request' = [request EXCEPT ![r] = [at |-> "decline", ch |-> c, list |-> {}]]
    /\ UNCHANGED <<rows, late, matched, balance, people, scanned, sentAfter>>

Decline(r) ==
    /\ At(r, "decline")
    /\ Close(request[r].ch)
    /\ Finish(r)
    /\ UNCHANGED <<late, matched, balance, people, scanned, sentAfter>>

Cancel(c) ==
    /\ Close(c)
    /\ UNCHANGED <<late, matched, balance, people, request, scanned, sentAfter>>

\* Refused, failed, deadlocked or killed: a transaction in progress is undone.
Abandon(r) ==
    /\ Busy(r)
    /\ Finish(r)
    /\ UNCHANGED <<rows, late, matched, balance, people, scanned, sentAfter>>

\* An expiry that asks for a waiting viewer misses a challenge whose viewer sent
\* another one at once.
MutantExpireChallenge(c) ==
    /\ late[c] >= 1 /\ viewerEntry[c] = "WAITING"
    /\ Close(c)
    /\ UNCHANGED <<late, matched, balance, people, request, scanned, sentAfter>>

\* The scan's first pass ends a challenge and its entries in one guarded
\* transaction.
ExpireChallenge(c) ==
    /\ late[c] >= 1
    /\ Close(c)
    /\ UNCHANGED <<late, matched, balance, people, request, scanned, sentAfter>>

\* The other two list entries and then write them one by one, by id, whatever
\* has become of them since.
Stale ==
    {<<"viewer", c>> : c \in {d \in Challenges : late[d] = 2 /\ viewerEntry[d] \in Open}} \cup
    {<<"streamer", c>> : c \in {d \in Challenges : late[d] = 2 /\ streamerEntry[d] \in Open}}

\* Only an invite the first pass failed on, or had no room for, gets here.
TimedOut ==
    {<<"invite", c>> : c \in {d \in Challenges : late[d] = 1 /\ streamerEntry[d] = "INVITED"}}

List(entries) ==
    /\ scanned = {} /\ entries # {}
    /\ scanned' = entries
    /\ UNCHANGED <<rows, late, matched, balance, people, request, sentAfter>>

ListStale == List(Stale)
ListTimedOut == List(TimedOut)

ExpireEntry(c) ==
    /\ \/ /\ <<"viewer", c>> \in scanned
          /\ scanned' = scanned \ {<<"viewer", c>>}
          /\ viewerEntry' = [viewerEntry EXCEPT ![c] = "GONE"]
          /\ UNCHANGED streamerEntry
       \/ /\ <<"streamer", c>> \in scanned
          /\ scanned' = scanned \ {<<"streamer", c>>}
          /\ streamerEntry' = [streamerEntry EXCEPT ![c] = "GONE"]
          /\ UNCHANGED viewerEntry
    /\ UNCHANGED <<challenge, late, matched, balance, people, request, sentAfter>>

TimeOutInvite(c) ==
    /\ <<"invite", c>> \in scanned
    /\ scanned' = scanned \ {<<"invite", c>>}
    /\ streamerEntry' = [streamerEntry EXCEPT ![c] = "WAITING"]
    /\ UNCHANGED <<challenge, viewerEntry, late, matched, balance, people, request, sentAfter>>

\* An error is caught and logged, and the entry left to a later scan.
MissEntry(x) ==
    /\ scanned' = scanned \ {x}
    /\ UNCHANGED <<rows, late, matched, balance, people, request, sentAfter>>

Lingers(c) == Pending(c) \/ viewerEntry[c] \in Open \/ streamerEntry[c] \in Open

\* Time passes where a deadline still matters.  No request and no scan lasts
\* from a challenge's 60 s to its 10 min.
Tick(c) ==
    /\ Lingers(c) /\ late[c] < Deadlines
    /\ late[c] = 1 => scanned = {} /\ \A r \in Requests : Busy(r) => request[r].ch # c
    /\ late' = [late EXCEPT ![c] = @ + 1]
    /\ UNCHANGED <<rows, matched, balance, people, request, scanned, sentAfter>>

-----------------------------------------------------------------------------
(* Taking a player out of the lobby *)

\* The break, or the account's status, is stored first; the player's open
\* activity is withdrawn in a transaction after it, if that is reached.
Bar(p) ==
    /\ p \in Leavers \ barred /\ sweep[p] = Idle
    /\ barred' = barred \cup {p}
    /\ sweep' = [sweep EXCEPT ![p] = [at |-> "list", list |-> {}]]
    /\ UNCHANGED <<rows, late, matched, balance, request, swept, scanned, sentAfter>>

ListOpen(p) ==
    /\ sweep[p] # Idle /\ sweep[p].at = "list"
    /\ sweep' = [sweep EXCEPT ![p] =
         [at |-> "withdraw", list |-> {c \in Challenges : Pending(c) /\ p \in {From[c], To[c]}}]]
    /\ UNCHANGED <<rows, late, matched, balance, request, barred, swept, scanned, sentAfter>>

\* The listed challenges and their open entries, the player's own open
\* entries; an invite of theirs that is still open goes back to waiting.
Withdraw(p) ==
    LET listed == sweep[p].list IN
    /\ sweep[p] # Idle /\ sweep[p].at = "withdraw"
    /\ challenge' = [c \in Challenges |-> IF c \in listed THEN "ENDED" ELSE challenge[c]]
    /\ viewerEntry' = [c \in Challenges |->
         IF (c \in listed \/ From[c] = p) /\ viewerEntry[c] \in Open
           THEN "GONE" ELSE viewerEntry[c]]
    /\ streamerEntry' = [c \in Challenges |->
         IF (c \in listed \/ To[c] = p) /\ streamerEntry[c] \in Open THEN "GONE"
         ELSE IF From[c] = p /\ streamerEntry[c] = "INVITED" THEN "WAITING"
         ELSE streamerEntry[c]]
    /\ sweep' = [sweep EXCEPT ![p] = Idle]
    /\ swept' = swept \cup {p}
    /\ UNCHANGED <<late, matched, balance, request, barred, scanned, sentAfter>>

StopSweep(p) ==
    /\ sweep[p] # Idle
    /\ sweep' = [sweep EXCEPT ![p] = Idle]
    /\ UNCHANGED <<rows, late, matched, balance, request, barred, swept, scanned, sentAfter>>

\* A break lasts a day or longer: its sweep is over by then.
Return(p) ==
    /\ p \in barred /\ sweep[p] = Idle
    /\ barred' = barred \ {p} /\ swept' = swept \ {p}
    /\ UNCHANGED <<rows, late, matched, balance, request, sweep, scanned, sentAfter>>

-----------------------------------------------------------------------------
RequestStep(r) ==
    \/ FindSuperseded(r) \/ Send(r)
    \/ CheckOpponent(r) \/ ReadInvite(r) \/ HoldStakes(r) \/ Match(r)
    \/ Decline(r)
    \/ Abandon(r)

Scan ==
    \/ ListStale \/ ListTimedOut
    \/ \E c \in Challenges : ExpireChallenge(c) \/ ExpireEntry(c) \/ TimeOutInvite(c)
    \/ \E x \in scanned : MissEntry(x)

Next ==
    \/ \E r \in Requests, c \in Challenges : AskSend(r, c) \/ AskAccept(r, c) \/ AskDecline(r, c)
    \/ \E r \in Requests : RequestStep(r)
    \/ \E c \in Challenges : Cancel(c) \/ Tick(c)
    \/ Scan
    \/ \E p \in Players : Bar(p) \/ ListOpen(p) \/ Withdraw(p) \/ StopSweep(p) \/ Return(p)

Spec == Init /\ [][Next]_vars

\* The scan runs every 30 s whatever players do, and does not fail on the same
\* entry every time; requests do not last, and time passes.  Nobody has to
\* send, answer or cancel, or to be barred.
Fairness ==
    /\ WF_vars(\E c \in Challenges : ExpireChallenge(c))
    /\ WF_vars(ListStale \/ \E c \in Challenges : TimeOutInvite(c))
    /\ SF_vars(\E c \in Challenges : ExpireEntry(c))
    /\ WF_vars(\E c \in Challenges : Tick(c))
    /\ \A r \in Requests : WF_vars(RequestStep(r))

FairSpec == Spec /\ Fairness

-----------------------------------------------------------------------------
(* Properties *)

\* Rows hold statuses of their columns and, whatever accepts run at once, no
\* balance is negative; a challenge being sent does not exist yet and one being
\* answered does (lib/lobby/service.ts:103-793, lib/ledger/transfer.ts:165-171).
TypeOK ==
    /\ challenge \in [Challenges -> Statuses]
    /\ viewerEntry \in [Challenges -> ViewerStatuses]
    /\ streamerEntry \in [Challenges -> StreamerStatuses]
    /\ late \in [Challenges -> 0..2]
    /\ matched \subseteq Challenges
    /\ balance \in [Players -> Nat]
    /\ barred \subseteq Players /\ swept \subseteq barred
    /\ request \in [Requests -> {Idle} \cup
         [at : RequestSteps, ch : Challenges, list : SUBSET Challenges]]
    /\ \A r \in Requests : Busy(r) =>
         (request[r].at \in SendSteps <=> challenge[request[r].ch] = "none")
    /\ sweep \in [Players -> {Idle} \cup [at : {"list", "withdraw"}, list : SUBSET Challenges]]
    /\ scanned \subseteq {"viewer", "streamer", "invite"} \X Challenges
    /\ sentAfter \in [Challenges -> SUBSET Challenges]

MatchesOf(p) == {c \in matched : p \in {From[c], To[c]}}

\* However often a challenge is accepted at once, and whatever cancels,
\* declines or expires it meanwhile, a player has exactly one stake held per
\* match they are in (holdEscrow inside the accept, service.ts:552-754).
StakesMatchBets ==
    \A p \in Players : balance[p] + Cardinality(MatchesOf(p)) = Funds[p]

\* "A streamer can accept only one invitation at a time" (service.ts:707): of two
\* challenges to one streamer that both became a match, one was sent after
\* the accept of the other had listed what it closes.
OneOfRivals ==
    \A c, d \in matched : c # d /\ To[c] = To[d] => c \in sentAfter[d] \/ d \in sentAfter[c]

\* Once the activity of a player on a break or with a closed account has been
\* withdrawn, nobody is matched with them, although the accept's checks run
\* before its transaction and the withdrawal in one of its own
\* (responsible-play/service.ts:366-438, service.ts:373-503).
SweepEndsPlay ==
    [][\A c \in matched' \ matched : {From[c], To[c]} \cap barred \cap swept = {}]_vars

\* Every challenge leaves PENDING and every entry leaves the lobby in the end,
\* whoever stops answering and whatever races left behind
\* (runLobbyExpiryScan, service.ts:980-1122).
NothingStaysOpen ==
    \A c \in Challenges : Lingers(c) ~> ~Lingers(c)

Phase(c) ==
    IF c \in matched THEN "matched"
    ELSE CASE challenge[c] = "none" -> "unsent"
           [] challenge[c] = "PENDING" -> "open"
           [] OTHER -> "ended"

Promise == INSTANCE ChallengePromise
    WITH phase <- [c \in Challenges |-> Phase(c)], purse <- balance

\* A challenge ends once, in a match that takes both stakes, once, or without
\* one for good; no accept in flight revives a cancelled one
\* (the guarded updates of service.ts:397, 685, 943 and 1003).
PromiseKept == Promise!Spec
=============================================================================
