----------------------------- MODULE PlayBreaks -----------------------------
(***************************************************************************)
(* A customer's cool-offs and self-exclusions over the days: starting one, *)
(* asking to return from a lapsed exclusion (responsible-play/service.ts), *)
(* the worker that announces ended breaks, and the screening that carries  *)
(* an exclusion over to another account of the same person                 *)
(* (compliance/identity-checks.ts).                                        *)
(*                                                                         *)
(* A request reads the break in force and writes in another statement.     *)
(* Time is in days; a request is over within its day.                      *)
(***************************************************************************)
EXTENDS Integers, Sequences

CONSTANTS
  First, Second,  \* two accounts of one person
  Tabs,           \* requests under way at a time
  CoolOffs,       \* the lengths on offer, in days
  Exclusions,
  CoolingOff,     \* SELF_EXCLUSION_RETURN_COOLING_OFF_MS, in days
  MaxBreaks,      \* bound on the breaks of an account
  LastStart,      \* bound: the last day a break is started or copied
  MaxDay          \* bound: the day that stands for every later one

ASSUME BreakAssumption ==
  /\ CoolOffs \subseteq Nat \ {0} /\ Exclusions \subseteq Nat \ {0}
  /\ CoolingOff \in Nat \ {0} /\ First # Second
  /\ MaxBreaks \in Nat /\ LastStart \in Nat /\ MaxDay \in Nat
  /\ LastStart + CoolingOff <= MaxDay
  /\ \A length \in CoolOffs \cup Exclusions : LastStart + length + CoolingOff <= MaxDay

VARIABLES
  breaks,   \* Accounts -> the account's rows of play_breaks, in order
  day,
  tab,      \* Tabs -> a request between its read and its write
  screen,   \* the screening of the second account's identity
  told      \* the breaks whose end was announced today

breakVars == <<breaks, day, tab, screen, told>>

Accounts == {First, Second}
NotAsked == MaxDay + 1        \* returnEffectiveAt NULL, later than any day
Days == 0 .. MaxDay

BreakRecords ==
  [type : {"coolOff", "exclusion"}, ends : Days, back : Days \cup {NotAsked}]

TabIdle == [at |-> "idle", who |-> First, type |-> "coolOff", ends |-> 0, id |-> 0]

PlayTypeOK ==
  /\ breaks \in [Accounts -> Seq(BreakRecords)]
  /\ \A a \in Accounts : Len(breaks[a]) <= MaxBreaks
  /\ day \in 0 .. MaxDay
  /\ tab \in [Tabs -> [at : {"idle", "create", "return"}, who : Accounts,
                       type : {"coolOff", "exclusion"}, ends : Days, id : 0 .. MaxBreaks]]
  /\ screen \in [at : {"idle", "copy", "done"}, ends : Days \cup {NotAsked}]
  /\ told \subseteq Accounts \X (1 .. MaxBreaks)

BreakInit ==
  /\ breaks = [a \in Accounts |-> <<>>]
  /\ day = 0
  /\ tab = [t \in Tabs |-> TabIdle]
  /\ screen = [at |-> "idle", ends |-> 0]
  /\ told = {}

(***************************************************************************)
(* getActiveBreak.                                                         *)
(***************************************************************************)
InForce(x) == x.ends > day \/ (x.type = "exclusion" /\ x.back > day)

BreaksInForce(a) == {i \in DOMAIN breaks[a] : InForce(breaks[a][i])}

\* "The longest-running break wins if several overlap"; of two that end
\* together the query returns either.
ActiveBreaks(a) ==
  {i \in BreaksInForce(a) : \A j \in BreaksInForce(a) : breaks[a][j].ends <= breaks[a][i].ends}

\* A running exclusion may be returned from.
MutantAwaitingReturn(x) == x.type = "exclusion"

AwaitingReturn(x) == x.type = "exclusion" /\ x.ends <= day

(***************************************************************************)
(* startBreak: by the customer, or an exclusion by staff at their request. *)
(***************************************************************************)
CheckBreak(t) ==
  /\ tab[t].at = "idle" /\ day <= LastStart
  /\ \E a \in Accounts, type \in {"coolOff", "exclusion"} :
     \E length \in IF type = "coolOff" THEN CoolOffs ELSE Exclusions :
       /\ \A i \in ActiveBreaks(a) : breaks[a][i].ends < day + length
       /\ Len(breaks[a]) < MaxBreaks
       /\ tab' = [tab EXCEPT ![t] = [at |-> "create", who |-> a, type |-> type,
                                     ends |-> day + length, id |-> 0]]
  /\ UNCHANGED <<breaks, day, screen, told>>

\* MaxBreaks bounds the rows: of two overlapping requests one may go.
CreateBreak(t) ==
  /\ tab[t].at = "create"
  /\ LET a == tab[t].who IN
       breaks' = IF Len(breaks[a]) = MaxBreaks THEN breaks
                 ELSE [breaks EXCEPT ![a] = Append(@,
                        [type |-> tab[t].type, ends |-> tab[t].ends, back |-> NotAsked])]
  /\ tab' = [tab EXCEPT ![t] = TabIdle]
  /\ UNCHANGED <<day, screen, told>>

(***************************************************************************)
(* requestReturnFromSelfExclusion.                                         *)
(***************************************************************************)
\* The return is asked of the account's first exclusion.
MutantAskReturn(t) ==
  /\ tab[t].at = "idle"
  /\ \E a \in Accounts :
       /\ \E i \in ActiveBreaks(a) : AwaitingReturn(breaks[a][i])
       /\ breaks[a][1].type = "exclusion"
       /\ tab' = [tab EXCEPT ![t] = [TabIdle EXCEPT !.at = "return", !.who = a, !.id = 1]]
  /\ UNCHANGED <<breaks, day, screen, told>>

AskReturn(t) ==
  /\ tab[t].at = "idle"
  /\ \E a \in Accounts : \E i \in ActiveBreaks(a) :
       /\ AwaitingReturn(breaks[a][i])
       /\ breaks[a][i].back = NotAsked
       /\ tab' = [tab EXCEPT ![t] = [at |-> "return", who |-> a, type |-> "exclusion",
                                     ends |-> 0, id |-> i]]
  /\ UNCHANGED <<breaks, day, screen, told>>

GrantReturn(t) ==
  /\ tab[t].at = "return"
  /\ breaks' = [breaks EXCEPT ![tab[t].who][tab[t].id].back =
       IF day + CoolingOff < MaxDay THEN day + CoolingOff ELSE MaxDay]
  /\ tab' = [tab EXCEPT ![t] = TabIdle]
  /\ UNCHANGED <<day, screen, told>>

(***************************************************************************)
(* notifyEndedBreaks looks back 24 hours; the outbox takes a break once.   *)
(***************************************************************************)
Announce(a, i) ==
  /\ i \in DOMAIN breaks[a] /\ breaks[a][i].ends = day
  /\ <<a, i>> \notin told
  /\ told' = told \cup {<<a, i>>}
  /\ UNCHANGED <<breaks, day, tab, screen>>

(***************************************************************************)
(* screenKycSubmission, when the second account's documents show the same  *)
(* person: the first account's break, and then the copy.  Once.            *)
(***************************************************************************)
Screen ==
  /\ screen.at = "idle" /\ day <= LastStart
  /\ IF ActiveBreaks(First) = {}
       THEN screen' = [at |-> "copy", ends |-> NotAsked]
       ELSE \E i \in ActiveBreaks(First) :
              LET x == breaks[First][i] IN
                screen' = [at |-> "copy",
                           ends |-> IF x.type # "exclusion" THEN NotAsked
                                    ELSE IF AwaitingReturn(x) THEN day ELSE x.ends]
  /\ UNCHANGED <<breaks, day, tab, told>>

\* Nothing to copy is written as the date NotAsked.
CopyExclusion ==
  /\ screen.at = "copy"
  /\ breaks' = IF screen.ends = NotAsked \/ Len(breaks[Second]) = MaxBreaks THEN breaks
               ELSE [breaks EXCEPT ![Second] = Append(@,
                      [type |-> "exclusion", ends |-> screen.ends, back |-> NotAsked])]
  /\ screen' = [at |-> "done", ends |-> 0]
  /\ UNCHANGED <<day, tab, told>>

NextDay ==
  /\ day < MaxDay
  /\ screen.at # "copy" /\ \A t \in Tabs : tab[t].at = "idle"
  /\ day' = day + 1
  /\ told' = {}
  /\ UNCHANGED <<breaks, tab, screen>>

BreakNext ==
  \/ \E t \in Tabs : CheckBreak(t) \/ CreateBreak(t) \/ AskReturn(t) \/ GrantReturn(t)
  \/ \E a \in Accounts, i \in 1 .. MaxBreaks : Announce(a, i)
  \/ Screen \/ CopyExclusion \/ NextDay

\* Days pass whatever is requested in them, and requests end; a customer who
\* may ask to return does.  Nobody has to start a break.
BreakFairness ==
  /\ WF_breakVars(NextDay) /\ WF_breakVars(CopyExclusion)
  /\ \A t \in Tabs : WF_breakVars(CreateBreak(t) \/ GrantReturn(t))
  /\ WF_breakVars(\E t \in Tabs : AskReturn(t))

BreakSpec == BreakInit /\ [][BreakNext]_breakVars
FairBreakSpec == BreakSpec /\ BreakFairness

(***************************************************************************)
(* Properties.                                                             *)
(***************************************************************************)
\* Whoever has ever excluded themselves plays again only when every one of
\* their exclusions has run out and its own return was asked for after that,
\* a cooling-off before: no cool-off, second exclusion, overlapping request
\* or copy is a way round it.  (getActiveBreak, requestReturn...)
PlaysOnlyAfterReturn ==
  \A a \in Accounts : BreaksInForce(a) = {} =>
    \A i \in DOMAIN breaks[a] : breaks[a][i].type = "exclusion" =>
      /\ breaks[a][i].back <= day
      /\ breaks[a][i].back >= breaks[a][i].ends + CoolingOff

\* The last day of the breaks that are running never moves nearer, though
\* two requests may both have been compared with a shorter break.
\* (startBreak: "A break cannot be shortened or lifted once started")
BreakNeverShortened ==
  [][\A a \in Accounts, d \in Days :
       (\E i \in DOMAIN breaks[a] : breaks[a][i].ends > d)
         => \E j \in DOMAIN breaks'[a] : breaks'[a][j].ends > d]_breakVars

\* A customer who asks whenever they may does return: the last exclusion
\* hides the ones before it from the request, but not for ever.
\* (requestReturnFromSelfExclusion)
ComesBack == <>[](\A a \in Accounts : BreaksInForce(a) = {})
=============================================================================
