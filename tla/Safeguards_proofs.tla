--------------------------- MODULE Safeguards_proofs ---------------------------
(***************************************************************************)
(* Proofs about complaints, play breaks, recordings and customer care, for *)
(* any number of staff, requests, breaks, deliveries and rows, and about   *)
(* the four of them as they are checked together.                          *)
(***************************************************************************)
EXTENDS MCSafeguards, FiniteSetTheorems, TLAPS

(***************************************************************************)
(* Complaints.  One not filed has no response and nobody acts on it.       *)
(***************************************************************************)
ActsOnFiled ==
  complaint.status = "none" =>
    complaint.verdict = NoVerdict /\ \A h \in Handlers : handler[h] = "idle"

ComplaintInv == ComplaintTypeOK /\ OneFinalResponse /\ ActsOnFiled

LEMMA ComplaintInitially == ComplaintInit => ComplaintInv
  BY ComplaintAssumption
     DEF ComplaintInit, ComplaintInv, ComplaintTypeOK, OneFinalResponse, ActsOnFiled,
         Statuses, Kinds, Stages, NoVerdict

\* Every step keeps the types.
LEMMA ComplaintTypeKept ==
  ComplaintTypeOK /\ [ComplaintNext]_complaintVars => ComplaintTypeOK'
<1> SUFFICES ASSUME ComplaintTypeOK, [ComplaintNext]_complaintVars
             PROVE  ComplaintTypeOK'
  OBVIOUS
<1> USE ComplaintAssumption DEF ComplaintTypeOK, Statuses, Kinds, Stages, NoVerdict
<1>1. CASE FileComplaint
  BY <1>1 DEF FileComplaint
<1>2. CASE NextWeek
  BY <1>2 DEF NextWeek
<1>3. ASSUME NEW h \in Handlers, LoadComplaint(h) PROVE ComplaintTypeOK'
  BY <1>3 DEF LoadComplaint
<1>4. ASSUME NEW h \in Handlers, AddEvent(h) PROVE ComplaintTypeOK'
  BY <1>4 DEF AddEvent
<1>5. ASSUME NEW h \in Handlers, IssueFinalResponse(h) PROVE ComplaintTypeOK'
  BY <1>5 DEF IssueFinalResponse
<1>6. ASSUME NEW h \in Handlers, AbandonAction(h) PROVE ComplaintTypeOK'
  BY <1>6 DEF AbandonAction
<1>7. CASE FindNearDeadline
  BY <1>7 DEF FindNearDeadline
<1>8. CASE AlertStaff
  BY <1>8 DEF AlertStaff
<1>9. CASE LoseWarning
  BY <1>9 DEF LoseWarning
<1>10. CASE UNCHANGED complaintVars
  BY <1>10 DEF complaintVars
<1> QED
  BY <1>1, <1>2, <1>3, <1>4, <1>5, <1>6, <1>7, <1>8, <1>9, <1>10 DEF ComplaintNext

\* The four places that name a verdict change in one step only, which asks
\* for a mail key that is free.
LEMMA ResponseKept ==
  ComplaintInv /\ [ComplaintNext]_complaintVars => (OneFinalResponse /\ ActsOnFiled)'
<1> SUFFICES ASSUME ComplaintInv, [ComplaintNext]_complaintVars
             PROVE  (OneFinalResponse /\ ActsOnFiled)'
  OBVIOUS
<1> USE ComplaintAssumption
    DEF ComplaintInv, ComplaintTypeOK, OneFinalResponse, ActsOnFiled,
        Statuses, Kinds, Stages, NoVerdict
<1>1. CASE FileComplaint
  <2>1. complaint.verdict = "none"
    BY <1>1 DEF FileComplaint
  <2> QED BY <1>1, <2>1 DEF FileComplaint
<1>2. CASE NextWeek
  BY <1>2 DEF NextWeek
<1>3. ASSUME NEW h \in Handlers, LoadComplaint(h) PROVE (OneFinalResponse /\ ActsOnFiled)'
  BY <1>3 DEF LoadComplaint
<1>4. ASSUME NEW h \in Handlers, AddEvent(h) PROVE (OneFinalResponse /\ ActsOnFiled)'
  <2>1. /\ letters' \cap Verdicts = letters \cap Verdicts
        /\ audited' \cap Verdicts = audited \cap Verdicts
        /\ timeline' \cap Verdicts = timeline \cap Verdicts
    BY <1>4 DEF AddEvent
  <2>2. complaint'.verdict = complaint.verdict /\ complaint'.status # "none"
    BY <1>4 DEF AddEvent
  <2> QED BY <2>1, <2>2
<1>5. ASSUME NEW h \in Handlers, IssueFinalResponse(h)
      PROVE  (OneFinalResponse /\ ActsOnFiled)'
  <2>1. handler[h] \in Verdicts /\ letters \cap Verdicts = {}
    BY <1>5 DEF IssueFinalResponse, FinalQueued
  <2>2. /\ letters' \cap Verdicts = {handler[h]}
        /\ audited' \cap Verdicts = {handler[h]}
        /\ timeline' \cap Verdicts = {handler[h]}
        /\ complaint' = [status |-> "final", verdict |-> handler[h]]
    BY <1>5, <2>1 DEF IssueFinalResponse
  <2> QED BY <2>1, <2>2
<1>6. ASSUME NEW h \in Handlers, AbandonAction(h) PROVE (OneFinalResponse /\ ActsOnFiled)'
  BY <1>6 DEF AbandonAction
<1>7. CASE FindNearDeadline
  BY <1>7 DEF FindNearDeadline
<1>8. CASE AlertStaff
  BY <1>8 DEF AlertStaff
<1>9. CASE LoseWarning
  BY <1>9 DEF LoseWarning
<1>10. CASE UNCHANGED complaintVars
  BY <1>10 DEF complaintVars
<1> QED
  BY <1>1, <1>2, <1>3, <1>4, <1>5, <1>6, <1>7, <1>8, <1>9, <1>10 DEF ComplaintNext

\* A complaint has at most one final response, the same in the mail, the
\* timeline, the audit log and the row (complaints/service.ts, actOnComplaint).
THEOREM FinalResponseIsOne == ComplaintSpec => []OneFinalResponse
<1>1. ComplaintInv /\ [ComplaintNext]_complaintVars => ComplaintInv'
  BY ComplaintTypeKept, ResponseKept DEF ComplaintInv
<1>2. ComplaintInv => OneFinalResponse
  BY DEF ComplaintInv
<1> QED
  BY <1>1, <1>2, ComplaintInitially, PTL DEF ComplaintSpec

(***************************************************************************)
(* Play breaks.  Requests and the screening carry dates between their read *)
(* and their write, and a return is written to the row it was asked for.   *)
(***************************************************************************)
\* A cooling-off after the end of any exclusion, written or about to be, is
\* still within the days.
EndsInTime ==
  /\ \A a \in Accounts : \A i \in DOMAIN breaks[a] :
       breaks[a][i].type = "exclusion" => breaks[a][i].ends + CoolingOff <= MaxDay
  /\ \A t \in Tabs : tab[t].at = "create" => tab[t].ends + CoolingOff <= MaxDay
  /\ screen.ends # NotAsked => screen.ends + CoolingOff <= MaxDay

\* A return under way is that of a row whose end has passed.
ReturnsLapsed ==
  \A t \in Tabs : tab[t].at = "return" =>
    /\ tab[t].id \in DOMAIN breaks[tab[t].who]
    /\ breaks[tab[t].who][tab[t].id].ends <= day

\* A return that was granted is a cooling-off after the end.
GrantedAfterEnd ==
  \A a \in Accounts : \A i \in DOMAIN breaks[a] :
    breaks[a][i].type = "exclusion" /\ breaks[a][i].back # NotAsked
      => breaks[a][i].back >= breaks[a][i].ends + CoolingOff

BreakInv == PlayTypeOK /\ EndsInTime /\ ReturnsLapsed /\ GrantedAfterEnd

LEMMA BreakInitially == BreakInit => BreakInv
<1> SUFFICES ASSUME BreakInit PROVE BreakInv
  OBVIOUS
<1> USE BreakAssumption DEF BreakInit, Accounts, Days, NotAsked, TabIdle
<1>1. PlayTypeOK
  BY DEF PlayTypeOK
<1>2. EndsInTime /\ ReturnsLapsed /\ GrantedAfterEnd
  BY DEF EndsInTime, ReturnsLapsed, GrantedAfterEnd
<1> QED BY <1>1, <1>2 DEF BreakInv

\* A row is added behind the others, which stay as they are.
LEMMA RowAdded ==
  ASSUME PlayTypeOK, NEW a \in Accounts, NEW x \in BreakRecords, Len(breaks[a]) < MaxBreaks,
         breaks' = [breaks EXCEPT ![a] = Append(@, x)]
  PROVE  /\ breaks' \in [Accounts -> Seq(BreakRecords)]
         /\ \A b \in Accounts : Len(breaks'[b]) <= MaxBreaks
         /\ \A b \in Accounts : \A i \in DOMAIN breaks[b] :
              i \in DOMAIN breaks'[b] /\ breaks'[b][i] = breaks[b][i]
         /\ \A b \in Accounts : \A i \in DOMAIN breaks'[b] :
              (i \in DOMAIN breaks[b] /\ breaks'[b][i] = breaks[b][i]) \/ breaks'[b][i] = x
<1>1. breaks \in [Accounts -> Seq(BreakRecords)] /\ \A b \in Accounts : Len(breaks[b]) <= MaxBreaks
  BY DEF PlayTypeOK
<1>2. breaks'[a] = Append(breaks[a], x) /\ \A b \in Accounts \ {a} : breaks'[b] = breaks[b]
  BY <1>1
<1>3. /\ Append(breaks[a], x) \in Seq(BreakRecords)
      /\ Len(Append(breaks[a], x)) = Len(breaks[a]) + 1
      /\ DOMAIN Append(breaks[a], x) = 1 .. Len(breaks[a]) + 1
      /\ DOMAIN breaks[a] = 1 .. Len(breaks[a])
      /\ Len(breaks[a]) \in Nat
      /\ \A i \in DOMAIN breaks[a] : Append(breaks[a], x)[i] = breaks[a][i]
      /\ Append(breaks[a], x)[Len(breaks[a]) + 1] = x
  BY <1>1
<1>4. MaxBreaks \in Nat
  BY BreakAssumption
<1>5. breaks' \in [Accounts -> Seq(BreakRecords)]
  BY <1>1, <1>3
<1>6. \A b \in Accounts : Len(breaks'[b]) <= MaxBreaks
  BY <1>1, <1>2, <1>3, <1>4
<1>7. \A b \in Accounts : \A i \in DOMAIN breaks[b] :
        i \in DOMAIN breaks'[b] /\ breaks'[b][i] = breaks[b][i]
  BY <1>2, <1>3
<1>8. \A b \in Accounts : \A i \in DOMAIN breaks'[b] :
        (i \in DOMAIN breaks[b] /\ breaks'[b][i] = breaks[b][i]) \/ breaks'[b][i] = x
  <2> SUFFICES ASSUME NEW b \in Accounts, NEW i \in DOMAIN breaks'[b]
               PROVE  (i \in DOMAIN breaks[b] /\ breaks'[b][i] = breaks[b][i]) \/ breaks'[b][i] = x
    OBVIOUS
  <2>1. CASE b # a
    BY <1>2, <2>1
  <2>2. CASE b = a
    BY <1>2, <1>3, <2>2
  <2> QED BY <2>1, <2>2
<1> QED BY <1>5, <1>6, <1>7, <1>8

\* The rows that were there stay, with their ends and types: only a return
\* is ever written to one.
LEMMA RowsStay ==
  ASSUME BreakInv, [BreakNext]_breakVars
  PROVE  \A a \in Accounts : \A i \in DOMAIN breaks[a] :
           /\ i \in DOMAIN breaks'[a]
           /\ breaks'[a][i].ends = breaks[a][i].ends
           /\ breaks'[a][i].type = breaks[a][i].type
<1> DEFINE Stay == \A a \in Accounts : \A i \in DOMAIN breaks[a] :
             /\ i \in DOMAIN breaks'[a]
             /\ breaks'[a][i].ends = breaks[a][i].ends
             /\ breaks'[a][i].type = breaks[a][i].type
<1>0. PlayTypeOK /\ ReturnsLapsed
  BY DEF BreakInv
<1>1. CASE UNCHANGED breaks
  BY <1>1
<1>2. ASSUME NEW t \in Tabs, CreateBreak(t) PROVE Stay
  <2> DEFINE x == [type |-> tab[t].type, ends |-> tab[t].ends, back |-> NotAsked]
  <2>1. CASE Len(breaks[tab[t].who]) = MaxBreaks
    BY <1>2, <2>1 DEF CreateBreak
  <2>2. CASE Len(breaks[tab[t].who]) # MaxBreaks
    <3>1. tab[t].who \in Accounts /\ x \in BreakRecords
      BY <1>0 DEF PlayTypeOK, BreakRecords
    <3>2. Len(breaks[tab[t].who]) < MaxBreaks
      BY <1>0, <2>2, <3>1, BreakAssumption DEF PlayTypeOK
    <3>3. breaks' = [breaks EXCEPT ![tab[t].who] = Append(@, x)]
      BY <1>2, <2>2 DEF CreateBreak
    <3> HIDE DEF x
    <3> QED BY <1>0, <3>1, <3>2, <3>3, RowAdded
  <2> QED BY <2>1, <2>2
<1>3. ASSUME NEW t \in Tabs, GrantReturn(t) PROVE Stay
  <2>1. breaks \in [Accounts -> Seq(BreakRecords)] /\ tab[t].who \in Accounts
    BY <1>0 DEF PlayTypeOK
  <2>2. PICK date : breaks' = [breaks EXCEPT ![tab[t].who][tab[t].id].back = date]
    BY <1>3 DEF GrantReturn
  <2>3. tab[t].id \in DOMAIN breaks[tab[t].who]
    BY <1>0, <1>3 DEF ReturnsLapsed, GrantReturn
  <2>4. \A a \in Accounts : DOMAIN breaks'[a] = DOMAIN breaks[a]
    BY <2>1, <2>2
  <2>5. \A a \in Accounts : \A i \in DOMAIN breaks[a] :
          \/ breaks'[a][i] = breaks[a][i]
          \/ breaks'[a][i] = [breaks[a][i] EXCEPT !.back = date]
    BY <2>1, <2>2
  <2>6. \A a \in Accounts : \A i \in DOMAIN breaks[a] : breaks[a][i] \in BreakRecords
    BY <2>1
  <2>7. \A x \in BreakRecords : /\ [x EXCEPT !.back = date].ends = x.ends
                                /\ [x EXCEPT !.back = date].type = x.type
    BY DEF BreakRecords
  <2>8. ASSUME NEW a \in Accounts, NEW i \in DOMAIN breaks[a]
        PROVE  /\ breaks'[a][i].ends = breaks[a][i].ends
               /\ breaks'[a][i].type = breaks[a][i].type
    BY <2>5, <2>6, <2>7
  <2> QED BY <2>4, <2>8
<1>4. CASE CopyExclusion
  <2> DEFINE x == [type |-> "exclusion", ends |-> screen.ends, back |-> NotAsked]
  <2>1. CASE screen.ends = NotAsked \/ Len(breaks[Second]) = MaxBreaks
    BY <1>4, <2>1 DEF CopyExclusion
  <2>2. CASE screen.ends # NotAsked /\ Len(breaks[Second]) # MaxBreaks
    <3>1. Second \in Accounts /\ x \in BreakRecords
      BY <1>0, <2>2 DEF PlayTypeOK, BreakRecords, Accounts
    <3>2. Len(breaks[Second]) < MaxBreaks
      BY <1>0, <2>2, <3>1, BreakAssumption DEF PlayTypeOK
    <3>3. breaks' = [breaks EXCEPT ![Second] = Append(@, x)]
      BY <1>4, <2>2 DEF CopyExclusion
    <3> HIDE DEF x
    <3> QED BY <1>0, <3>1, <3>2, <3>3, RowAdded
  <2> QED BY <2>1, <2>2
<1> QED
  BY <1>1, <1>2, <1>3, <1>4
     DEF BreakNext, breakVars, CheckBreak, AskReturn, Announce, Screen, NextDay

\* A row with a date in time and no return asked for may be added anywhere.
LEMMA RowMayBeAdded ==
  ASSUME BreakInv, NEW a \in Accounts, NEW x \in BreakRecords, Len(breaks[a]) < MaxBreaks,
         breaks' = [breaks EXCEPT ![a] = Append(@, x)],
         x.ends + CoolingOff <= MaxDay, x.back = NotAsked
  PROVE  /\ breaks' \in [Accounts -> Seq(BreakRecords)]
         /\ \A b \in Accounts : Len(breaks'[b]) <= MaxBreaks
         /\ \A b \in Accounts : \A i \in DOMAIN breaks'[b] :
              breaks'[b][i].type = "exclusion" =>
                /\ breaks'[b][i].ends + CoolingOff <= MaxDay
                /\ breaks'[b][i].back # NotAsked
                     => breaks'[b][i].back >= breaks'[b][i].ends + CoolingOff
<1>1. PlayTypeOK /\ EndsInTime /\ GrantedAfterEnd
  BY DEF BreakInv
<1>2. /\ breaks' \in [Accounts -> Seq(BreakRecords)]
      /\ \A b \in Accounts : Len(breaks'[b]) <= MaxBreaks
      /\ \A b \in Accounts : \A i \in DOMAIN breaks'[b] :
           (i \in DOMAIN breaks[b] /\ breaks'[b][i] = breaks[b][i]) \/ breaks'[b][i] = x
  BY <1>1, RowAdded
<1>3. ASSUME NEW b \in Accounts, NEW i \in DOMAIN breaks'[b],
             breaks'[b][i].type = "exclusion"
      PROVE  /\ breaks'[b][i].ends + CoolingOff <= MaxDay
             /\ breaks'[b][i].back # NotAsked
                  => breaks'[b][i].back >= breaks'[b][i].ends + CoolingOff
  <2>1. CASE i \in DOMAIN breaks[b] /\ breaks'[b][i] = breaks[b][i]
    BY <1>1, <1>3, <2>1 DEF EndsInTime, GrantedAfterEnd
  <2>2. CASE breaks'[b][i] = x
    BY <2>2
  <2> QED BY <1>2, <2>1, <2>2
<1> QED BY <1>2, <1>3

LEMMA BreakStepKeeps == BreakInv /\ [BreakNext]_breakVars => BreakInv'
<1> SUFFICES ASSUME BreakInv, [BreakNext]_breakVars PROVE BreakInv'
  OBVIOUS
<1>0. PlayTypeOK /\ EndsInTime /\ ReturnsLapsed /\ GrantedAfterEnd
  BY DEF BreakInv
<1>a. /\ MaxDay \in Nat /\ MaxBreaks \in Nat /\ CoolingOff \in Nat /\ LastStart \in Nat
      /\ day \in Nat /\ NotAsked \in Nat /\ NotAsked > MaxDay
  BY BreakAssumption, <1>0 DEF PlayTypeOK, NotAsked
<1>1. ASSUME NEW t \in Tabs, CheckBreak(t) PROVE BreakInv'
  <2>1. PICK a \in Accounts, type \in {"coolOff", "exclusion"} :
          \E length \in IF type = "coolOff" THEN CoolOffs ELSE Exclusions :
            tab' = [tab EXCEPT ![t] = [at |-> "create", who |-> a, type |-> type,
                                       ends |-> day + length, id |-> 0]]
    BY <1>1 DEF CheckBreak
  <2>2. PICK length \in CoolOffs \cup Exclusions :
            tab' = [tab EXCEPT ![t] = [at |-> "create", who |-> a, type |-> type,
                                       ends |-> day + length, id |-> 0]]
    BY <2>1
  <2>3. length \in Nat /\ LastStart + length + CoolingOff <= MaxDay
    BY BreakAssumption
  <2>4. day <= LastStart /\ UNCHANGED <<breaks, day, screen, told>>
    BY <1>1 DEF CheckBreak
  <2>5. day + length \in Days /\ day + length + CoolingOff <= MaxDay
    BY <1>a, <2>3, <2>4 DEF Days
  <2>6. PlayTypeOK'
    BY <1>0, <1>a, <2>2, <2>4, <2>5 DEF PlayTypeOK
  <2>7. (EndsInTime /\ ReturnsLapsed /\ GrantedAfterEnd)'
    BY <1>0, <2>2, <2>4, <2>5 DEF PlayTypeOK, EndsInTime, ReturnsLapsed, GrantedAfterEnd
  <2> QED BY <2>6, <2>7 DEF BreakInv
<1>2. ASSUME NEW t \in Tabs, CreateBreak(t) PROVE BreakInv'
  <2> DEFINE x == [type |-> tab[t].type, ends |-> tab[t].ends, back |-> NotAsked]
  <2>1. /\ tab' = [tab EXCEPT ![t] = TabIdle] /\ UNCHANGED <<day, screen, told>>
        /\ tab[t].at = "create" /\ tab[t].who \in Accounts /\ x \in BreakRecords
        /\ x.ends + CoolingOff <= MaxDay /\ x.back = NotAsked
    BY <1>0, <1>2 DEF CreateBreak, PlayTypeOK, BreakRecords, EndsInTime
  <2>2. TabIdle \in [at : {"idle", "create", "return"}, who : Accounts,
                     type : {"coolOff", "exclusion"}, ends : Days, id : 0 .. MaxBreaks]
    BY <1>a DEF TabIdle, Accounts, Days
  <2>3. CASE breaks' = breaks
    <3>1. PlayTypeOK'
      BY <1>0, <2>1, <2>2, <2>3 DEF PlayTypeOK
    <3>2. (EndsInTime /\ ReturnsLapsed /\ GrantedAfterEnd)'
      BY <1>0, <2>1, <2>3
         DEF PlayTypeOK, EndsInTime, ReturnsLapsed, GrantedAfterEnd, TabIdle
    <3> QED BY <3>1, <3>2 DEF BreakInv
  <2>4. CASE /\ Len(breaks[tab[t].who]) # MaxBreaks
             /\ breaks' = [breaks EXCEPT ![tab[t].who] = Append(@, x)]
    <3>1. Len(breaks[tab[t].who]) < MaxBreaks
      BY <1>0, <1>a, <2>1, <2>4 DEF PlayTypeOK
    <3> HIDE DEF x
    <3>2. /\ breaks' \in [Accounts -> Seq(BreakRecords)]
          /\ \A b \in Accounts : Len(breaks'[b]) <= MaxBreaks
          /\ \A b \in Accounts : \A i \in DOMAIN breaks'[b] :
               breaks'[b][i].type = "exclusion" =>
                 /\ breaks'[b][i].ends + CoolingOff <= MaxDay
                 /\ breaks'[b][i].back # NotAsked
                      => breaks'[b][i].back >= breaks'[b][i].ends + CoolingOff
      BY <2>1, <2>4, <3>1, RowMayBeAdded
    <3>3. PlayTypeOK'
      BY <1>0, <2>1, <2>2, <3>2 DEF PlayTypeOK
    <3>4. ReturnsLapsed'
      BY <1>0, <2>1, RowsStay DEF PlayTypeOK, ReturnsLapsed, TabIdle
    <3>5. (EndsInTime /\ GrantedAfterEnd)'
      BY <1>0, <2>1, <3>2 DEF PlayTypeOK, EndsInTime, GrantedAfterEnd, TabIdle
    <3> QED BY <3>3, <3>4, <3>5 DEF BreakInv
  <2> QED BY <1>2, <2>3, <2>4 DEF CreateBreak
<1>3. ASSUME NEW t \in Tabs, AskReturn(t) PROVE BreakInv'
  <2>1. PICK a \in Accounts : \E i \in ActiveBreaks(a) :
          /\ AwaitingReturn(breaks[a][i])
          /\ tab' = [tab EXCEPT ![t] = [at |-> "return", who |-> a, type |-> "exclusion",
                                        ends |-> 0, id |-> i]]
    BY <1>3 DEF AskReturn
  <2>2. PICK i \in DOMAIN breaks[a] :
          /\ breaks[a][i].ends <= day
          /\ tab' = [tab EXCEPT ![t] = [at |-> "return", who |-> a, type |-> "exclusion",
                                        ends |-> 0, id |-> i]]
    BY <2>1 DEF ActiveBreaks, BreaksInForce, AwaitingReturn
  <2>3. UNCHANGED <<breaks, day, screen, told>>
    BY <1>3 DEF AskReturn
  <2>4. i \in 0 .. MaxBreaks
    BY <1>0, <1>a DEF PlayTypeOK
  <2>5. PlayTypeOK'
    BY <1>0, <1>a, <2>2, <2>3, <2>4 DEF PlayTypeOK, Days
  <2>6. (EndsInTime /\ ReturnsLapsed /\ GrantedAfterEnd)'
    BY <1>0, <2>2, <2>3 DEF PlayTypeOK, EndsInTime, ReturnsLapsed, GrantedAfterEnd
  <2> QED BY <2>5, <2>6 DEF BreakInv
<1>4. ASSUME NEW t \in Tabs, GrantReturn(t) PROVE BreakInv'
  <2> DEFINE date == IF day + CoolingOff < MaxDay THEN day + CoolingOff ELSE MaxDay
             w == tab[t].who
             k == tab[t].id
             granted == [breaks[w][k] EXCEPT !.back = date]
  <2>1. /\ breaks \in [Accounts -> Seq(BreakRecords)] /\ w \in Accounts
        /\ k \in DOMAIN breaks[w] /\ breaks[w][k].ends <= day
        /\ tab' = [tab EXCEPT ![t] = TabIdle] /\ UNCHANGED <<day, screen, told>>
        /\ breaks' = [breaks EXCEPT ![w][k].back = date]
    BY <1>0, <1>4 DEF GrantReturn, PlayTypeOK, ReturnsLapsed
  <2>2. date \in Days /\ date >= day /\ (date # MaxDay => date = day + CoolingOff)
    BY <1>0, <1>a DEF PlayTypeOK, Days
  <2> HIDE DEF date
  <2>3. breaks[w][k] \in BreakRecords
    BY <2>1
  <2>4. /\ granted \in BreakRecords
        /\ granted.ends = breaks[w][k].ends /\ granted.type = breaks[w][k].type
        /\ granted.back = date
    BY <2>2, <2>3 DEF BreakRecords
  <2> DEFINE rows == [breaks[w] EXCEPT ![k] = granted]
  <2>5. breaks' = [breaks EXCEPT ![w] = rows]
    BY <2>1
  <2> HIDE DEF granted
  <2>6. /\ rows \in Seq(BreakRecords) /\ Len(rows) = Len(breaks[w])
        /\ DOMAIN rows = DOMAIN breaks[w]
        /\ \A i \in DOMAIN rows : rows[i] = breaks[w][i] \/ (i = k /\ rows[i] = granted)
    BY <2>1, <2>4
  <2> HIDE DEF rows
  <2>7. /\ breaks' \in [Accounts -> Seq(BreakRecords)]
        /\ \A a \in Accounts : Len(breaks'[a]) = Len(breaks[a])
    BY <2>1, <2>5, <2>6
  <2>8. \A a \in Accounts : \A i \in DOMAIN breaks'[a] :
          /\ i \in DOMAIN breaks[a]
          /\ breaks'[a][i] = breaks[a][i] \/ (a = w /\ i = k /\ breaks'[a][i] = granted)
    BY <2>1, <2>5, <2>6
  <2>9. TabIdle \in [at : {"idle", "create", "return"}, who : Accounts,
                     type : {"coolOff", "exclusion"}, ends : Days, id : 0 .. MaxBreaks]
    BY <1>a DEF TabIdle, Accounts, Days
  <2>10. PlayTypeOK'
    BY <1>0, <2>1, <2>7, <2>9 DEF PlayTypeOK
  <2>11. ReturnsLapsed'
    BY <1>0, <2>1, RowsStay DEF PlayTypeOK, ReturnsLapsed, TabIdle
  <2>12. EndsInTime'
    <3>1. ASSUME NEW a \in Accounts, NEW i \in DOMAIN breaks'[a],
                 breaks'[a][i].type = "exclusion"
          PROVE  breaks'[a][i].ends + CoolingOff <= MaxDay
      <4>1. /\ i \in DOMAIN breaks[a] /\ breaks[a][i].type = "exclusion"
            /\ breaks'[a][i].ends = breaks[a][i].ends
        BY <2>4, <2>8, <3>1
      <4> QED BY <1>0, <4>1 DEF EndsInTime
    <3>2. \A u \in Tabs : tab'[u].at = "create" => tab'[u].ends + CoolingOff <= MaxDay
      BY <1>0, <2>1 DEF PlayTypeOK, EndsInTime, TabIdle
    <3> QED BY <1>0, <2>1, <3>1, <3>2 DEF EndsInTime, NotAsked
  <2>13. GrantedAfterEnd'
    <3> SUFFICES ASSUME NEW a \in Accounts, NEW i \in DOMAIN breaks'[a],
                        breaks'[a][i].type = "exclusion", breaks'[a][i].back # NotAsked
                 PROVE  breaks'[a][i].back >= breaks'[a][i].ends + CoolingOff
      BY DEF GrantedAfterEnd, NotAsked
    <3>1. CASE breaks'[a][i] = breaks[a][i]
      BY <1>0, <2>8, <3>1 DEF GrantedAfterEnd
    <3>2. CASE a = w /\ i = k /\ breaks'[a][i] = granted
      <4>1. breaks[w][k].type = "exclusion"
        BY <2>4, <3>2
      <4>2. breaks[w][k].ends \in Int
        BY <1>a, <2>3 DEF BreakRecords, Days
      <4>3. breaks[w][k].ends + CoolingOff <= MaxDay
        BY <1>0, <2>1, <4>1 DEF EndsInTime
      <4>4. date \in Int /\ day \in Int /\ CoolingOff \in Int /\ MaxDay \in Int
        BY <1>a, <2>2 DEF Days
      <4>5. date >= breaks[w][k].ends + CoolingOff
        BY <2>1, <2>2, <4>2, <4>3, <4>4
      <4> QED BY <2>4, <3>2, <4>5
    <3> QED BY <2>8, <3>1, <3>2
  <2> QED BY <2>10, <2>11, <2>12, <2>13 DEF BreakInv
<1>5. ASSUME NEW a \in Accounts, NEW i \in 1 .. MaxBreaks, Announce(a, i) PROVE BreakInv'
  BY <1>0, <1>5
     DEF Announce, BreakInv, PlayTypeOK, EndsInTime, ReturnsLapsed, GrantedAfterEnd
<1>6. CASE Screen
  <2>1. /\ day <= LastStart /\ UNCHANGED <<breaks, day, tab, told>>
    BY <1>6 DEF Screen
  <2>2. screen' \in [at : {"copy"}, ends : Days \cup {NotAsked}]
        /\ (screen'.ends # NotAsked => screen'.ends + CoolingOff <= MaxDay)
    <3>1. CASE ActiveBreaks(First) = {}
      BY <1>6, <3>1 DEF Screen
    <3>2. CASE ActiveBreaks(First) # {}
      <4>1. PICK i \in ActiveBreaks(First) :
              screen' = [at |-> "copy",
                         ends |-> IF breaks[First][i].type # "exclusion" THEN NotAsked
                                  ELSE IF AwaitingReturn(breaks[First][i]) THEN day
                                  ELSE breaks[First][i].ends]
        BY <1>6, <3>2 DEF Screen
      <4>2. First \in Accounts /\ i \in DOMAIN breaks[First]
        BY DEF Accounts, ActiveBreaks, BreaksInForce
      <4>3. breaks[First][i] \in BreakRecords
        BY <1>0, <4>2 DEF PlayTypeOK
      <4>4. breaks[First][i].type = "exclusion"
              => breaks[First][i].ends \in Days /\ breaks[First][i].ends + CoolingOff <= MaxDay
        BY <1>0, <4>2, <4>3 DEF BreakRecords, EndsInTime
      <4>5. day \in Days /\ day + CoolingOff <= MaxDay
        BY <1>a, <2>1, BreakAssumption DEF Days
      <4> QED BY <4>1, <4>4, <4>5
    <3> QED BY <3>1, <3>2
  <2>3. PlayTypeOK'
    BY <1>0, <2>1, <2>2 DEF PlayTypeOK
  <2>4. (EndsInTime /\ ReturnsLapsed /\ GrantedAfterEnd)'
    BY <1>0, <2>1, <2>2 DEF EndsInTime, ReturnsLapsed, GrantedAfterEnd, NotAsked
  <2> QED BY <2>3, <2>4 DEF BreakInv
<1>7. CASE CopyExclusion
  <2> DEFINE x == [type |-> "exclusion", ends |-> screen.ends, back |-> NotAsked]
  <2>1. /\ screen' = [at |-> "done", ends |-> 0] /\ UNCHANGED <<day, tab, told>>
        /\ CoolingOff <= MaxDay
    BY <1>7, BreakAssumption DEF CopyExclusion
  <2>2. CASE breaks' = breaks
    <3>1. PlayTypeOK'
      BY <1>0, <1>a, <2>1, <2>2 DEF PlayTypeOK, Days
    <3>2. (EndsInTime /\ ReturnsLapsed /\ GrantedAfterEnd)'
      BY <1>0, <1>a, <2>1, <2>2 DEF EndsInTime, ReturnsLapsed, GrantedAfterEnd
    <3> QED BY <3>1, <3>2 DEF BreakInv
  <2>3. CASE /\ screen.ends # NotAsked /\ Len(breaks[Second]) # MaxBreaks
             /\ breaks' = [breaks EXCEPT ![Second] = Append(@, x)]
    <3>1. /\ Second \in Accounts /\ x \in BreakRecords
          /\ x.ends + CoolingOff <= MaxDay /\ x.back = NotAsked
      BY <1>0, <2>3 DEF PlayTypeOK, BreakRecords, Accounts, EndsInTime
    <3>2. Len(breaks[Second]) < MaxBreaks
      BY <1>0, <1>a, <2>3, <3>1 DEF PlayTypeOK
    <3> HIDE DEF x
    <3>3. /\ breaks' \in [Accounts -> Seq(BreakRecords)]
          /\ \A b \in Accounts : Len(breaks'[b]) <= MaxBreaks
          /\ \A b \in Accounts : \A i \in DOMAIN breaks'[b] :
               breaks'[b][i].type = "exclusion" =>
                 /\ breaks'[b][i].ends + CoolingOff <= MaxDay
                 /\ breaks'[b][i].back # NotAsked
                      => breaks'[b][i].back >= breaks'[b][i].ends + CoolingOff
      BY <2>3, <3>1, <3>2, RowMayBeAdded
    <3>4. PlayTypeOK'
      BY <1>0, <1>a, <2>1, <3>3 DEF PlayTypeOK, Days
    <3>5. ReturnsLapsed'
      BY <1>0, <2>1, RowsStay DEF PlayTypeOK, ReturnsLapsed
    <3>6. (EndsInTime /\ GrantedAfterEnd)'
      BY <1>0, <1>a, <2>1, <3>3 DEF EndsInTime, GrantedAfterEnd
    <3> QED BY <3>4, <3>5, <3>6 DEF BreakInv
  <2> QED BY <1>7, <2>2, <2>3 DEF CopyExclusion
<1>8. CASE NextDay
  <2>1. /\ day' = day + 1 /\ day < MaxDay /\ told' = {} /\ UNCHANGED <<breaks, tab, screen>>
        /\ \A t \in Tabs : tab[t].at = "idle"
    BY <1>8 DEF NextDay
  <2>2. PlayTypeOK'
    BY <1>0, <1>a, <2>1 DEF PlayTypeOK
  <2>3. (EndsInTime /\ ReturnsLapsed /\ GrantedAfterEnd)'
    BY <1>0, <2>1 DEF EndsInTime, ReturnsLapsed, GrantedAfterEnd
  <2> QED BY <2>2, <2>3 DEF BreakInv
<1>9. CASE UNCHANGED breakVars
  BY <1>0, <1>9
     DEF breakVars, BreakInv, PlayTypeOK, EndsInTime, ReturnsLapsed, GrantedAfterEnd
<1> QED
  BY <1>1, <1>2, <1>3, <1>4, <1>5, <1>6, <1>7, <1>8, <1>9 DEF BreakNext

\* Breaks, requests and returns are as the inductive invariant says in every
\* reachable state (startBreak, requestReturnFromSelfExclusion).
THEOREM BreakInductive == BreakSpec => []BreakInv
  BY BreakInitially, BreakStepKeeps, PTL DEF BreakSpec

\* After a self-exclusion nobody plays before every exclusion of theirs has
\* ended and been returned from (getActiveBreak and
\* requestReturnFromSelfExclusion, responsible-play/service.ts).
THEOREM PlayNeedsReturn == BreakSpec => []PlaysOnlyAfterReturn
<1>1. BreakInv => PlaysOnlyAfterReturn
  <2> SUFFICES ASSUME BreakInv, NEW a \in Accounts, BreaksInForce(a) = {},
                      NEW i \in DOMAIN breaks[a], breaks[a][i].type = "exclusion"
               PROVE  /\ breaks[a][i].back <= day
                      /\ breaks[a][i].back >= breaks[a][i].ends + CoolingOff
    BY DEF PlaysOnlyAfterReturn
  <2>1. breaks[a][i] \in BreakRecords /\ day \in 0 .. MaxDay /\ MaxDay \in Nat
    BY BreakAssumption DEF BreakInv, PlayTypeOK
  <2>2. ~(breaks[a][i].back > day)
    BY DEF BreaksInForce, InForce
  <2>3. breaks[a][i].back <= day /\ breaks[a][i].back # NotAsked
    BY <2>1, <2>2 DEF BreakRecords, Days, NotAsked
  <2> QED BY <2>3 DEF BreakInv, GrantedAfterEnd
<1> QED
  BY <1>1, BreakInductive, PTL

\* No request takes a running break's last day nearer (startBreak and
\* requestReturnFromSelfExclusion, responsible-play/service.ts).
THEOREM BreaksStand == BreakSpec => BreakNeverShortened
<1>1. BreakInv /\ [BreakNext]_breakVars =>
        [\A a \in Accounts, d \in Days :
           (\E i \in DOMAIN breaks[a] : breaks[a][i].ends > d)
             => \E j \in DOMAIN breaks'[a] : breaks'[a][j].ends > d]_breakVars
  BY RowsStay
<1> QED
  BY <1>1, BreakInductive, PTL DEF BreakSpec, BreakNeverShortened

(***************************************************************************)
(* Recordings.  While a run of the recorder writes, the row is not READY;  *)
(* what it has uploaded is its own; a deletion under way began after the   *)
(* dispute window and with no dispute open.                                *)
(***************************************************************************)
RunOwnsFile ==
  /\ recorder.at \in {"capture", "upload", "tidy", "check", "seal"} => row[Stream].status # "ready"
  /\ recorder.at \in {"tidy", "check", "seal"} => store.stream \in {{}, {recorder.run}}

DeletesUndisputed == scan.at # "find" => now >= 1 /\ ~Open

QueuesOwnRow == \A h \in Hooks : hook[h].at = "queue" => hook[h].seg \in Voices

RecordingInv ==
  RecordingTypeOK /\ ReadyMatchesSealed /\ RunOwnsFile /\ DeletesUndisputed /\ QueuesOwnRow

\* The dates that are written are dates.
LEMMA DatesWritten ==
  ASSUME RecordingTypeOK
  PROVE  /\ Clock \in 0 .. MaxTime /\ Clock + Month \in Dates /\ Clock + Year \in Dates
         /\ Dates \subseteq Nat /\ Never \in Nat
         /\ \A open, held \in BOOLEAN : KeepAs(open, held) \in Dates \cup {Never}
         /\ \A r \in Rows : NormalRetainUntil(r) \in Dates \cup {Never}
<1> USE RecordingAssumption DEF RecordingTypeOK, Dates, Never
<1>1. Clock \in 0 .. MaxTime
  BY DEF Clock, Later
<1>2. Clock + Month \in Dates /\ Clock + Year \in Dates
  BY <1>1
<1>3. \A open, held \in BOOLEAN : KeepAs(open, held) \in Dates \cup {Never}
  BY <1>2 DEF KeepAs
<1>4. ASSUME NEW r \in Rows PROVE NormalRetainUntil(r) \in Dates \cup {Never}
  <2>1. row[r].ended \in 0 .. MaxTime /\ dispute.at \in 0 .. MaxTime
    BY DEF RowRecords
  <2>2. row[r].ended + Month \in Dates /\ Clock + 1 \in Dates /\ dispute.at + Year \in Dates
    BY <1>1, <2>1
  <2>3. 0 \in Dates
    OBVIOUS
  <2> QED BY <2>2, <2>3 DEF NormalRetainUntil, Later
<1>5. Dates \subseteq Nat /\ Never \in Nat
  OBVIOUS
<1> QED BY <1>1, <1>2, <1>3, <1>4, <1>5

\* A count of voice rows is a number of theirs.
LEMMA VoiceRowsCounted ==
  Cardinality({v \in Voices : row[v].status # "none"}) \in 0 .. VoiceRows
<1> DEFINE taken == {v \in Voices : row[v].status # "none"}
<1>1. VoiceRows \in Nat
  BY RecordingAssumption
<1>2. IsFiniteSet(Voices) /\ Cardinality(Voices) = VoiceRows
  BY <1>1, FS_Interval DEF Voices
<1>3. Cardinality(taken) \in Nat /\ Cardinality(taken) <= Cardinality(Voices)
  BY <1>2, FS_Subset, FS_CardinalityType
<1> QED BY <1>1, <1>2, <1>3

\* A row stays a row under each of the edits.
LEMMA RowEdits ==
  ASSUME NEW x \in RowRecords, NEW d \in Dates \cup {Never}, NEW e \in 0 .. MaxTime,
         NEW s \in {"recording", "ready", "failed", "deleted"}, NEW f \in SUBSET Runs
  PROVE  /\ [x EXCEPT !.keep = d] \in RowRecords
         /\ [x EXCEPT !.held = TRUE, !.keep = d] \in RowRecords
         /\ [x EXCEPT !.held = FALSE, !.keep = d] \in RowRecords
         /\ [x EXCEPT !.status = s] \in RowRecords
         /\ [x EXCEPT !.status = s, !.keep = d, !.ended = e] \in RowRecords
         /\ [x EXCEPT !.sealed = f] \in RowRecords
  BY DEF RowRecords

\* Every step keeps the types.
LEMMA RecordingTypeKept ==
  ASSUME RecordingInv, [RecordingNext]_recordingVars
  PROVE  RecordingTypeOK'
<1>0. RecordingTypeOK /\ QueuesOwnRow
  BY DEF RecordingInv
<1>a. /\ Clock \in 0 .. MaxTime /\ Clock + Month \in Dates /\ Clock + Year \in Dates
      /\ \A open, held \in BOOLEAN : KeepAs(open, held) \in Dates \cup {Never}
      /\ \A r \in Rows : NormalRetainUntil(r) \in Dates \cup {Never}
  BY <1>0, DatesWritten
<1>b. /\ VoiceRows \in Nat /\ MaxTime \in Nat /\ Stream \in Rows /\ Voices \subseteq Rows
      /\ 1 \in Runs /\ 2 \in Runs
  BY RecordingAssumption DEF Stream, Rows, Voices, Runs
<1> USE <1>0 DEF RecordingTypeOK
<1>1. CASE Decide
  BY <1>1, <1>b DEF Decide
<1>2. CASE Tick
  BY <1>2, <1>b DEF Tick
<1>3. CASE FileDispute
  BY <1>3 DEF FileDispute
<1>4. CASE HoldForDispute
  <2>1. dispute' \in [status : {"none", "open", "decided"}, at : 0 .. MaxTime, toHold : BOOLEAN,
                   by : {"none", "staff", "worker"}]
    BY <1>4 DEF HoldForDispute
  <2>2. row' \in [Rows -> RowRecords]
    BY <1>4, RowEdits DEF HoldForDispute
  <2> QED BY <1>4, <2>1, <2>2 DEF HoldForDispute
<1>5. CASE LoseHold
  <2>1. dispute' \in [status : {"none", "open", "decided"}, at : 0 .. MaxTime, toHold : BOOLEAN,
                   by : {"none", "staff", "worker"}]
    BY <1>5 DEF LoseHold
  <2>2. crashes' \in 0 .. MaxCrashes
    BY <1>5, RecordingAssumption DEF LoseHold
  <2> QED BY <1>5, <2>1, <2>2 DEF LoseHold
<1>6. CASE StaffDecides
  <2>1. dispute' \in [status : {"none", "open", "decided"}, at : 0 .. MaxTime, toHold : BOOLEAN,
                   by : {"none", "staff", "worker"}]
    BY <1>6, <1>a DEF StaffDecides
  <2>2. row' \in [Rows -> RowRecords]
    BY <1>6, <1>a, RowEdits DEF StaffDecides
  <2> QED BY <1>6, <2>1, <2>2 DEF StaffDecides
<1>7. CASE WorkerDecides
  <2>1. dispute' \in [status : {"none", "open", "decided"}, at : 0 .. MaxTime, toHold : BOOLEAN,
                   by : {"none", "staff", "worker"}]
    <3>1. now \in 0 .. MaxTime
      BY <1>7, <1>b DEF WorkerDecides
    <3> QED BY <1>7, <3>1 DEF WorkerDecides
  <2> QED BY <1>7, <2>1 DEF WorkerDecides
<1>8. CASE Begin
  <2>1. row' \in [Rows -> RowRecords]
    BY <1>8, <1>b, RowEdits DEF Begin
  <2> QED BY <1>8, <2>1 DEF Begin
<1>9. CASE UploadSegment
  BY <1>9 DEF UploadSegment
<1>10. CASE Stop
  BY <1>10 DEF Stop
<1>11. CASE UploadFile
  BY <1>11 DEF UploadFile
<1>12. CASE DropSegments
  BY <1>12 DEF DropSegments
<1>13. CASE CheckRetention
  BY <1>13 DEF CheckRetention, Open, Held
<1>14. CASE Seal
  <2>1. [status |-> "ready", keep |-> KeepAs(recorder.keep, recorder.held),
         held |-> row[Stream].held \/ recorder.held, sealed |-> {recorder.run},
         ended |-> Clock] \in RowRecords
    BY <1>a, <1>b DEF RowRecords
  <2>2. row' \in [Rows -> RowRecords]
    BY <1>14, <2>1 DEF Seal
  <2>3. seals' \subseteq Rows \X SUBSET Runs
    BY <1>14, <1>b DEF Seal
  <2> QED BY <1>14, <2>2, <2>3 DEF Seal
<1>15. CASE FailRecording
  <2>1. row' \in [Rows -> RowRecords]
    <3>1. \/ row' = row
          \/ row' = [row EXCEPT ![Stream] = [row[Stream] EXCEPT
                         !.status = "failed", !.keep = Clock + Month, !.ended = Clock]]
      BY <1>15, <1>b DEF FailRecording
    <3>2. [row[Stream] EXCEPT !.status = "failed", !.keep = Clock + Month, !.ended = Clock]
            \in RowRecords
      BY <1>a, <1>b, RowEdits
    <3> QED BY <3>1, <3>2
  <2> QED BY <1>15, <2>1 DEF FailRecording
<1>16. CASE CloseJob
  BY <1>16 DEF CloseJob
<1>17. CASE RecorderCrashes
  <2>1. recorder' \in [at : {"queued", "capture", "upload", "tidy", "check", "seal", "close",
                           "done", "dead"},
                     run : Runs, keep : BOOLEAN, held : BOOLEAN]
    BY <1>17, <1>b DEF RecorderCrashes
  <2>2. crashes' \in 0 .. MaxCrashes
    BY <1>17, RecordingAssumption DEF RecorderCrashes
  <2> QED BY <1>17, <2>1, <2>2 DEF RecorderCrashes
<1>18. CASE VoiceEnds
  BY <1>18 DEF VoiceEnds
<1>c. /\ HookIdle \in HookRecords /\ [HookIdle EXCEPT !.at = "done"] \in HookRecords
      /\ hook \in [Hooks -> HookRecords]
  <2>1. 0 \in 0 .. VoiceRows + 1
    BY <1>b
  <2>2. HookIdle \in HookRecords
    BY <2>1 DEF HookIdle, HookRecords
  <2>3. [HookIdle EXCEPT !.at = "done"] \in HookRecords
    BY <2>2 DEF HookRecords
  <2> QED BY <2>2, <2>3
<1>19. ASSUME NEW h \in Hooks, HandleEvent(h) \/ ReadHold(h) \/ LookForRow(h)
       PROVE  RecordingTypeOK'
  <2>1. [at |-> "hold", seg |-> 0, keep |-> Open, held |-> FALSE] \in HookRecords
    BY <1>b DEF Open, HookRecords
  <2>2. /\ [hook[h] EXCEPT !.at = "look", !.held = Held] \in HookRecords
        /\ [hook[h] EXCEPT !.at = "count"] \in HookRecords
    BY <1>c DEF Held, HookRecords
  <2>3. \E x \in HookRecords : hook' = [hook EXCEPT ![h] = x]
    <3>1. CASE HandleEvent(h)
      BY <2>1, <3>1 DEF HandleEvent
    <3>2. CASE ReadHold(h)
      BY <1>c, <2>2, <3>2 DEF ReadHold
    <3>3. CASE LookForRow(h)
      BY <1>c, <2>2, <3>3 DEF LookForRow
    <3> QED BY <1>19, <3>1, <3>2, <3>3
  <2>4. hook' \in [Hooks -> HookRecords]
    BY <1>c, <2>3
  <2>5. UNCHANGED <<row, store, egress, seals, now, dispute, recorder, jobs, scan, release,
                    crashes, holds>>
    BY <1>19, Zenon DEF HandleEvent, ReadHold, LookForRow
  <2> QED BY <2>4, <2>5
<1>20. ASSUME NEW h \in Hooks, CountVoiceRows(h) PROVE RecordingTypeOK'
  <2>1. 1 + Cardinality({v \in Voices : row[v].status # "none"}) \in 0 .. VoiceRows + 1
    BY <1>b, VoiceRowsCounted
  <2>2. ASSUME NEW n \in 0 .. VoiceRows + 1
        PROVE  [hook[h] EXCEPT !.at = "create", !.seg = n] \in HookRecords
    BY <1>c DEF HookRecords
  <2>3. hook' \in [Hooks -> HookRecords]
    BY <1>20, <1>c, <2>1, <2>2 DEF CountVoiceRows
  <2> QED BY <1>20, <2>3 DEF CountVoiceRows
<1>21. ASSUME NEW h \in Hooks, CreateVoiceRow(h) PROVE RecordingTypeOK'
  <2> DEFINE new == [status |-> IF egress = "file" THEN "ready" ELSE "failed",
                     keep |-> KeepAs(hook[h].keep, hook[h].held),
                     held |-> hook[h].held, sealed |-> {}, ended |-> Clock]
  <2>1. /\ \/ row' = row \/ row' = [row EXCEPT ![hook[h].seg] = new]
        /\ \/ hook' = [hook EXCEPT ![h] = HookIdle]
           \/ hook' = [hook EXCEPT ![h] = [hook[h] EXCEPT !.at = "queue"]]
           \/ hook' = [hook EXCEPT ![h] = [HookIdle EXCEPT !.at = "done"]]
    BY <1>21, <1>c DEF CreateVoiceRow
  <2>2. /\ hook[h].keep \in BOOLEAN /\ hook[h].held \in BOOLEAN
        /\ [hook[h] EXCEPT !.at = "queue"] \in HookRecords
    BY <1>c DEF HookRecords
  <2>3. new \in RowRecords
    BY <1>a, <2>2 DEF RowRecords
  <2> HIDE DEF new
  <2>4. row' \in [Rows -> RowRecords] /\ hook' \in [Hooks -> HookRecords]
    BY <1>c, <2>1, <2>2, <2>3
  <2> QED BY <1>21, <2>4 DEF CreateVoiceRow
<1>22. ASSUME NEW h \in Hooks, QueueSeal(h) PROVE RecordingTypeOK'
  <2>1. hook' \in [Hooks -> HookRecords]
    BY <1>22, <1>c DEF QueueSeal
  <2>2. jobs' \subseteq Voices
    BY <1>22 DEF QueueSeal, QueuesOwnRow
  <2> QED BY <1>22, <2>1, <2>2 DEF QueueSeal
<1>23. ASSUME NEW h \in Hooks, HookFails(h) PROVE RecordingTypeOK'
  <2>1. hook' \in [Hooks -> HookRecords] /\ crashes' \in 0 .. MaxCrashes
    BY <1>23, <1>c, RecordingAssumption DEF HookFails
  <2> QED BY <1>23, <2>1 DEF HookFails
<1>24. ASSUME NEW v \in Voices, SealVoice(v) PROVE RecordingTypeOK'
  <2>1. store.voice \subseteq Runs
    BY <1>b
  <2>2. row' \in [Rows -> RowRecords] /\ seals' \subseteq Rows \X SUBSET Runs
    <3>1. \/ UNCHANGED <<row, seals>>
          \/ /\ row' = [row EXCEPT ![v] = [row[v] EXCEPT !.sealed = store.voice]]
             /\ seals' = seals \cup {<<v, store.voice>>}
      BY <1>24, <1>b DEF SealVoice
    <3>2. ASSUME row' = [row EXCEPT ![v] = [row[v] EXCEPT !.sealed = store.voice]]
          PROVE  row' \in [Rows -> RowRecords]
      <4>1. 0 \in Dates \cup {Never} /\ 0 \in 0 .. MaxTime /\ v \in Rows
        BY <1>b, RecordingAssumption DEF Dates
      <4>2. [row[v] EXCEPT !.sealed = store.voice] \in RowRecords
        BY <2>1, <4>1, RowEdits
      <4> QED BY <3>2, <4>2
    <3> QED BY <1>b, <2>1, <3>1, <3>2
  <2> QED BY <1>24, <2>2 DEF SealVoice
<1>25. CASE FindExpired
  BY <1>25 DEF FindExpired, Expired, Kept
<1>26. CASE DeletePrefix
  BY <1>26 DEF DeletePrefix
<1>27. CASE MarkDeleted
  <2>1. PICK r \in scan.todo :
          /\ row' = [row EXCEPT ![r].status = "deleted"]
          /\ scan' = [at |-> IF scan.todo = {r} THEN "find" ELSE "delete", todo |-> scan.todo \ {r}]
    BY <1>27 DEF MarkDeleted
  <2>2. row' \in [Rows -> RowRecords]
    BY <2>1, RowEdits
  <2> QED BY <1>27, <2>1, <2>2 DEF MarkDeleted
<1>28. CASE ScanFails
  BY <1>28, RecordingAssumption DEF ScanFails
<1>29. CASE PlaceHold
  <2>1. row' \in [Rows -> RowRecords]
    BY <1>29, RowEdits DEF PlaceHold
  <2>2. /\ holds < MaxHolds /\ holds' = holds + 1
        /\ UNCHANGED <<store, egress, seals, now, dispute, recorder, hook, jobs, scan, release,
                      crashes>>
    BY <1>29, Zenon DEF PlaceHold
  <2>3. holds' \in 0 .. MaxHolds
    BY <2>2, RecordingAssumption
  <2> QED BY <2>1, <2>2, <2>3
<1>30. CASE BeginRelease
  BY <1>30 DEF BeginRelease, Kept
<1>31. CASE ComputeRelease
  <2>1. PICK r \in release.todo :
          release' = [release EXCEPT !.next = r, !.keep = NormalRetainUntil(r)]
    BY <1>31 DEF ComputeRelease
  <2>2. r \in Rows /\ NormalRetainUntil(r) \in Dates \cup {Never}
    BY <1>a
  <2>3. release' \in [todo : SUBSET Rows, next : Rows \cup {Never}, keep : Dates \cup {Never}]
    BY <2>1, <2>2
  <2> QED BY <1>31, <2>3 DEF ComputeRelease
<1>32. CASE WriteRelease
  <2>1. release.next \in Rows /\ release.keep \in Dates \cup {Never} /\ 0 \in 0 .. MaxTime
    BY <1>32, <1>b DEF WriteRelease
  <2>2. row' \in [Rows -> RowRecords]
    <3>1. [row[release.next] EXCEPT !.held = FALSE, !.keep = release.keep] \in RowRecords
      BY <2>1, RowEdits
    <3>2. row' = [row EXCEPT ![release.next] =
                   [row[release.next] EXCEPT !.held = FALSE, !.keep = release.keep]]
      BY <1>32, <2>1 DEF WriteRelease
    <3> QED BY <2>1, <3>1, <3>2
  <2> QED BY <1>32, <2>2 DEF WriteRelease
<1>33. CASE UNCHANGED recordingVars
  BY <1>33 DEF recordingVars
<1> QED
  BY <1>1, <1>2, <1>3, <1>4, <1>5, <1>6, <1>7, <1>8, <1>9, <1>10, <1>11, <1>12, <1>13, <1>14,
     <1>15, <1>16, <1>17, <1>18, <1>19, <1>20, <1>21, <1>22, <1>23, <1>24, <1>25, <1>26, <1>27,
     <1>28, <1>29, <1>30, <1>31, <1>32, <1>33
     DEF RecordingNext, Recorder, Webhook, Retention, Release

LEMMA RecordingInitially == RecordingInit => RecordingInv
<1> SUFFICES ASSUME RecordingInit PROVE RecordingInv
  OBVIOUS
<1> USE RecordingAssumption DEF RecordingInit
<1>1. RecordingTypeOK
  <2>1. NoRow \in RowRecords
    BY DEF NoRow, RowRecords, Never
  <2>2. HookIdle \in HookRecords
    BY DEF HookIdle, HookRecords
  <2>3. row \in [Rows -> RowRecords] /\ now \in -1 .. MaxTime
    BY <2>1
  <2>4. /\ store \in [segments : SUBSET Runs, stream : SUBSET Runs, voice : SUBSET {1}]
        /\ dispute \in [status : {"none", "open", "decided"}, at : 0 .. MaxTime, toHold : BOOLEAN,
                        by : {"none", "staff", "worker"}]
        /\ recorder \in [at : {"queued", "capture", "upload", "tidy", "check", "seal", "close",
                               "done", "dead"},
                         run : Runs, keep : BOOLEAN, held : BOOLEAN]
    BY DEF Runs
  <2>5. /\ scan \in [at : {"find", "delete", "mark"}, todo : SUBSET Rows]
        /\ release \in [todo : SUBSET Rows, next : Rows \cup {Never}, keep : Dates \cup {Never}]
        /\ crashes \in 0 .. MaxCrashes /\ holds \in 0 .. MaxHolds
    OBVIOUS
  <2> QED BY <2>2, <2>3, <2>4, <2>5 DEF RecordingTypeOK
<1>2. row[Stream].status = "none"
  BY DEF NoRow, Stream, Rows
<1>3. ReadyMatchesSealed /\ RunOwnsFile /\ DeletesUndisputed
  BY <1>2 DEF ReadyMatchesSealed, RunOwnsFile, DeletesUndisputed
<1>4. QueuesOwnRow
  BY DEF QueuesOwnRow, HookIdle
<1> QED BY <1>1, <1>3, <1>4 DEF RecordingInv

\* A row is READY with the file of the run that sealed it, and no later run
\* replaces the file before it has taken the row over.
LEMMA FileStaysSealed ==
  ASSUME RecordingInv, [RecordingNext]_recordingVars
  PROVE  (ReadyMatchesSealed /\ RunOwnsFile)'
<1> DEFINE Goal == (ReadyMatchesSealed /\ RunOwnsFile)'
<1>0. RecordingTypeOK /\ ReadyMatchesSealed /\ RunOwnsFile
  BY DEF RecordingInv
<1>a. /\ row \in [Rows -> RowRecords] /\ Stream \in Rows /\ row[Stream] \in RowRecords
      /\ \A v \in Voices : v # Stream
  BY <1>0, RecordingAssumption DEF RecordingTypeOK, Stream, Rows, Voices
<1>b. recorder \in [at : {"queued", "capture", "upload", "tidy", "check", "seal", "close",
                          "done", "dead"},
                    run : Runs, keep : BOOLEAN, held : BOOLEAN]
  BY <1>0 DEF RecordingTypeOK
<1>c. store \in [segments : SUBSET Runs, stream : SUBSET Runs, voice : SUBSET {1}]
  BY <1>0 DEF RecordingTypeOK
<1>1. ASSUME row'[Stream].status = row[Stream].status, row'[Stream].sealed = row[Stream].sealed,
             store'.stream = store.stream, seals \subseteq seals', recorder' = recorder
      PROVE  Goal
  BY <1>0, <1>1 DEF ReadyMatchesSealed, RunOwnsFile
<1>2. ASSUME row'[Stream].status \notin {"ready"}, store'.stream = store.stream,
             recorder' = recorder
      PROVE  Goal
  BY <1>0, <1>2 DEF ReadyMatchesSealed, RunOwnsFile
<1>3. CASE UNCHANGED <<row, store, seals, recorder>>
  BY <1>1, <1>3
<1>4. CASE HoldForDispute \/ StaffDecides \/ PlaceHold
  <2>1. /\ row'[Stream].status = row[Stream].status
        /\ row'[Stream].sealed = row[Stream].sealed
    <3>1. CASE HoldForDispute
      BY <1>a, <3>1 DEF HoldForDispute, RowRecords
    <3>2. CASE StaffDecides
      BY <1>a, <3>2 DEF StaffDecides, RowRecords
    <3>3. CASE PlaceHold
      BY <1>a, <3>3 DEF PlaceHold, RowRecords
    <3> QED BY <1>4, <3>1, <3>2, <3>3
  <2>2. UNCHANGED <<store, seals, recorder>>
    BY <1>4, Zenon DEF HoldForDispute, StaffDecides, PlaceHold
  <2> QED BY <1>1, <2>1, <2>2
<1>5. CASE WriteRelease
  <2>1. /\ row'[Stream].status = row[Stream].status
        /\ row'[Stream].sealed = row[Stream].sealed
    BY <1>5, <1>a DEF WriteRelease, RowRecords
  <2> QED BY <1>1, <1>5, <2>1 DEF WriteRelease
<1>6. ASSUME NEW h \in Hooks, CreateVoiceRow(h) PROVE Goal
  <2>1. row'[Stream] = row[Stream]
    BY <1>6, <1>a DEF CreateVoiceRow
  <2> QED BY <1>1, <1>6, <2>1 DEF CreateVoiceRow
<1>7. ASSUME NEW v \in Voices, SealVoice(v) PROVE Goal
  <2>1. row'[Stream] = row[Stream] /\ seals \subseteq seals'
    BY <1>7, <1>a DEF SealVoice
  <2> QED BY <1>1, <1>7, <2>1 DEF SealVoice
<1>8. CASE MarkDeleted
  <2>1. PICK r \in scan.todo : row' = [row EXCEPT ![r].status = "deleted"]
    BY <1>8 DEF MarkDeleted
  <2>2. UNCHANGED <<store, seals, recorder>>
    BY <1>8 DEF MarkDeleted
  <2>3. CASE r = Stream
    <3>1. row'[Stream].status = "deleted"
      BY <2>1, <2>3, <1>a DEF RowRecords
    <3> QED BY <1>2, <2>2, <3>1
  <2>4. CASE r # Stream
    BY <1>1, <1>a, <2>1, <2>2, <2>4
  <2> QED BY <2>3, <2>4
<1>9. CASE VoiceEnds
  <2>1. store'.stream = store.stream
    BY <1>9, <1>c DEF VoiceEnds
  <2> QED BY <1>1, <1>9, <2>1 DEF VoiceEnds
<1>10. CASE DeletePrefix
  BY <1>0, <1>10 DEF DeletePrefix, ReadyMatchesSealed, RunOwnsFile
<1>11. CASE Begin
  <2>1. row'[Stream].status = "recording" /\ recorder'.at = "capture"
    BY <1>11, <1>a, <1>b DEF Begin, RowRecords
  <2> QED BY <2>1 DEF ReadyMatchesSealed, RunOwnsFile
<1>12. CASE UploadSegment
  <2>1. store'.stream = store.stream
    BY <1>12, <1>c DEF UploadSegment
  <2> QED BY <1>1, <1>12, <2>1 DEF UploadSegment
<1>13. CASE Stop
  <2>1. store'.stream = store.stream /\ recorder.at = "capture" /\ recorder'.at = "upload"
    BY <1>13, <1>b, <1>c DEF Stop
  <2> QED BY <1>0, <1>13, <2>1 DEF Stop, ReadyMatchesSealed, RunOwnsFile
<1>14. CASE UploadFile
  <2>1. /\ recorder.at = "upload" /\ recorder'.at = "tidy" /\ recorder'.run = recorder.run
        /\ store'.stream = {recorder.run} /\ row' = row
    BY <1>14, <1>b, <1>c DEF UploadFile
  <2> QED BY <1>0, <2>1 DEF ReadyMatchesSealed, RunOwnsFile
<1>15. CASE DropSegments
  <2>1. /\ recorder.at = "tidy" /\ recorder'.at = "check" /\ recorder'.run = recorder.run
        /\ store'.stream = store.stream /\ row' = row
    BY <1>15, <1>b, <1>c DEF DropSegments
  <2> QED BY <1>0, <2>1 DEF ReadyMatchesSealed, RunOwnsFile
<1>16. CASE CheckRetention
  <2>1. /\ recorder.at = "check" /\ recorder'.at = "seal" /\ recorder'.run = recorder.run
        /\ store' = store /\ row' = row
    BY <1>16, <1>b DEF CheckRetention
  <2> QED BY <1>0, <2>1 DEF ReadyMatchesSealed, RunOwnsFile
<1>17. CASE Seal
  <2>1. /\ recorder.at = "seal" /\ recorder'.at = "close" /\ store' = store
        /\ seals' = seals \cup {<<Stream, {recorder.run}>>}
    BY <1>17, <1>b DEF Seal
  <2>2. row'[Stream].sealed = {recorder.run}
    BY <1>17, <1>a DEF Seal
  <2> QED BY <1>0, <2>1, <2>2 DEF ReadyMatchesSealed, RunOwnsFile
<1>18. CASE FailRecording
  <2>1. recorder'.at = "close" /\ UNCHANGED <<store, seals>>
    BY <1>18, <1>b DEF FailRecording
  <2>2. \/ row' = row
        \/ row'[Stream].status = "failed"
    BY <1>18, <1>a DEF FailRecording, RowRecords
  <2> QED BY <1>0, <2>1, <2>2 DEF ReadyMatchesSealed, RunOwnsFile
<1>19. CASE CloseJob
  <2>1. recorder'.at = "done" /\ UNCHANGED <<row, store, seals>>
    BY <1>19, <1>b DEF CloseJob
  <2> QED BY <1>0, <2>1 DEF ReadyMatchesSealed, RunOwnsFile
<1>20. CASE RecorderCrashes
  <2>1. recorder'.at \in {"queued", "dead"} /\ UNCHANGED <<row, store, seals>>
    BY <1>20, <1>b DEF RecorderCrashes
  <2> QED BY <1>0, <2>1 DEF ReadyMatchesSealed, RunOwnsFile
<1> QED
  BY <1>3, <1>4, <1>5, <1>6, <1>7, <1>8, <1>9, <1>10, <1>11, <1>12, <1>13, <1>14, <1>15, <1>16,
     <1>17, <1>18, <1>19, <1>20
     DEF RecordingNext, Recorder, Webhook, Retention, Release, recordingVars,
         Decide, Tick, FileDispute, LoseHold, WorkerDecides, HandleEvent, ReadHold,
         LookForRow, CountVoiceRows, QueueSeal, HookFails, FindExpired, ScanFails,
         BeginRelease, ComputeRelease

\* A deletion begins when a date has passed, which none has in the window a
\* dispute can be filed in; afterwards a dispute that is not open stays so.
LEMMA DeletionKept ==
  ASSUME RecordingInv, [RecordingNext]_recordingVars
  PROVE  (DeletesUndisputed /\ QueuesOwnRow)'
<1>0. RecordingTypeOK /\ DeletesUndisputed /\ QueuesOwnRow
  BY DEF RecordingInv
<1>a. /\ now \in Int /\ scan \in [at : {"find", "delete", "mark"}, todo : SUBSET Rows]
      /\ dispute \in [status : {"none", "open", "decided"}, at : 0 .. MaxTime, toHold : BOOLEAN,
                      by : {"none", "staff", "worker"}]
  BY <1>0, RecordingAssumption DEF RecordingTypeOK
<1>1. DeletesUndisputed'
  <2>1. CASE UNCHANGED <<now, dispute, scan>>
    BY <1>0, <2>1 DEF DeletesUndisputed, Open
  <2>2. CASE Decide \/ Tick
    BY <1>0, <1>a, <2>2 DEF Decide, Tick, DeletesUndisputed, Open
  <2>3. CASE FileDispute
    BY <1>0, <1>a, <2>3 DEF FileDispute, DeletesUndisputed, Open
  <2>4. CASE HoldForDispute \/ LoseHold
    <3>1. dispute'.status = dispute.status
      BY <1>a, <2>4 DEF HoldForDispute, LoseHold
    <3>2. UNCHANGED <<now, scan>>
      BY <2>4, Zenon DEF HoldForDispute, LoseHold
    <3> QED BY <1>0, <3>1, <3>2 DEF DeletesUndisputed, Open
  <2>5. CASE StaffDecides \/ WorkerDecides
    <3>1. Open /\ UNCHANGED <<now, scan>>
      BY <2>5, Zenon DEF StaffDecides, WorkerDecides
    <3> QED BY <1>0, <3>1 DEF DeletesUndisputed
  <2>6. CASE FindExpired
    <3>1. PICK r \in Rows : row[r].keep < now /\ ~Open
      BY <2>6 DEF FindExpired, Expired, Kept
    <3>2. row[r].keep \in Nat
      BY <1>0, DatesWritten DEF RecordingTypeOK, RowRecords
    <3> QED BY <1>a, <2>6, <3>1, <3>2 DEF FindExpired, DeletesUndisputed, Open
  <2>7. CASE DeletePrefix \/ MarkDeleted
    <3>1. scan.at # "find" /\ UNCHANGED <<now, dispute>>
      BY <2>7 DEF DeletePrefix, MarkDeleted
    <3> QED BY <1>0, <3>1 DEF DeletesUndisputed, Open
  <2>8. CASE ScanFails
    BY <2>8 DEF ScanFails, DeletesUndisputed
  <2> QED
    BY <2>1, <2>2, <2>3, <2>4, <2>5, <2>6, <2>7, <2>8
       DEF RecordingNext, Recorder, Webhook, Retention, Release, recordingVars,
           Begin, UploadSegment, Stop, UploadFile, DropSegments, CheckRetention, Seal,
           FailRecording, CloseJob, RecorderCrashes, VoiceEnds, HandleEvent, ReadHold, LookForRow,
           CountVoiceRows, CreateVoiceRow, QueueSeal, HookFails, SealVoice, PlaceHold, BeginRelease,
           ComputeRelease, WriteRelease
<1>2. QueuesOwnRow'
  <2>1. CASE UNCHANGED hook
    BY <1>0, <2>1 DEF QueuesOwnRow
  <2>2. ASSUME NEW h \in Hooks,
               HandleEvent(h) \/ ReadHold(h) \/ LookForRow(h) \/ CountVoiceRows(h)
                 \/ QueueSeal(h) \/ HookFails(h)
        PROVE  QueuesOwnRow'
    <3>1. hook'[h].at # "queue"
      <4>0. hook \in [Hooks -> HookRecords]
        BY <1>0 DEF RecordingTypeOK
      <4>1. CASE HandleEvent(h) \/ ReadHold(h) \/ LookForRow(h)
        BY <4>0, <4>1 DEF HandleEvent, ReadHold, LookForRow, HookIdle, HookRecords
      <4>2. CASE CountVoiceRows(h)
        <5>1. PICK n : hook' = [hook EXCEPT ![h] = [@ EXCEPT !.at = "create", !.seg = n]]
          BY <4>2 DEF CountVoiceRows
        <5>2. [hook[h] EXCEPT !.at = "create", !.seg = n].at = "create"
          BY <4>0 DEF HookRecords
        <5> QED BY <4>0, <5>1, <5>2
      <4>3. CASE QueueSeal(h) \/ HookFails(h)
        BY <4>0, <4>3 DEF QueueSeal, HookFails, HookIdle
      <4> QED BY <2>2, <4>1, <4>2, <4>3
    <3>2. \A g \in Hooks \ {h} : hook'[g] = hook[g]
      BY <1>0, <2>2
         DEF HandleEvent, ReadHold, LookForRow, CountVoiceRows, QueueSeal, HookFails,
             RecordingTypeOK
    <3> QED BY <1>0, <3>1, <3>2 DEF QueuesOwnRow
  <2>3. ASSUME NEW h \in Hooks, CreateVoiceRow(h) PROVE QueuesOwnRow'
    <3>1. hook[h].seg \in Voices /\ (hook'[h].at = "queue" => hook'[h].seg = hook[h].seg)
      BY <1>0, <2>3 DEF CreateVoiceRow, HookIdle, HookRecords, RecordingTypeOK
    <3>2. \A g \in Hooks \ {h} : hook'[g] = hook[g]
      BY <1>0, <2>3 DEF CreateVoiceRow, RecordingTypeOK
    <3> QED BY <1>0, <3>1, <3>2 DEF QueuesOwnRow
  <2> QED
    BY <2>1, <2>2, <2>3
       DEF RecordingNext, Recorder, Webhook, Retention, Release, recordingVars,
           Decide, Tick, FileDispute, HoldForDispute, LoseHold, StaffDecides, WorkerDecides,
           Begin, UploadSegment, Stop, UploadFile, DropSegments, CheckRetention, Seal,
           FailRecording, CloseJob, RecorderCrashes, VoiceEnds, SealVoice, FindExpired,
           DeletePrefix, MarkDeleted, ScanFails, PlaceHold, BeginRelease, ComputeRelease,
           WriteRelease
<1> QED BY <1>1, <1>2

\* Rows, files, jobs and deliveries are as the inductive invariant says in every
\* reachable state (recorder, voice webhook, retention worker).
THEOREM RecordingInductive == RecordingSpec => []RecordingInv
<1>1. RecordingInv /\ [RecordingNext]_recordingVars => RecordingInv'
  BY RecordingTypeKept, FileStaysSealed, DeletionKept DEF RecordingInv
<1> QED
  BY <1>1, RecordingInitially, PTL DEF RecordingSpec

\* The states of the model are the ones its types name.
THEOREM RecordingTypeCorrect == RecordingSpec => []RecordingTypeOK
<1>1. RecordingInv => RecordingTypeOK
  BY DEF RecordingInv
<1> QED
  BY <1>1, RecordingInductive, PTL

\* A READY stream recording is the file that was fingerprinted and sealed,
\* though a job may run twice (sealRecording, recordings/service.ts).
THEOREM ReadyIsSealed == RecordingSpec => []ReadyMatchesSealed
<1>1. RecordingInv => ReadyMatchesSealed
  BY DEF RecordingInv
<1> QED
  BY <1>1, RecordingInductive, PTL

\* No file of a match disappears while its dispute is open
\* (deleteExpiredRecordings, recordings/service.ts).
THEOREM DisputedIsKept == RecordingSpec => NeverDeletedWhileDisputed
<1> DEFINE Keeps == Open => /\ store.stream # {} => store'.stream # {}
                            /\ store.voice # {} => store'.voice # {}
<1>1. RecordingInv /\ [RecordingNext]_recordingVars => [Keeps]_recordingVars
  <2> SUFFICES ASSUME RecordingInv, RecordingNext, Open PROVE Keeps
    OBVIOUS
  <2>0. store \in [segments : SUBSET Runs, stream : SUBSET Runs, voice : SUBSET {1}]
    BY DEF RecordingInv, RecordingTypeOK
  <2>1. CASE store' = store
    BY <2>1
  <2>2. CASE UploadSegment \/ Stop \/ UploadFile \/ DropSegments \/ VoiceEnds
    BY <2>0, <2>2 DEF UploadSegment, Stop, UploadFile, DropSegments, VoiceEnds
  <2>3. CASE DeletePrefix
    BY <2>3 DEF RecordingInv, DeletePrefix, DeletesUndisputed
  <2> QED
    BY <2>1, <2>2, <2>3
       DEF RecordingNext, Recorder, Webhook, Retention, Release,
           Decide, Tick, FileDispute, HoldForDispute, LoseHold, StaffDecides, WorkerDecides,
           Begin, CheckRetention, Seal, FailRecording, CloseJob, RecorderCrashes,
           HandleEvent, ReadHold, LookForRow, CountVoiceRows, CreateVoiceRow, QueueSeal,
           HookFails, SealVoice, FindExpired, MarkDeleted, ScanFails, PlaceHold, BeginRelease,
           ComputeRelease, WriteRelease
<1> QED
  BY <1>1, RecordingInductive, PTL DEF RecordingSpec, NeverDeletedWhileDisputed

(***************************************************************************)
(* Customer care.  What the evaluator carries names rows there are, and    *)
(* every request in the audit log is one that was made.                    *)
(***************************************************************************)
EvaluatesRows ==
  /\ evaluator.todo \subseteq DOMAIN talks
  /\ evaluator.at \in {"write", "alert"} => evaluator.id \in DOMAIN talks

AuditsRequests == audits + (IF staff.at = "idle" THEN 0 ELSE 1) <= acts

CareInv == CareTypeOK /\ talks \in Seq(TalkRecords) /\ EvaluatesRows /\ AuditsRequests

LEMMA CareInitially == CareInit => CareInv
  BY CareAssumption
     DEF CareInit, CareInv, CareTypeOK, EvaluatesRows, AuditsRequests, StaffIdle, TalkKinds,
         Settled

\* The interactions after one more is written, or after one row or all of them
\* have changed.
LEMMA TalkAdded ==
  ASSUME CareInv, NEW kind \in TalkKinds, NEW due \in Nat \cup {NoDate}, Len(talks) < MaxTalks
  PROVE  /\ NewTalk(kind, due) \in Seq(TalkRecords) /\ Len(NewTalk(kind, due)) <= MaxTalks
         /\ DOMAIN talks \subseteq DOMAIN NewTalk(kind, due)
<1> DEFINE talk == [kind |-> kind, due |-> due, outcome |-> "pending",
                    ack |-> FALSE, since |-> {}]
<1>1. talk \in TalkRecords
  BY CareAssumption DEF CareInv, CareTypeOK, TalkRecords, Unsettled
<1> HIDE DEF talk
<1>2. talks \in Seq(TalkRecords) /\ MaxTalks \in Nat
  BY CareAssumption DEF CareInv
<1>3. /\ Append(talks, talk) \in Seq(TalkRecords) /\ Len(Append(talks, talk)) = Len(talks) + 1
      /\ DOMAIN talks = 1 .. Len(talks)
      /\ DOMAIN Append(talks, talk) = 1 .. Len(talks) + 1
  BY <1>1, <1>2
<1>4. Len(talks) \in Nat
  BY <1>2
<1> QED
  BY <1>2, <1>3, <1>4 DEF NewTalk, talk

LEMMA TalksChanged ==
  ASSUME CareInv, NEW new \in [DOMAIN talks -> TalkRecords]
  PROVE  new \in Seq(TalkRecords) /\ Len(new) <= MaxTalks /\ DOMAIN new = DOMAIN talks
<1>1. talks \in Seq(TalkRecords) /\ Len(talks) <= MaxTalks
  BY DEF CareInv, CareTypeOK
<1>2. DOMAIN talks = 1 .. Len(talks) /\ Len(talks) \in Nat
  BY <1>1
<1>3. new \in Seq(TalkRecords) /\ Len(new) = Len(talks)
  BY <1>2
<1> QED
  BY <1>1, <1>2, <1>3

LEMMA TalksAfter ==
  ASSUME CareInv, NEW deed \in Deeds
  PROVE  After(deed) \in [DOMAIN talks -> TalkRecords]
<1>1. \A i \in DOMAIN talks : talks[i] \in TalkRecords
  BY DEF CareInv, CareTypeOK
<1>2. ASSUME NEW talk \in TalkRecords
      PROVE  [talk EXCEPT !.since = @ \cup {deed}] \in TalkRecords
  BY DEF TalkRecords
<1> QED
  BY <1>1, <1>2 DEF After

\* A step that leaves the interactions alone.
LEMMA WithoutTalks ==
  ASSUME CareInv, UNCHANGED talks,
         RaiseSignal \/ AlertSignal \/ JobCrashes \/ FindDue \/ ReadBehaviour \/ AlertUnchanged
           \/ Tomorrow \/ AuditAction
  PROVE  CareInv'
<1> USE CareAssumption
    DEF CareInv, CareTypeOK, EvaluatesRows, AuditsRequests, NextOf, Settled, TalkKinds, StaffIdle
<1>0. DOMAIN talks \subseteq 1 .. MaxTalks
  <2>1. DOMAIN talks = 1 .. Len(talks) /\ Len(talks) \in Nat /\ Len(talks) <= MaxTalks
    OBVIOUS
  <2> QED BY <2>1
<1>1. CASE RaiseSignal
  BY <1>1 DEF RaiseSignal
<1>2. CASE AlertSignal
  BY <1>2 DEF AlertSignal
<1>3. CASE JobCrashes
  <2>1. /\ jobCrashes' \in 0 .. MaxJobCrashes
        /\ evaluator'.at = "idle" /\ evaluator'.todo = {} /\ evaluator'.id = 0
        /\ evaluator' \in [at : {"idle", "read", "write", "alert"}, todo : SUBSET (1 .. MaxTalks),
                           id : 0 .. MaxTalks, outcome : Settled]
    <3>1. evaluator' = [at |-> "idle", todo |-> {}, id |-> 0, outcome |-> evaluator.outcome]
      BY <1>3 DEF JobCrashes
    <3>2. jobCrashes' \in 0 .. MaxJobCrashes
      BY <1>3 DEF JobCrashes
    <3> QED BY <3>1, <3>2
  <2> QED BY <1>3, <2>1 DEF JobCrashes
<1>4. CASE FindDue
  BY <1>0, <1>4 DEF FindDue, Due
<1>5. CASE ReadBehaviour
  BY <1>0, <1>5 DEF ReadBehaviour
<1>6. CASE AlertUnchanged
  <2>1. /\ evaluator'.at \in {"idle", "read"} /\ evaluator'.todo = evaluator.todo
        /\ evaluator' \in [at : {"idle", "read", "write", "alert"}, todo : SUBSET (1 .. MaxTalks),
                           id : 0 .. MaxTalks, outcome : Settled]
    BY <1>6 DEF AlertUnchanged
  <2>2. alerts' \subseteq ({"risk"} \X (0 .. LastDay)) \cup ({"unchanged"} \X (1 .. MaxTalks))
    <3>1. evaluator.id \in 1 .. MaxTalks
      BY <1>0, <1>6 DEF AlertUnchanged
    <3> QED BY <1>6, <3>1 DEF AlertUnchanged
  <2>3. EvaluatesRows'
    BY <2>1
  <2>4. AuditsRequests'
    BY <1>6 DEF AlertUnchanged
  <2> QED BY <1>6, <2>1, <2>2, <2>3, <2>4 DEF AlertUnchanged
<1>7. CASE Tomorrow
  BY <1>7 DEF Tomorrow
<1>8. CASE AuditAction
  BY <1>8 DEF AuditAction
<1> QED
  BY <1>1, <1>2, <1>3, <1>4, <1>5, <1>6, <1>7, <1>8

\* A step that writes interactions, and what it may change besides.
LEMMA WithTalks ==
  ASSUME CareInv, talks' \in Seq(TalkRecords), Len(talks') <= MaxTalks,
         DOMAIN talks \subseteq DOMAIN talks',
         UNCHANGED <<raised, alerts, audits, today, jobCrashes>>,
         limit' \in [amount : Amounts \cup {0}, staged : Amounts \cup {0}],
         detector' \in {"idle", "prompt", "alert"},
         \/ acts' = acts /\ (staff.at = "idle" => staff'.at = "idle")
         \/ acts' = acts + 1 /\ staff.at = "idle" /\ acts < MaxActions,
         staff' \in [at : {"idle", "talk", "audit"}, kind : TalkKinds],
         evaluator'.todo = evaluator.todo, evaluator'.id = evaluator.id,
         evaluator' \in [at : {"idle", "read", "write", "alert"}, todo : SUBSET (1 .. MaxTalks),
                         id : 0 .. MaxTalks, outcome : Settled],
         evaluator'.at \in {"write", "alert"} => evaluator.at \in {"write", "alert"}
  PROVE  CareInv'
<1> USE CareAssumption DEF CareInv, CareTypeOK, EvaluatesRows, AuditsRequests
<1>1. \A i \in DOMAIN talks' : talks'[i] \in TalkRecords
  OBVIOUS
<1>2. acts' \in 0 .. MaxActions
  OBVIOUS
<1>3. AuditsRequests'
  OBVIOUS
<1>4. EvaluatesRows'
  OBVIOUS
<1> QED
  BY <1>1, <1>2, <1>3, <1>4

LEMMA CareStepKeeps == CareInv /\ [CareNext]_careVars => CareInv'
<1> SUFFICES ASSUME CareInv, [CareNext]_careVars PROVE CareInv'
  OBVIOUS
<1>0. /\ evaluator \in [at : {"idle", "read", "write", "alert"}, todo : SUBSET (1 .. MaxTalks),
                        id : 0 .. MaxTalks, outcome : Settled]
      /\ staff \in [at : {"idle", "talk", "audit"}, kind : TalkKinds]
      /\ limit \in [amount : Amounts \cup {0}, staged : Amounts \cup {0}]
      /\ detector \in {"idle", "prompt", "alert"}
      /\ talks \in Seq(TalkRecords) /\ Len(talks) <= MaxTalks
      /\ talks \in [DOMAIN talks -> TalkRecords]
  BY DEF CareInv, CareTypeOK
<1>a. \A days \in Nat : today + days \in Nat \cup {NoDate}
  BY CareAssumption DEF CareInv, CareTypeOK
<1>b. Window \in Nat /\ FollowUps \subseteq Nat
  BY CareAssumption
<1>1. CASE StartAutomatedInteraction
  <2>1. /\ talks' \in Seq(TalkRecords) /\ Len(talks') <= MaxTalks
        /\ DOMAIN talks \subseteq DOMAIN talks'
    BY <1>0, <1>a, <1>b, <1>1, TalkAdded DEF StartAutomatedInteraction, TalkKinds
  <2> QED
    BY <1>0, <1>1, <2>1, WithTalks DEF StartAutomatedInteraction
<1>2. ASSUME NEW i \in 1 .. MaxTalks, RespondToPrompt(i) PROVE CareInv'
  <2>1. /\ i \in DOMAIN talks
        /\ talks' = [talks EXCEPT ![i] = [talks[i] EXCEPT !.ack = TRUE, !.outcome = "acknowledged"]]
    BY <1>2 DEF RespondToPrompt
  <2>2. [talks[i] EXCEPT !.ack = TRUE, !.outcome = "acknowledged"] \in TalkRecords
    BY <1>0, <2>1 DEF TalkRecords, Unsettled
  <2>3. talks' \in [DOMAIN talks -> TalkRecords]
    BY <1>0, <2>1, <2>2
  <2> QED
    BY <1>0, <1>2, <2>3, TalksChanged, WithTalks DEF RespondToPrompt
<1>3. CASE CustomerActs
  <2>1. talks' \in [DOMAIN talks -> TalkRecords]
    BY <1>3, TalksAfter DEF CustomerActs, Deeds
  <2> QED
    BY <1>0, <1>3, <2>1, TalksChanged, WithTalks DEF CustomerActs
<1>4. CASE ContactCustomer
  <2>0. PICK due \in {NoDate} \cup {today + days : days \in FollowUps} :
          talks' = NewTalk("contact", due)
    BY <1>4 DEF ContactCustomer
  <2>1. /\ talks' \in Seq(TalkRecords) /\ Len(talks') <= MaxTalks
        /\ DOMAIN talks \subseteq DOMAIN talks'
    BY <1>4, <1>a, <1>b, <2>0, TalkAdded DEF ContactCustomer, CanAct, TalkKinds
  <2>2. staff' \in [at : {"idle", "talk", "audit"}, kind : TalkKinds]
    BY <1>4 DEF ContactCustomer, TalkKinds
  <2> QED
    BY <1>0, <1>4, <2>1, <2>2, WithTalks DEF ContactCustomer, CanAct
<1>5. CASE ApplyCoolOff
  <2>1. talks' \in [DOMAIN talks -> TalkRecords]
    BY <1>5, TalksAfter DEF ApplyCoolOff, Deeds
  <2>2. staff' \in [at : {"idle", "talk", "audit"}, kind : TalkKinds]
    BY <1>5 DEF ApplyCoolOff, TalkKinds
  <2> QED
    BY <1>0, <1>5, <2>1, <2>2, TalksChanged, WithTalks DEF ApplyCoolOff, CanAct
<1>6. CASE ApplyLimit
  <2>1. talks' \in [DOMAIN talks -> TalkRecords]
    BY <1>6, TalksAfter DEF ApplyLimit, Deeds
  <2>2. /\ staff' \in [at : {"idle", "talk", "audit"}, kind : TalkKinds]
        /\ limit' \in [amount : Amounts \cup {0}, staged : Amounts \cup {0}]
    BY <1>0, <1>6 DEF ApplyLimit, TalkKinds
  <2> QED
    BY <1>0, <1>6, <2>1, <2>2, TalksChanged, WithTalks DEF ApplyLimit, CanAct
<1>7. CASE RecordTalk
  <2>1. /\ talks' \in Seq(TalkRecords) /\ Len(talks') <= MaxTalks
        /\ DOMAIN talks \subseteq DOMAIN talks'
    BY <1>0, <1>a, <1>b, <1>7, TalkAdded DEF RecordTalk
  <2>2. staff' \in [at : {"idle", "talk", "audit"}, kind : TalkKinds] /\ staff'.at = "audit"
    BY <1>0, <1>7 DEF RecordTalk
  <2> QED
    BY <1>0, <1>7, <2>1, <2>2, WithTalks DEF RecordTalk
<1>8. CASE RecordOutcome
  <2>1. PICK i \in DOMAIN talks, outcome \in Settled \cup Unsettled :
          talks' = [talks EXCEPT ![i] = [talks[i] EXCEPT !.outcome = outcome]]
    BY <1>8 DEF RecordOutcome
  <2>2. [talks[i] EXCEPT !.outcome = outcome] \in TalkRecords
    BY <1>0, <2>1 DEF TalkRecords
  <2>3. talks' \in [DOMAIN talks -> TalkRecords]
    BY <1>0, <2>1, <2>2
  <2>4. staff' \in [at : {"idle", "talk", "audit"}, kind : TalkKinds]
    BY <1>8 DEF RecordOutcome, TalkKinds
  <2> QED
    BY <1>0, <1>8, <2>3, <2>4, TalksChanged, WithTalks DEF RecordOutcome
<1>9. CASE WriteOutcome
  <2> DEFINE i == evaluator.id
  <2>1. /\ i \in DOMAIN talks /\ evaluator.outcome \in Settled
        /\ talks' = [talks EXCEPT ![i] = [talks[i] EXCEPT !.outcome = evaluator.outcome]]
    BY <1>0, <1>9 DEF WriteOutcome, CareInv, EvaluatesRows
  <2>2. [talks[i] EXCEPT !.outcome = evaluator.outcome] \in TalkRecords
    BY <1>0, <2>1 DEF TalkRecords
  <2>3. talks' \in [DOMAIN talks -> TalkRecords]
    BY <1>0, <2>1, <2>2
  <2>4. /\ evaluator'.todo = evaluator.todo /\ evaluator'.id = evaluator.id
        /\ evaluator.at = "write"
        /\ evaluator' \in [at : {"idle", "read", "write", "alert"}, todo : SUBSET (1 .. MaxTalks),
                           id : 0 .. MaxTalks, outcome : Settled]
    BY <1>0, <1>9 DEF WriteOutcome, NextOf
  <2> QED
    BY <1>0, <1>9, <2>3, <2>4, TalksChanged, WithTalks DEF WriteOutcome
<1>10. CASE UNCHANGED careVars
  BY <1>10 DEF careVars, CareInv, CareTypeOK, EvaluatesRows, AuditsRequests
<1> QED
  BY <1>1, <1>2, <1>3, <1>4, <1>5, <1>6, <1>7, <1>8, <1>9, <1>10, WithoutTalks
     DEF CareNext, Detector, Evaluator, Staff, RaiseSignal, AlertSignal, JobCrashes, FindDue,
         ReadBehaviour, AlertUnchanged, Tomorrow, AuditAction

\* Every reachable state of customer care is one its types name: no batch of
\* evaluations, and no answer or request meanwhile, makes a row out of nothing.
THEOREM CareTypeCorrect == CareSpec => []CareTypeOK
<1>1. CareInv => CareTypeOK
  BY DEF CareInv
<1> QED
  BY <1>1, CareInitially, CareStepKeeps, PTL DEF CareSpec

(***************************************************************************)
(* The four parts in one behaviour, of which one moves.                    *)
(***************************************************************************)

\* Each part behaves as it does alone, so what is proved of it holds here.
LEMMA PartsAsAlone ==
  FairSpec => RecordingSpec /\ BreakSpec /\ ComplaintSpec /\ CareSpec
<1>1. Init => RecordingInit /\ BreakInit /\ ComplaintInit /\ CareInit
  BY DEF Init
<1>2. [Next]_vars => /\ [RecordingNext]_recordingVars /\ [BreakNext]_breakVars
                     /\ [ComplaintNext]_complaintVars /\ [CareNext]_careVars
  BY DEF Next, vars, Recorded, Played, Complained, Cared
<1> QED
  BY <1>1, <1>2, PTL DEF FairSpec, RecordingSpec, BreakSpec, ComplaintSpec, CareSpec

\* Every variable of the four parts has its type, in every reachable state.
THEOREM SafeguardsTyped == FairSpec => []TypeOK
<1>1. BreakSpec => []PlayTypeOK
  <2>1. BreakInv => PlayTypeOK
    BY DEF BreakInv
  <2> QED BY <2>1, BreakInductive, PTL
<1>2. ComplaintSpec => []ComplaintTypeOK
  <2>1. ComplaintInv /\ [ComplaintNext]_complaintVars => ComplaintInv'
    BY ComplaintTypeKept, ResponseKept DEF ComplaintInv
  <2>2. ComplaintInv => ComplaintTypeOK
    BY DEF ComplaintInv
  <2> QED BY <2>1, <2>2, ComplaintInitially, PTL DEF ComplaintSpec
<1>3. RecordingTypeOK /\ PlayTypeOK /\ ComplaintTypeOK /\ CareTypeOK => TypeOK
  BY DEF TypeOK
<1> QED
  BY <1>1, <1>2, <1>3, RecordingTypeCorrect, CareTypeCorrect, PartsAsAlone, PTL

===============================================================================
