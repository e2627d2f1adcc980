-------------------------- MODULE WebhookDelivery --------------------------
(***************************************************************************)
(* The webhooks sent to a game's developer: src/lib/webhooks/dispatch.ts   *)
(* and src/workers/webhook-delivery.worker.ts.                             *)
(*                                                                         *)
(* A delivery row is read, posted with a ten-second limit and then updated *)
(* from what was read.  Nothing claims the row, so two instances of the    *)
(* worker may post the same row, and a late update may overwrite a newer   *)
(* one; a crash between the post and the update posts it again.            *)
(***************************************************************************)
EXTENDS Naturals, FiniteSets

CONSTANTS
  Deliveries,   \* the rows of webhook_delivery_log
  Senders,      \* the running instances of the worker
  MaxAttempts   \* MAX_ATTEMPTS

ASSUME HookAssumption == MaxAttempts \in Nat \ {0}

VARIABLES
  hook,     \* Deliveries -> the row, status "NONE" before dispatchWebhook
  active,   \* isActive of the developer's webhook configuration
  sender,   \* Senders -> Deliveries -> the call of deliverWebhook, if any
  told,     \* external: the deliveries the developer answered with a 2xx
  tries,    \* history: the posts of a delivery that failed
  switchedOff  \* history: the configuration was once switched off

hookVars == <<hook, active, sender, told, tries, switchedOff>>

Waiting == {"PENDING", "RETRYING"}
HookCalls ==
  [at : {"idle", "listed"}]
    \cup [at : {"post"}, attemptCount : Nat]
    \cup [at : {"answered"}, attemptCount : Nat, success : BOOLEAN]

HookTypeOK ==
  /\ hook \in [Deliveries -> [status : {"NONE", "DELIVERED", "FAILED"} \cup Waiting,
                              attemptCount : Nat, due : BOOLEAN]]
  /\ active \in BOOLEAN
  /\ sender \in [Senders -> [Deliveries -> HookCalls]]
  /\ told \subseteq Deliveries
  /\ tries \in [Deliveries -> 0 .. MaxAttempts]
  /\ switchedOff \in BOOLEAN

Unlisted == [d \in Deliveries |-> [at |-> "idle"]]

HookInit ==
  /\ hook = [d \in Deliveries |-> [status |-> "NONE", attemptCount |-> 0, due |-> FALSE]]
  /\ active = TRUE
  /\ sender = [i \in Senders |-> Unlisted]
  /\ told = {}
  /\ tries = [d \in Deliveries |-> 0]
  /\ switchedOff = FALSE

\* dispatchWebhook writes the row only for an active configuration; when it
\* fails the error is logged and there is no row.
DispatchWebhook(d) ==
  /\ hook[d].status = "NONE" /\ active
  /\ hook' = [hook EXCEPT ![d] = [status |-> "PENDING", attemptCount |-> 0, due |-> TRUE]]
  /\ UNCHANGED <<active, sender, told, tries, switchedOff>>

\* The configuration is switched off or on outside the program.
SwitchConfig ==
  /\ active' = ~active
  /\ switchedOff' = (switchedOff \/ active)
  /\ UNCHANGED <<hook, sender, told, tries>>

\* nextRetryAt passes.
RetryDue(d) ==
  /\ hook[d].status = "RETRYING" /\ ~hook[d].due
  /\ hook' = [hook EXCEPT ![d].due = TRUE]
  /\ UNCHANGED <<active, sender, told, tries, switchedOff>>

\* One scan lists what is due; the batch is then delivered concurrently.
ScanHooks(i) ==
  /\ sender[i] = Unlisted
  /\ \E d \in Deliveries : hook[d].status \in Waiting /\ hook[d].due
  /\ sender' = [sender EXCEPT ![i] =
       [d \in Deliveries |->
          [at |-> IF hook[d].status \in Waiting /\ hook[d].due THEN "listed" ELSE "idle"]]]
  /\ UNCHANGED <<hook, active, told, tries, switchedOff>>

\* deliverWebhook reads the row and its configuration.
ReadHook(i, d) ==
  /\ sender[i][d].at = "listed"
  /\ IF hook[d].status \notin Waiting
     THEN /\ sender' = [sender EXCEPT ![i][d] = [at |-> "idle"]]
          /\ UNCHANGED hook
     ELSE IF ~active
     THEN /\ sender' = [sender EXCEPT ![i][d] = [at |-> "idle"]]
          /\ hook' = [hook EXCEPT ![d].status = "FAILED"]
     ELSE /\ sender' = [sender EXCEPT ![i][d] =
                          [at |-> "post", attemptCount |-> hook[d].attemptCount]]
          /\ UNCHANGED hook
  /\ UNCHANGED <<active, told, tries, switchedOff>>

\* The developer answers 2xx, or the post fails: another answer, no answer in
\* ten seconds, or a 2xx that never arrives.
PostHook(i, d) ==
  /\ sender[i][d].at = "post"
  /\ \E success \in BOOLEAN :
       /\ sender' = [sender EXCEPT ![i][d] =
                       [at |-> "answered", attemptCount |-> sender[i][d].attemptCount,
                        success |-> success]]
       /\ told' \in IF success THEN {told \cup {d}} ELSE {told, told \cup {d}}
       /\ tries' = [tries EXCEPT ![d] = IF success \/ @ = MaxAttempts THEN @ ELSE @ + 1]
  /\ UNCHANGED <<hook, active, switchedOff>>

\* The slip of giving up one attempt early.
MutantHookOutcome(attemptCount, success) ==
  IF success THEN "DELIVERED"
  ELSE IF attemptCount + 2 >= MaxAttempts THEN "FAILED" ELSE "RETRYING"

\* The status after an answer, from the attempt count that was read.
HookOutcome(attemptCount, success) ==
  IF success THEN "DELIVERED"
  ELSE IF attemptCount + 1 >= MaxAttempts THEN "FAILED" ELSE "RETRYING"

\* The update by id, whatever the row says by now.
UpdateHook(i, d) ==
  /\ sender[i][d].at = "answered"
  /\ hook' = [hook EXCEPT ![d] =
       [status |-> HookOutcome(sender[i][d].attemptCount, sender[i][d].success),
        attemptCount |-> sender[i][d].attemptCount + 1,
        due |-> FALSE]]
  /\ sender' = [sender EXCEPT ![i][d] = [at |-> "idle"]]
  /\ UNCHANGED <<active, told, tries, switchedOff>>

\* An instance stops with whatever it had listed or posted.
SenderStops(i) ==
  /\ sender[i] # Unlisted
  /\ sender' = [sender EXCEPT ![i] = Unlisted]
  /\ UNCHANGED <<hook, active, told, tries, switchedOff>>

HookNext ==
  \/ \E d \in Deliveries : DispatchWebhook(d) \/ RetryDue(d)
  \/ SwitchConfig
  \/ \E i \in Senders : ScanHooks(i) \/ SenderStops(i)
  \/ \E i \in Senders, d \in Deliveries :
       ReadHook(i, d) \/ PostHook(i, d) \/ UpdateHook(i, d)

HookSpec == HookInit /\ [][HookNext]_hookVars

\* What a delivery row says is true of the developer's server: DELIVERED was
\* answered with a 2xx; FAILED is given up only after MAX_ATTEMPTS failed
\* posts (header, lines 4-6) or because the configuration was switched off,
\* however many instances updated the row from stale counts.
HookTellsTruth ==
  \A d \in Deliveries :
    /\ hook[d].status = "DELIVERED" => d \in told
    /\ hook[d].status = "FAILED" => tries[d] = MaxAttempts \/ switchedOff

============================================================================
