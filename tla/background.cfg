\* The outbox, the developer webhooks, the deposit limits, the identity checks,
\* the audit chain and the prices, each on its own instance.  Fees from nothing
\* to all of the pot; 2499 is the last one under a quarter.
SPECIFICATION Spec
CONSTANTS
  Emails = {e1, e2}
  Mailers = {m1, m2}
  MaxEmailAttempts = 5
  Deliveries = {d1}
  Senders = {w1, w2}
  MaxAttempts = 5
  Tabs = {t1, t2}
  MaxLimit = 3
  MaxDeposits = 3
  Sessions = {s1}
  Uploads = {u1}
  Appliers = {h1, h2}
  Appends = {filedA, filedB, decided, video, voice}
  ReadCommitted = {filedA, filedB}
  LockOnly = {video, voice}
  NoHash = NoHash
  MaxStake = 300
  FeeBps = {0, 1, 25, 250, 333, 500, 1250, 2499, 5000, 9999, 10000}
  RewardBps = {0, 1000, 3333, 10000}
  RevShareBps = {0, 2000, 5000, 10000}
SYMMETRY Symmetry
INVARIANTS
  TypeOK
  OutboxTellsTruth
  HookTellsTruth
  VerifiedIsApproved
  MismatchBlocksApproval
  ChainVerifies
  PotDivides
  QuoteIsPaid
PROPERTIES
  LoosensOnlyAfterDelay
  OvershootIsBounded
CHECK_DEADLOCK FALSE
