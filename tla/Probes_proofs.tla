---------------------------- MODULE Probes_proofs ----------------------------
(***************************************************************************)
(* What the probes of a target promise, proved for any rate and burst, any *)
(* collaborator, sites, endpoints, identities and applications: the rate   *)
(* limiter they share, out-of-band confirmation, the crawler, the fuzzer   *)
(* and the authorization checks.  Each section stands by itself.           *)
(***************************************************************************)
EXTENDS RateLimiter, Oast, Crawler, Fuzzer, Authz, Integers, FiniteSetTheorems, TLAPS

-----------------------------------------------------------------------------
(***************************************************************************)
(* The rate limiter.                                                       *)
(***************************************************************************)
(***************************************************************************)
(* What was withdrawn since the clock showed s, and what could be taken    *)
(* now, come from a full bucket and what the rate has brought since; once  *)
(* the clock has moved on from e, that stretch is settled.                 *)
(***************************************************************************)
OpenStretches ==
    \A s \in 0..time :
        (total - withdrawnBefore[s]) * Whole + Available <= Capacity + Rate * (time - s)

ClosedStretches ==
    \A s \in 0..time : \A e \in s..time :
        e < time => (withdrawnBefore[e + 1] - withdrawnBefore[s]) * Whole
                        <= Capacity + Rate * (e - s)

RateIInv == RateTypeOK /\ OpenStretches /\ ClosedStretches

-----------------------------------------------------------------------------
(***************************************************************************)
(* Arithmetic                                                              *)
(***************************************************************************)
LEMMA ProductInNat == \A a, b \in Nat : a * b \in Nat
  OBVIOUS

LEMMA OneMore == \A a, b \in Int : (a + 1) * b = a * b + b /\ b * (a + 1) = b * a + b
  OBVIOUS

LEMMA Slack == \A x, y, a, b, c, r \in Int : a <= b + r /\ x + b <= c + y => x + a <= c + (y + r)
  OBVIOUS

\* What is in the bucket is never more than fits.
LEMMA AvailableFits ==
    ASSUME RateTypeOK
    PROVE  Available \in 0..Capacity
  <1>1. time - last \in Nat /\ tokens \in Nat /\ Capacity \in Nat
    BY RateLimiterAssumption DEF RateTypeOK
  <1>2. (time - last) * Rate \in Nat
    BY <1>1, ProductInNat, RateLimiterAssumption
  <1> QED
    BY <1>1, <1>2 DEF Available

LEMMA WaitIsATime == \A deficit \in Nat : Wait(deficit) \in Nat
  <1> SUFFICES ASSUME NEW d \in Nat PROVE Wait(d) \in Nat
    OBVIOUS
  <1>1. d + Rate - 1 \in Nat /\ Rate \in Nat \ {0}
    BY RateLimiterAssumption
  <1> QED
    BY <1>1 DEF Wait

\* A bucket that is stamped now holds just its tokens.
LEMMA StampedNow ==
    ASSUME RateTypeOK, time' = time, last' = time, tokens' \in 0..Capacity
    PROVE  Available' = tokens'
  <1>1. time' - last' = 0 /\ 0 * Rate = 0
    BY RateLimiterAssumption DEF RateTypeOK
  <1>2. tokens' + 0 = tokens' /\ ~(tokens' > Capacity)
    <2>1. \A x \in 0..Capacity : x + 0 = x /\ ~(x > Capacity)
      BY RateLimiterAssumption
    <2> QED
      BY <2>1
  <1>3. Available' = IF tokens' + 0 > Capacity THEN Capacity ELSE tokens' + 0
    BY <1>1 DEF Available
  <1> QED
    BY <1>2, <1>3

-----------------------------------------------------------------------------
LEMMA RateInitIInv == RateInit => RateIInv
  <1> SUFFICES ASSUME RateInit PROVE RateIInv
    OBVIOUS
  <1>1. RateTypeOK
    BY RateLimiterAssumption DEF RateInit, RateTypeOK
  <1>2. withdrawnBefore[0] = 0 /\ Available <= Capacity /\ Available \in Nat
    BY <1>1, AvailableFits, RateLimiterAssumption DEF RateInit
  <1>3. OpenStretches
    <2>1. \A s \in 0..time : s = 0
      <3>1. \A s \in 0..0 : s = 0
        OBVIOUS
      <3>2. time = 0
        BY DEF RateInit
      <3> QED
        BY ONLY <3>1, <3>2
    <2>3. time - 0 = 0 /\ total - withdrawnBefore[0] = 0
      BY <1>2 DEF RateInit
    <2>2. 0 * Whole = 0 /\ Rate * 0 = 0
      BY RateLimiterAssumption
    <2> QED
      BY <1>2, <2>1, <2>2, <2>3, RateLimiterAssumption DEF OpenStretches
  <1>4. ClosedStretches
    BY DEF RateInit, ClosedStretches
  <1> QED
    BY <1>1, <1>3, <1>4 DEF RateIInv

LEMMA WithdrawKeeps ==
    ASSUME RateIInv, NEW s \in Senders, Withdraw(s)
    PROVE  RateIInv'
  <1> USE DEF RateIInv
  <1>1. /\ Available \in 0..Capacity /\ Available >= Whole
        /\ tokens' = Available - Whole /\ last' = time /\ total' = total + 1
        /\ UNCHANGED <<time, withdrawnBefore>>
        /\ total \in Nat /\ time \in Nat
        /\ withdrawnBefore \in [0..time -> 0..total]
    BY AvailableFits DEF Withdraw, RateTypeOK
  <1>2. tokens' \in 0..Capacity
    BY <1>1, RateLimiterAssumption
  <1>3. RateTypeOK'
    BY <1>1, <1>2, RateLimiterAssumption DEF Withdraw, RateTypeOK
  <1>4. Available' = Available - Whole
    BY <1>1, <1>2, StampedNow
  <1>5. OpenStretches'
    <2> SUFFICES ASSUME NEW t \in 0..time
                 PROVE  (total' - withdrawnBefore[t]) * Whole + Available'
                            <= Capacity + Rate * (time - t)
      BY <1>1 DEF OpenStretches
    <2>1. total' - withdrawnBefore[t] = (total - withdrawnBefore[t]) + 1
          /\ total - withdrawnBefore[t] \in Nat
      BY <1>1
    <2>2. (total' - withdrawnBefore[t]) * Whole = (total - withdrawnBefore[t]) * Whole + Whole
      BY <2>1, OneMore, RateLimiterAssumption
    <2> DEFINE spent == (total - withdrawnBefore[t]) * Whole
               brought == Rate * (time - t)
    <2>3. spent + Available <= Capacity + brought
      BY DEF OpenStretches
    <2>4. spent \in Nat /\ brought \in Nat
      BY <1>1, <2>1, ProductInNat, RateLimiterAssumption
    <2> HIDE DEF spent, brought
    <2>5. spent + Whole + Available' <= Capacity + brought
      BY <1>1, <1>4, <2>3, <2>4, RateLimiterAssumption
    <2> QED
      BY <2>2, <2>5 DEF spent, brought
  <1>6. ClosedStretches'
    BY <1>1 DEF ClosedStretches
  <1> QED
    BY <1>3, <1>5, <1>6

LEMMA FallAsleepKeeps ==
    ASSUME RateIInv, NEW s \in Senders, FallAsleep(s)
    PROVE  RateIInv'
  <1> USE DEF RateIInv
  <1>1. /\ Available \in 0..Capacity /\ Available < Whole
        /\ tokens' = Available /\ last' = time
        /\ UNCHANGED <<time, total, withdrawnBefore>>
        /\ time \in Nat
    BY AvailableFits DEF FallAsleep, RateTypeOK
  <1>2. time + Wait(Whole - Available) \in Nat
    BY <1>1, WaitIsATime, RateLimiterAssumption
  <1>3. RateTypeOK'
    BY <1>1, <1>2, RateLimiterAssumption DEF FallAsleep, RateTypeOK
  <1>4. Available' = Available
    BY <1>1, StampedNow
  <1>5. OpenStretches' /\ ClosedStretches'
    BY <1>1, <1>4 DEF OpenStretches, ClosedStretches
  <1> QED
    BY <1>3, <1>5

(***************************************************************************)
(* The clock moves on: every open stretch gets one tick longer, the one    *)
(* that begins now is empty, and those that end here are settled.          *)
(***************************************************************************)
LEMMA TickKeeps ==
    ASSUME RateIInv, Tick
    PROVE  RateIInv'
  <1> USE DEF RateIInv
  <1>1. /\ time' = time + 1 /\ time < MaxTicks
        /\ UNCHANGED <<tokens, last, wakeAt, total>>
        /\ time \in Nat /\ total \in Nat /\ last \in 0..time /\ tokens \in 0..Capacity
        /\ withdrawnBefore \in [0..time -> 0..total]
        /\ withdrawnBefore' = [t \in 0..time + 1 |-> IF t <= time THEN withdrawnBefore[t]
                                                     ELSE total]
    BY DEF Tick, RateTypeOK
  <1>2. RateTypeOK'
    <2>1. withdrawnBefore' \in [0..time' -> 0..total']
      BY <1>1
    <2> QED
      BY <1>1, <2>1, RateLimiterAssumption DEF RateTypeOK
  <1>3. Available \in Nat
    BY AvailableFits, RateLimiterAssumption
  <1>4. Available' \in Nat /\ Available' <= Capacity /\ Available' <= Available + Rate
    <2> DEFINE gone == time - last
    <2>1. gone \in Nat /\ time' - last' = gone + 1
      BY <1>1
    <2>2. (time' - last') * Rate = gone * Rate + Rate /\ gone * Rate \in Nat
      BY <2>1, OneMore, ProductInNat, RateLimiterAssumption
    <2>3. Available = IF tokens + gone * Rate > Capacity THEN Capacity ELSE tokens + gone * Rate
      BY DEF Available
    <2>4. Available' = IF tokens + (time' - last') * Rate > Capacity THEN Capacity
                       ELSE tokens + (time' - last') * Rate
      BY <1>1 DEF Available
    <2> DEFINE brought == gone * Rate
               longer == (time' - last') * Rate
    <2>5. longer = brought + Rate /\ brought \in Nat
      BY <2>2
    <2>6. Available = IF tokens + brought > Capacity THEN Capacity ELSE tokens + brought
      BY <2>3
    <2>7. Available' = IF tokens + longer > Capacity THEN Capacity ELSE tokens + longer
      BY <2>4
    <2> HIDE DEF gone, brought, longer
    <2> QED
      BY <1>1, <2>5, <2>6, <2>7, RateLimiterAssumption
  <1>5. OpenStretches'
    <2> SUFFICES ASSUME NEW t \in 0..time + 1
                 PROVE  (total - withdrawnBefore'[t]) * Whole + Available'
                            <= Capacity + Rate * (time + 1 - t)
      BY <1>1 DEF OpenStretches
    <2>1. CASE t = time + 1
      <3>1. total - withdrawnBefore'[t] = 0 /\ time + 1 - t = 0
        BY <1>1, <2>1
      <3>2. 0 * Whole = 0 /\ Rate * 0 = 0
        BY RateLimiterAssumption
      <3> QED
        BY <1>4, <3>1, <3>2, RateLimiterAssumption
    <2>2. CASE t \in 0..time
      <3> DEFINE spent == (total - withdrawnBefore[t]) * Whole
                 brought == Rate * (time - t)
      <3>1. spent + Available <= Capacity + brought
        BY <2>2 DEF OpenStretches
      <3>2. withdrawnBefore'[t] = withdrawnBefore[t] /\ time + 1 - t = (time - t) + 1
            /\ time - t \in Nat /\ total - withdrawnBefore[t] \in Nat
        BY <1>1, <2>2
      <3>3. Rate * (time + 1 - t) = brought + Rate
        BY <3>2, OneMore, RateLimiterAssumption
      <3>4. spent \in Nat /\ brought \in Nat
        BY <3>2, ProductInNat, RateLimiterAssumption
      <3> HIDE DEF spent, brought
      <3>5. spent + Available' <= Capacity + (brought + Rate)
        <4>1. /\ {spent, brought, Available, Available', Capacity, Rate} \subseteq Int
              /\ Available' <= Available + Rate
              /\ spent + Available <= Capacity + brought
          BY <1>3, <1>4, <3>1, <3>4, RateLimiterAssumption
        <4> QED
          BY ONLY <4>1, Slack
      <3> QED
        BY <3>2, <3>3, <3>5 DEF spent
    <2> QED
      BY <1>1, <2>1, <2>2
  <1>6. ClosedStretches'
    <2> SUFFICES ASSUME NEW t \in 0..time + 1, NEW e \in t..(time + 1), e < time + 1
                 PROVE  (withdrawnBefore'[e + 1] - withdrawnBefore'[t]) * Whole
                            <= Capacity + Rate * (e - t)
      BY <1>1 DEF ClosedStretches
    <2>1. t \in 0..time /\ e \in t..time /\ withdrawnBefore'[t] = withdrawnBefore[t]
      BY <1>1
    <2>2. CASE e = time
      <3> DEFINE spent == (total - withdrawnBefore[t]) * Whole
                 brought == Rate * (time - t)
      <3>1. spent + Available <= Capacity + brought
        BY <2>1 DEF OpenStretches
      <3>2. withdrawnBefore'[e + 1] = total
        BY <1>1, <2>2
      <3>3. spent \in Nat /\ brought \in Nat
        BY <1>1, <2>1, ProductInNat, RateLimiterAssumption
      <3> HIDE DEF spent, brought
      <3>4. spent <= Capacity + brought
        BY <1>3, <3>1, <3>3, RateLimiterAssumption
      <3> QED
        BY <2>1, <2>2, <3>2, <3>4 DEF spent, brought
    <2>3. CASE e < time
      <3>1. withdrawnBefore'[e + 1] = withdrawnBefore[e + 1]
        BY <1>1, <2>1, <2>3
      <3> QED
        BY <2>1, <2>3, <3>1 DEF ClosedStretches
    <2> QED
      BY <1>1, <2>1, <2>2, <2>3
  <1> QED
    BY <1>2, <1>5, <1>6

LEMMA RateNextIInv == RateIInv /\ [RateNext]_rateVars => RateIInv'
  <1> SUFFICES ASSUME RateIInv, [RateNext]_rateVars PROVE RateIInv'
    OBVIOUS
  <1>1. CASE Tick
    BY <1>1, TickKeeps
  <1>2. ASSUME NEW s \in Senders, Withdraw(s) PROVE RateIInv'
    BY <1>2, WithdrawKeeps
  <1>3. ASSUME NEW s \in Senders, FallAsleep(s) PROVE RateIInv'
    BY <1>3, FallAsleepKeeps
  <1>4. CASE UNCHANGED rateVars
    BY <1>4 DEF rateVars, RateIInv, RateTypeOK, OpenStretches, ClosedStretches, Available
  <1> QED
    BY <1>1, <1>2, <1>3, <1>4 DEF RateNext

LEMMA StretchesKeepTheRate == RateIInv => RateIsKept
  <1> SUFFICES ASSUME RateIInv, NEW s \in 0..time, NEW e \in s..time
               PROVE  Withdrawn(s, e) * Whole <= Capacity + Rate * (e - s)
    BY DEF RateIsKept
  <1>1. Available \in Nat /\ time \in Nat
    BY AvailableFits DEF RateIInv, RateTypeOK
  <1>2. CASE e = time
    <2> DEFINE spent == (total - withdrawnBefore[s]) * Whole
               brought == Rate * (time - s)
    <2>1. spent + Available <= Capacity + brought
      BY DEF RateIInv, OpenStretches
    <2>2. spent \in Nat /\ brought \in Nat
      BY ProductInNat, RateLimiterAssumption DEF RateIInv, RateTypeOK
    <2> HIDE DEF spent, brought
    <2>3. spent <= Capacity + brought
      BY <1>1, <2>1, <2>2, RateLimiterAssumption
    <2> QED
      BY <1>2, <2>3 DEF Withdrawn, spent, brought
  <1>3. CASE e < time
    BY <1>1, <1>3 DEF RateIInv, ClosedStretches, Withdrawn
  <1> QED
    BY <1>1, <1>2, <1>3

-----------------------------------------------------------------------------
\* The inductive invariant holds in every reachable state.
THEOREM RateInvariance == RateSpec => []RateIInv
  BY RateInitIInv, RateNextIInv, PTL DEF RateSpec

\* Types: the bucket never holds less than nothing or more than the burst.
THEOREM RateTypeCorrect == RateSpec => []RateTypeOK
  BY RateInvariance, PTL DEF RateIInv

\* No stretch of time sees more requests than the burst plus the rate allow,
\* whatever threads contend and however late they wake.
THEOREM RateKept == RateSpec => []RateIsKept
  BY RateInvariance, StretchesKeepTheRate, PTL

-----------------------------------------------------------------------------
(***************************************************************************)
(* Out-of-band confirmation.                                               *)
(***************************************************************************)
(***************************************************************************)
(* A check only polls what it planted, and the count of a plant's token    *)
(* tells of calls for that very plant: the token of a call comes from the  *)
(* payload, or from the host of the collaborator, which no plant is.  The  *)
(* calls are the target's, or the scanner's own where it was redirected.   *)
(***************************************************************************)
CountsAreOwn == \A p \in Plants : byToken[p] > 0 => p \in called \union Redirecting

OastIInv == OastTypeOK /\ CountsAreOwn /\ OnlyCalledIsAccused

LEMMA PlantsArePlants == \A b \in Batches : b \subseteq Plants
  BY OastAssumption

LEMMA TokenOfACall ==
    ASSUME NEW p \in Plants
    PROVE  ExtractToken(p) \intersect Plants \subseteq {p}
  BY OastAssumption DEF ExtractToken

\* A call is counted for its own plant, and for no more than the cap.
LEMMA RecordCounts ==
    ASSUME OastTypeOK, NEW p \in Plants, Record(p)
    PROVE  /\ byToken' \in [Tokens -> 0..MaxPerToken]
           /\ \A q \in Plants : byToken'[q] # byToken[q] => q = p
  <1>1. \A n \in 0..MaxPerToken : n < MaxPerToken => n + 1 \in 0..MaxPerToken
    BY OastAssumption
  <1>2. byToken' \in [Tokens -> 0..MaxPerToken]
    BY <1>1 DEF Record, OastTypeOK
  <1>3. \A q \in Plants : byToken'[q] # byToken[q] => q = p
    BY TokenOfACall DEF Record, OastTypeOK, Tokens
  <1> QED
    BY <1>2, <1>3

LEMMA OastInitIInv == OastInit => OastIInv
  BY OastAssumption DEF OastInit, OastIInv, OastTypeOK, CountsAreOwn, OnlyCalledIsAccused, Tokens

(***************************************************************************)
(* Steps of the running check: what a poll finds recorded was called.      *)
(***************************************************************************)
LEMMA CheckKeeps ==
    ASSUME OastIInv, CheckStep
    PROVE  OastIInv'
  <1> USE DEF OastIInv
  <1>1. ASSUME NEW b \in Batches, BeginCheck(b) PROVE OastIInv'
    BY <1>1 DEF BeginCheck, OastTypeOK, CountsAreOwn, OnlyCalledIsAccused
  <1>2. ASSUME NEW p \in Plants, Plant(p) PROVE OastIInv'
    <2>1. /\ outstanding' \subseteq outstanding /\ reached \subseteq reached'
          /\ reached' \subseteq reached \union {p}
          /\ faults' \in 0..MaxFaults
          /\ UNCHANGED <<client, labelled, left, phase, batch, hits, called>>
      BY <1>2, OastAssumption DEF Plant, Fault, OastTypeOK
    <2>2. (p \in Redirecting /\ Record(p)) \/ UNCHANGED byToken
      BY <1>2 DEF Plant
    <2>3. /\ byToken' \in [Tokens -> 0..MaxPerToken]
          /\ \A q \in Plants : byToken'[q] # byToken[q] => q \in Redirecting
      BY <2>2, RecordCounts DEF OastTypeOK
    <2>4. OastTypeOK'
      BY <2>1, <2>3 DEF OastTypeOK
    <2>5. CountsAreOwn'
      BY <2>1, <2>3 DEF CountsAreOwn
    <2> QED
      BY <2>1, <2>4, <2>5 DEF OnlyCalledIsAccused
  <1>3. ASSUME NEW p \in Plants, PollToken(p) PROVE OastIInv'
    <2>1. hits' \subseteq hits \union (IF byToken[p] > 0 THEN {p} ELSE {})
      BY <1>3 DEF PollToken, Recorded
    <2>2. hits' \subseteq called \union Redirecting
      BY <2>1 DEF CountsAreOwn, OnlyCalledIsAccused
    <2>3. OastTypeOK'
      BY <1>3, <2>1, OastAssumption DEF PollToken, Fault, OastTypeOK
    <2> QED
      BY <1>3, <2>2, <2>3 DEF PollToken, CountsAreOwn, OnlyCalledIsAccused
  <1>4. CASE Planted
    BY <1>4 DEF Planted, OastTypeOK, CountsAreOwn, OnlyCalledIsAccused
  <1>5. CASE CheckEnds
    BY <1>5 DEF CheckEnds, OastTypeOK, CountsAreOwn, OnlyCalledIsAccused
  <1> QED
    BY <1>1, <1>2, <1>3, <1>4, <1>5 DEF CheckStep

(***************************************************************************)
(* Steps of the collaborator.                                              *)
(***************************************************************************)
LEMMA InteractKeeps ==
    ASSUME OastIInv, NEW p \in Plants, Interact(p)
    PROVE  OastIInv'
  <1> USE DEF OastIInv
  <1>1. /\ called' = called \union {p} /\ p \in reached
        /\ UNCHANGED <<client, labelled, left, phase, batch, outstanding, reached, hits, faults>>
    BY DEF Interact
  <1>2. Record(p)
    BY DEF Interact
  <1>3. /\ byToken' \in [Tokens -> 0..MaxPerToken]
        /\ \A q \in Plants : byToken'[q] # byToken[q] => q = p
    BY <1>2, RecordCounts
  <1>4. CountsAreOwn'
    BY <1>1, <1>3 DEF CountsAreOwn
  <1> QED
    BY <1>1, <1>3, <1>4 DEF OastTypeOK, OnlyCalledIsAccused

LEMMA RestartKeeps ==
    ASSUME OastIInv, CollaboratorRestarts
    PROVE  OastIInv'
  BY OastAssumption DEF OastIInv, CollaboratorRestarts, Fault, OastTypeOK, CountsAreOwn,
     OnlyCalledIsAccused, Tokens

LEMMA OastNextIInv == OastIInv /\ [OastNext]_oastVars => OastIInv'
  <1> SUFFICES ASSUME OastIInv, [OastNext]_oastVars PROVE OastIInv'
    OBVIOUS
  <1>1. CASE CheckStep
    BY <1>1, CheckKeeps
  <1>2. CASE \E p \in Plants : Interact(p)
    BY <1>2, InteractKeeps
  <1>3. CASE CollaboratorRestarts
    BY <1>3, RestartKeeps
  <1>4. CASE UNCHANGED oastVars
    BY <1>4 DEF oastVars, OastIInv, OastTypeOK, CountsAreOwn, OnlyCalledIsAccused
  <1> QED
    BY <1>1, <1>2, <1>3, <1>4 DEF OastNext

-----------------------------------------------------------------------------
\* The inductive invariant holds in every reachable state.
THEOREM OastInvariance == OastSpec => []OastIInv
  BY OastInitIInv, OastNextIInv, PTL DEF OastSpec

\* Types: the jobs of a check are plants, and no token counts past its cap.
THEOREM OastTypeCorrect == OastSpec => []OastTypeOK
  BY OastInvariance, PTL DEF OastIInv

\* What a check reports was acted on by the target at that very place, for any
\* overlap of calls, checks and restarts, unless the place redirects and the
\* scanner's client has followed.
THEOREM ConfirmedMeansCalled == OastSpec => []OnlyCalledIsAccused
  BY OastInvariance, PTL DEF OastIInv

-----------------------------------------------------------------------------
(***************************************************************************)
(* The crawler: its queue is the levels of the site, nearest first.        *)
(***************************************************************************)
Depth(n) == queue[n][2]
Waiting == {queue[n][1] : n \in DOMAIN queue}

\* The queue is in the order of depths, which span one level.
Sorted ==
    \A i, j \in DOMAIN queue : i <= j => Depth(i) <= Depth(j) /\ Depth(j) <= Depth(i) + 1

\* A page waits at its distance from the seed.
AtItsDistance ==
    \A n \in DOMAIN queue : /\ queue[n][1] \in Within(Depth(n))
                            /\ queue[n][1] \notin Within(Depth(n) - 1)

\* All pages of the level at the head of the queue have joined it.
LevelIsQueued == queue # << >> => Within(Depth(1)) \subseteq queued

\* A visited page nearer than the depth limit has been followed.
Followed == \A p \in visited \intersect Within(MaxDepth - 1) : Onward(p) \subseteq queued

\* What the queue is to the pages, and the whole invariant.
QueueIsLevels ==
    /\ site \in Sites
    /\ queue \in Seq(Pages \X (0..MaxDepth))
    /\ visited \subseteq queued /\ queued \subseteq Pages
    /\ queued = visited \union Waiting
    /\ Seed \in queued /\ queued \subseteq Within(MaxDepth)
    /\ Sorted
    /\ AtItsDistance
    /\ LevelIsQueued
    /\ Followed

CrawlIInv ==
    /\ CrawlTypeOK
    /\ QueueIsLevels
    /\ IsFiniteSet(urls) /\ IsFiniteSet(js)
    /\ urls = visited \intersect site.up

-----------------------------------------------------------------------------
LEMMA WithinGrows == \A d, e \in Int : d <= e => Within(d) \subseteq Within(e)
<1> SUFFICES ASSUME NEW d \in Int, NEW e \in Int, d <= e PROVE Within(d) \subseteq Within(e)
  OBVIOUS
<1>1. 0..d \subseteq 0..e
  OBVIOUS
<1> QED
  BY <1>1 DEF Within

LEMMA NothingIsNearer == Within(0 - 1) = {}
<1>1. 0..(0 - 1) = {}
  OBVIOUS
<1> QED
  BY <1>1 DEF Within

LEMMA SeedIsNearest == Within(0) = {Seed}
<1>1. 0..0 = {0} /\ 1..0 = {}
  OBVIOUS
<1>2. Seed \in Within(0)
  <2> DEFINE path == [k \in 0..0 |-> Seed]
  <2>1. path \in [0..0 -> Pages] /\ path[0] = Seed
    BY CrawlerAssumption
  <2> HIDE DEF path
  <2> QED
    BY <1>1, <2>1, CrawlerAssumption DEF Within
<1>3. Within(0) \subseteq {Seed}
  BY <1>1 DEF Within
<1> QED
  BY <1>2, <1>3

\* One link more.
LEMMA OneLinkMore ==
    ASSUME NEW d \in Nat, NEW p \in Within(d), NEW q \in Onward(p), q \in Pages
    PROVE  q \in Within(d + 1)
<1>1. PICK n \in 0..d : \E path \in [0..n -> Pages] :
         /\ path[0] = Seed /\ path[n] = p
         /\ \A k \in 1..n : path[k] \in Onward(path[k - 1])
  BY DEF Within
<1>2. PICK path \in [0..n -> Pages] :
         /\ path[0] = Seed /\ path[n] = p
         /\ \A k \in 1..n : path[k] \in Onward(path[k - 1])
  BY <1>1
<1> DEFINE longer == [k \in 0..(n + 1) |-> IF k = n + 1 THEN q ELSE path[k]]
<1>3. n + 1 \in 0..(d + 1) /\ n \in 0..(n + 1) /\ 0 \in 0..(n + 1)
  OBVIOUS
<1>4. longer \in [0..(n + 1) -> Pages]
  OBVIOUS
<1>5. longer[0] = Seed /\ longer[n + 1] = q /\ longer[n] = p
  BY <1>2, <1>3
<1>6. \A k \in 1..(n + 1) : longer[k] \in Onward(longer[k - 1])
  <2> SUFFICES ASSUME NEW k \in 1..(n + 1) PROVE longer[k] \in Onward(longer[k - 1])
    OBVIOUS
  <2>1. CASE k = n + 1
    <3>1. k - 1 = n
      BY <2>1
    <3> HIDE DEF longer
    <3> QED
      BY <1>5, <2>1, <3>1
  <2>2. CASE k \in 1..n
    <3>1. longer[k] = path[k] /\ longer[k - 1] = path[k - 1]
      BY <2>2
    <3> HIDE DEF longer
    <3> QED
      BY <1>2, <2>2, <3>1
  <2> QED
    BY <2>1, <2>2
<1> HIDE DEF longer
<1> QED
  BY <1>3, <1>4, <1>5, <1>6 DEF Within

\* One link less.
LEMMA OneLinkLess ==
    ASSUME NEW d \in Nat, NEW q \in Within(d + 1), q \notin Within(d)
    PROVE  \E p \in Within(d) : q \in Onward(p)
<1>1. PICK n \in 0..(d + 1) : \E path \in [0..n -> Pages] :
         /\ path[0] = Seed /\ path[n] = q
         /\ \A k \in 1..n : path[k] \in Onward(path[k - 1])
  BY DEF Within
<1>2. PICK path \in [0..n -> Pages] :
         /\ path[0] = Seed /\ path[n] = q
         /\ \A k \in 1..n : path[k] \in Onward(path[k - 1])
  BY <1>1
<1>3. q \in Pages
  BY DEF Within
<1>4. n = d + 1
  <2>1. n \notin 0..d
    BY <1>2, <1>3 DEF Within
  <2> QED
    BY <2>1
<1> DEFINE shorter == [k \in 0..d |-> path[k]]
<1>5. shorter \in [0..d -> Pages] /\ shorter[0] = Seed /\ shorter[d] = path[d]
  BY <1>2, <1>4
<1>6. \A k \in 1..d : shorter[k] \in Onward(shorter[k - 1])
  <2> SUFFICES ASSUME NEW k \in 1..d PROVE shorter[k] \in Onward(shorter[k - 1])
    OBVIOUS
  <2>1. shorter[k] = path[k] /\ shorter[k - 1] = path[k - 1] /\ k \in 1..n
    BY <1>4
  <2> HIDE DEF shorter
  <2> QED
    BY <1>2, <2>1
<1>7. path[d] \in Within(d)
  <2>1. path[d] \in Pages /\ d \in 0..d
    BY <1>4
  <2> HIDE DEF shorter
  <2> QED
    BY <1>5, <1>6, <2>1 DEF Within
<1>8. q \in Onward(path[d])
  <2>1. d + 1 \in 1..n /\ (d + 1) - 1 = d
    BY <1>4
  <2> QED
    BY <1>2, <1>4, <2>1
<1> QED
  BY <1>7, <1>8

LEMMA OnwardStays ==
    ASSUME site' = site
    PROVE  (\A d : Within(d)' = Within(d)) /\ (\A p : Onward(p)' = Onward(p))
BY DEF Within, Onward, InScope

LEMMA OnwardIsPages == ASSUME site \in Sites PROVE \A p \in Pages : Onward(p) \subseteq Pages
BY CrawlerAssumption DEF Onward, Site

LEMMA QueueAdvances ==
    ASSUME NEW T, NEW q \in Seq(T), q # << >>, NEW s \in Seq(T)
    PROVE  /\ Tail(q) \o s \in Seq(T)
           /\ Len(q) \in Nat \ {0} /\ Len(s) \in Nat
           /\ Len(Tail(q) \o s) = (Len(q) - 1) + Len(s)
           /\ \A n \in 1..(Len(q) - 1) : (Tail(q) \o s)[n] = q[n + 1]
           /\ \A n \in 1..Len(s) : (Tail(q) \o s)[(Len(q) - 1) + n] = s[n]
OBVIOUS

\* Whatever the visited page adds to the queue: what it leads to, if it is nearer
\* than the depth limit, in any order.
Extends(s, added) ==
    /\ s \in Seq(Pages \X (0..MaxDepth)) /\ added \in SUBSET Pages
    /\ added \subseteq Onward(queue[1][1]) \ queued
    /\ \A n \in 1..Len(s) : s[n][1] \in added /\ s[n][2] = Depth(1) + 1
    /\ \A p \in added : \E n \in 1..Len(s) : s[n][1] = p
    /\ Depth(1) < MaxDepth => Onward(queue[1][1]) \subseteq queued \union added
    /\ queue' = Tail(queue) \o s /\ visited' = visited \union {queue[1][1]}
    /\ queued' = queued \union added /\ site' = site

LEMMA LevelsKeep ==
    ASSUME QueueIsLevels, queue # << >>, NEW s, NEW added, Extends(s, added)
    PROVE  QueueIsLevels'
<1> DEFINE Item == Pages \X (0..MaxDepth)
           url == queue[1][1]
           h == queue[1][2]
           l == Len(queue) - 1
<1>23. s \in Seq(Item) /\ \A n \in 1..Len(s) : s[n][1] \in added /\ s[n][2] = h + 1
  BY DEF Extends, Depth
<1>25. \A p \in added : \E n \in 1..Len(s) : s[n][1] = p
  BY DEF Extends
<1>26. /\ added \in SUBSET Pages /\ added \subseteq Onward(url) \ queued
       /\ h < MaxDepth => Onward(url) \subseteq queued \union added
  BY DEF Extends, Depth
<1>27. visited' = visited \union {url} /\ queued' = queued \union added
  BY DEF Extends
<1>28. site' = site
  BY DEF Extends
<1>24. queue' = Tail(queue) \o s
  BY DEF Extends
<1>1. /\ queue \in Seq(Item) /\ MaxDepth \in Nat /\ site \in Sites
      /\ DOMAIN queue = 1..Len(queue)
  BY CrawlerAssumption DEF QueueIsLevels
<1>2. /\ queue' \in Seq(Item) /\ l \in Nat /\ Len(s) \in Nat /\ Len(queue') = l + Len(s)
      /\ \A n \in 1..l : queue'[n] = queue[n + 1]
      /\ \A n \in 1..Len(s) : queue'[l + n] = s[n]
  <2> HIDE DEF Item
  <2> QED
    BY <1>1, <1>23, <1>24, QueueAdvances
<1>3. DOMAIN queue' = 1..(l + Len(s))
  <2> HIDE DEF Item, l
  <2> QED
    BY <1>2
<1>4. \A n \in DOMAIN queue : queue[n][1] \in Pages /\ queue[n][2] \in 0..MaxDepth
  BY <1>1
<1>5. 1 \in DOMAIN queue /\ url \in Pages /\ h \in 0..MaxDepth
  <2>1. 1 \in DOMAIN queue
    BY <1>1, <1>2
  <2> QED
    BY <1>4, <2>1
<1>6. \A n \in DOMAIN queue' : \/ n \in 1..l /\ n + 1 \in DOMAIN queue /\ queue'[n] = queue[n + 1]
                               \/ \E k \in 1..Len(s) : n = l + k /\ queue'[n] = s[k]
  <2> SUFFICES ASSUME NEW n \in DOMAIN queue'
               PROVE  \/ n \in 1..l /\ n + 1 \in DOMAIN queue /\ queue'[n] = queue[n + 1]
                      \/ \E k \in 1..Len(s) : n = l + k /\ queue'[n] = s[k]
    OBVIOUS
  <2>1. CASE n \in 1..l
    <3>1. queue'[n] = queue[n + 1]
      BY <1>2, <2>1
    <3>2. Len(queue) \in Nat
      BY <1>1
    <3>3. n + 1 \in 1..Len(queue)
      BY <2>1, <3>2
    <3> QED
      BY <1>1, <2>1, <3>1, <3>3
  <2>2. CASE n \notin 1..l
    <3> DEFINE k == n - l
    <3>1. k \in 1..Len(s) /\ n = l + k
      <4> HIDE DEF l
      <4> QED
        BY <1>2, <1>3, <2>2
    <3> HIDE DEF k, l
    <3> QED
      BY <1>2, <3>1
  <2> QED
    BY <2>1, <2>2
<1>7. /\ \A n \in 1..l : n \in DOMAIN queue' /\ n + 1 \in DOMAIN queue
      /\ \A k \in 1..Len(s) : l + k \in DOMAIN queue'
  <2>1. \A n \in 1..l : n + 1 \in DOMAIN queue
    BY <1>1, <1>2
  <2> HIDE DEF l
  <2> QED
    BY <1>2, <1>3, <2>1
<1>8. queue[1] \in Item
  BY <1>1, <1>5
<1> HIDE DEF l, Item
<1>9. /\ Sorted /\ AtItsDistance /\ LevelIsQueued /\ Followed
      /\ visited \subseteq queued /\ queued \subseteq Pages /\ queued = visited \union Waiting
      /\ Seed \in queued /\ queued \subseteq Within(MaxDepth)
  BY DEF QueueIsLevels
<1>10. /\ \A d : Within(d)' = Within(d)
       /\ \A p : Onward(p)' = Onward(p)
  BY <1>28, OnwardStays
<1>11. url \in Within(h) /\ url \notin Within(h - 1) /\ Within(h) \subseteq queued
  BY <1>5, <1>9 DEF AtItsDistance, LevelIsQueued, Depth
<1>12. added # {} => h < MaxDepth
  <2> SUFFICES ASSUME NEW p \in added PROVE h < MaxDepth
    OBVIOUS
  <2>1. PICK n \in 1..Len(s) : s[n][1] = p
    BY <1>25
  <2>2. s[n][2] \in 0..MaxDepth /\ s[n][2] = h + 1
    <3>1. s[n] \in Pages \X (0..MaxDepth)
      BY <1>23 DEF Item
    <3> QED
      BY <1>23, <3>1
  <2> QED
    BY <1>1, <1>5, <2>2
<1>13. added \subseteq Within(h + 1) /\ added \intersect Within(h) = {}
  BY <1>5, <1>9, <1>11, <1>26, OneLinkMore
<1>14. h + 1 <= MaxDepth => Within(h + 1) \subseteq Within(MaxDepth)
  BY <1>1, <1>5, WithinGrows
<1>15. queued' \subseteq Within(MaxDepth)'
  BY <1>1, <1>5, <1>9, <1>10, <1>12, <1>13, <1>14, <1>27
<1>16. Waiting' \union {url} = Waiting \union added
  <2>1. ASSUME NEW p \in Waiting' PROVE p \in Waiting \union added
    <3>1. PICK n \in DOMAIN queue' : p = queue'[n][1]
      BY DEF Waiting
    <3> QED
      BY <1>6, <1>23, <3>1 DEF Waiting
  <2>2. ASSUME NEW p \in Waiting PROVE p \in Waiting' \union {url}
    <3>1. PICK n \in DOMAIN queue : p = queue[n][1]
      BY DEF Waiting
    <3>2. CASE n = 1
      BY <3>1, <3>2
    <3>3. CASE n # 1
      <4>1. n - 1 \in 1..l /\ (n - 1) + 1 = n
        BY <1>1, <3>3 DEF l
      <4>2. queue'[n - 1] = queue[n] /\ n - 1 \in DOMAIN queue'
        BY <1>2, <1>7, <4>1
      <4> QED
        BY <3>1, <4>2 DEF Waiting
    <3> QED
      BY <3>2, <3>3
  <2>3. ASSUME NEW p \in added PROVE p \in Waiting'
    <3>1. PICK n \in 1..Len(s) : s[n][1] = p
      BY <1>25
    <3>2. l + n \in DOMAIN queue' /\ queue'[l + n][1] = p
      BY <1>2, <1>7, <3>1
    <3> QED
      BY <3>2 DEF Waiting
  <2>4. url \in Waiting
    BY <1>5 DEF Waiting
  <2> QED
    BY <2>1, <2>2, <2>3, <2>4
<1>17. queued' = visited' \union Waiting'
  BY <1>9, <1>16, <1>27
<1>18. /\ \A n \in DOMAIN queue' : queue'[n][2] \in Nat /\ queue'[n][2] <= MaxDepth
                                 /\ h <= queue'[n][2] /\ queue'[n][2] <= h + 1
       /\ h \in Nat
  <2>1. \A n \in DOMAIN queue : h <= queue[n][2] /\ queue[n][2] <= h + 1
    BY <1>1, <1>5, <1>9 DEF Sorted, Depth
  <2>2. \A n \in 1..Len(s) : s[n][2] \in 0..MaxDepth /\ s[n][2] = h + 1
    <3>1. \A n \in 1..Len(s) : s[n] \in Pages \X (0..MaxDepth)
      BY <1>23 DEF Item
    <3> QED
      BY <1>23, <3>1
  <2>3. h \in Nat
    BY <1>5
  <2>4. ASSUME NEW n \in DOMAIN queue'
        PROVE  queue'[n][2] \in 0..MaxDepth /\ h <= queue'[n][2] /\ queue'[n][2] <= h + 1
    <3>1. CASE n + 1 \in DOMAIN queue /\ queue'[n] = queue[n + 1]
      BY <1>4, <2>1, <3>1
    <3>2. CASE \E k \in 1..Len(s) : queue'[n] = s[k]
      <4>1. PICK k \in 1..Len(s) : queue'[n] = s[k]
        BY <3>2
      <4>2. queue'[n][2] \in 0..MaxDepth /\ queue'[n][2] = h + 1
        BY <2>2, <4>1
      <4> HIDE DEF h
      <4> QED
        BY <2>3, <4>2
    <3> QED
      BY <1>6, <3>1, <3>2
  <2> HIDE DEF h
  <2> QED
    BY <1>1, <2>3, <2>4
<1>19. Sorted'
  <2> SUFFICES ASSUME NEW i \in DOMAIN queue', NEW j \in DOMAIN queue', i <= j
               PROVE  queue'[i][2] <= queue'[j][2] /\ queue'[j][2] <= queue'[i][2] + 1
    BY DEF Sorted, Depth
  <2>1. CASE i \in 1..l /\ j \in 1..l
    <3>1. /\ queue'[i] = queue[i + 1] /\ i + 1 \in DOMAIN queue
          /\ queue'[j] = queue[j + 1] /\ j + 1 \in DOMAIN queue
      BY <1>2, <1>7, <2>1
    <3>2. i + 1 <= j + 1
      BY <2>1
    <3> QED
      BY <1>9, <3>1, <3>2 DEF Sorted, Depth
  <2>2. CASE j \notin 1..l
    <3>1. PICK k \in 1..Len(s) : queue'[j] = s[k]
      BY <1>6, <2>2
    <3>2. queue'[j][2] = h + 1
      BY <1>23, <3>1
    <3>3. queue'[i][2] \in Nat /\ h <= queue'[i][2] /\ queue'[i][2] <= h + 1 /\ h \in Nat
      BY <1>18
    <3> HIDE DEF h
    <3> QED
      BY <3>2, <3>3
  <2>3. CASE j \in 1..l /\ i \notin 1..l
    BY <1>2, <1>3, <2>3
  <2> QED
    BY <2>1, <2>2, <2>3
<1>20. AtItsDistance'
  <2> SUFFICES ASSUME NEW n \in DOMAIN queue'
               PROVE  /\ queue'[n][1] \in Within(queue'[n][2])
                      /\ queue'[n][1] \notin Within(queue'[n][2] - 1)
    BY <1>10 DEF AtItsDistance, Depth
  <2>1. CASE n + 1 \in DOMAIN queue /\ queue'[n] = queue[n + 1]
    BY <1>9, <2>1 DEF AtItsDistance, Depth
  <2>2. CASE \E k \in 1..Len(s) : queue'[n] = s[k]
    <3>1. queue'[n][1] \in added /\ queue'[n][2] = h + 1
      BY <1>23, <2>2
    <3>2. (h + 1) - 1 = h
      BY <1>18
    <3> QED
      BY <1>13, <3>1, <3>2
  <2> QED
    BY <1>6, <2>1, <2>2
<1>21. Followed'
  <2> SUFFICES ASSUME NEW p \in visited', p \in Within(MaxDepth - 1)
               PROVE  Onward(p) \subseteq queued'
    BY <1>10 DEF Followed
  <2>1. CASE p \in visited
    BY <1>9, <1>27, <2>1 DEF Followed
  <2>2. CASE p = url
    <3>1. h # MaxDepth
      BY <1>11, <2>2
    <3>2. h < MaxDepth
      BY <1>1, <1>5, <3>1
    <3> QED
      BY <1>26, <1>27, <2>2, <3>2
  <2> QED
    BY <1>27, <2>1, <2>2
<1>22. LevelIsQueued'
  <2> SUFFICES ASSUME queue' # << >>, NEW q \in Within(queue'[1][2]) PROVE q \in queued'
    BY <1>10 DEF LevelIsQueued, Depth
  <2>1. 1 \in DOMAIN queue'
    BY <1>2
  <2>2. queue'[1][2] = h \/ queue'[1][2] = h + 1
    <3>1. queue'[1][2] \in Nat /\ h <= queue'[1][2] /\ queue'[1][2] <= h + 1 /\ h \in Nat
      BY <1>18, <2>1
    <3> HIDE DEF h
    <3> QED
      BY <3>1
  <2>3. CASE q \in Within(h)
    BY <1>11, <1>27, <2>3
  <2>4. CASE q \notin Within(h)
    <3>1. queue'[1][2] = h + 1 /\ q \in Within(h + 1)
      BY <2>2, <2>4
    <3>2. PICK p \in Within(h) : q \in Onward(p)
      BY <1>18, <2>4, <3>1, OneLinkLess
    <3>3. p \notin Waiting'
      <4> SUFFICES ASSUME NEW n \in DOMAIN queue', p = queue'[n][1] PROVE FALSE
        BY DEF Waiting
      <4>1. queue'[n][2] = h + 1
        <5>1. n \in Nat /\ 1 <= n
          <6> HIDE DEF h
          <6> QED
            BY <1>2, <1>3
        <5>2. queue'[1][2] <= queue'[n][2]
          <6>1. \A i, j \in DOMAIN queue' : i <= j => queue'[i][2] <= queue'[j][2]
            BY <1>19 DEF Sorted, Depth
          <6> QED
            BY <2>1, <5>1, <6>1
        <5>3. queue'[n][2] \in Nat /\ queue'[n][2] <= h + 1 /\ h \in Nat
          BY <1>18
        <5> HIDE DEF h
        <5> QED
          BY <3>1, <5>2, <5>3
      <4>2. queue'[n][1] \notin Within(queue'[n][2] - 1)
        BY <1>10, <1>20 DEF AtItsDistance, Depth
      <4>3. queue'[n][2] - 1 = h
        <5>1. h \in Nat
          BY <1>18
        <5> HIDE DEF h
        <5> QED
          BY <4>1, <5>1
      <4> QED
        BY <3>2, <4>2, <4>3
    <3>4. p \in visited'
      BY <1>11, <1>17, <1>27, <3>2, <3>3
    <3>5. p \in Within(MaxDepth - 1)
      <4>1. h + 1 <= MaxDepth
        BY <1>18, <2>1, <3>1
      <4>2. h <= MaxDepth - 1
        BY <1>1, <1>18, <4>1
      <4> HIDE DEF h
      <4> QED
        BY <1>1, <1>18, <3>2, <4>2, WithinGrows
    <3> QED
      BY <1>10, <1>21, <3>2, <3>4, <3>5 DEF Followed
  <2> QED
    BY <2>3, <2>4
<1> QED
  BY <1>1, <1>2, <1>9, <1>26, <1>27, <1>28, <1>15, <1>17, <1>19, <1>20, <1>21, <1>22, OnwardIsPages DEF QueueIsLevels, Item

\* SetToSeqs: any order of a finite set, each member once.
LEMMA OrdersAreComplete ==
    ASSUME NEW S, IsFiniteSet(S), NEW order \in SetToSeqs(S)
    PROVE  /\ order \in [1..Cardinality(S) -> S] /\ Cardinality(S) \in Nat
           /\ \A x \in S : \E n \in 1..Cardinality(S) : order[n] = x
<1>1. Cardinality(S) \in Nat
  BY FS_CardinalityType
<1>2. /\ order \in [1..Cardinality(S) -> S]
      /\ \A i, j \in 1..Cardinality(S) : i # j => order[i] # order[j]
  BY DEF SetToSeqs
<1>3. order \in Injection(1..Cardinality(S), S)
  BY <1>2 DEF Injection, IsInjective
<1>4. Cardinality(1..Cardinality(S)) = Cardinality(S)
  BY <1>1, FS_Interval
<1>5. order \in Surjection(1..Cardinality(S), S)
  BY <1>3, <1>4, FS_Injection
<1> QED
  BY <1>1, <1>2, <1>5 DEF Surjection

LEMMA LeastOfTwo == \A a, b \in Nat : Min({a, b}) <= a
<1> SUFFICES ASSUME NEW a \in Nat, NEW b \in Nat PROVE Min({a, b}) <= a
  OBVIOUS
<1>1. \E x \in {a, b} : \A y \in {a, b} : x <= y
  <2>1. CASE a <= b
    BY <2>1
  <2>2. CASE ~(a <= b)
    BY <2>2
  <2> QED
    BY <2>1, <2>2
<1>2. \A y \in {a, b} : Min({a, b}) <= y
  BY <1>1 DEF Min
<1> QED
  BY <1>2

\* The scripts fetched are finitely many more, and within the limit.
LEMMA ScriptsKeep ==
    ASSUME CrawlIInv, NEW url \in Pages, NEW S \in NewScripts(url)
    PROVE  /\ js \union S \subseteq Scripts
           /\ IsFiniteSet(js \union S) /\ Cardinality(js \union S) <= MaxJs
<1> DEFINE fresh == site.scripts[url] \ js
<1>1. /\ site \in Sites /\ js \subseteq Scripts /\ IsFiniteSet(js) /\ Cardinality(js) <= MaxJs
  BY DEF CrawlIInv, QueueIsLevels, CrawlTypeOK
<1>2. site.scripts[url] \subseteq Scripts /\ IsFiniteSet(site.scripts[url]) /\ MaxJs \in Nat
  <2>1. site \in Site
    BY <1>1, CrawlerAssumption
  <2>2. site.scripts[url] \subseteq Scripts
    BY <2>1 DEF Site
  <2> QED
    BY <1>1, <2>2, CrawlerAssumption
<1>3. /\ S \subseteq fresh
      /\ Cardinality(S) = Min({MaxJs - Cardinality(js), Cardinality(fresh)})
  BY DEF NewScripts
<1>4. IsFiniteSet(fresh) /\ Cardinality(fresh) \in Nat
  BY <1>2, FS_Difference, FS_CardinalityType
<1> HIDE DEF fresh
<1>5. IsFiniteSet(S) /\ Cardinality(S) \in Nat /\ Cardinality(js) \in Nat
  BY <1>1, <1>3, <1>4, FS_Subset, FS_CardinalityType
<1>6. Cardinality(S) <= MaxJs - Cardinality(js)
  BY <1>1, <1>2, <1>3, <1>4, <1>5, LeastOfTwo
<1>7. /\ IsFiniteSet(js \union S)
      /\ Cardinality(js \union S) = Cardinality(js) + Cardinality(S) - Cardinality(js \intersect S)
      /\ Cardinality(js \intersect S) \in Nat
  BY <1>1, <1>5, FS_Union, FS_Intersection, FS_CardinalityType
<1>8. js \union S \subseteq Scripts
  BY <1>1, <1>2, <1>3 DEF fresh
<1> QED
  BY <1>2, <1>5, <1>6, <1>7, <1>8

\* A page that answers is one more.
LEMMA OnePageMore ==
    ASSUME CrawlIInv, Crawling, NEW url
    PROVE  IsFiniteSet(urls \union {url}) /\ Cardinality(urls \union {url}) <= MaxPages
<1>1. IsFiniteSet(urls) /\ Cardinality(urls) \in Nat /\ Cardinality(urls) < MaxPages
  BY FS_CardinalityType DEF CrawlIInv, Crawling
<1>2. IsFiniteSet(urls \union {url}) /\ Cardinality(urls \union {url}) <= Cardinality(urls) + 1
  <2>1. Cardinality(urls \union {url}) = IF url \in urls THEN Cardinality(urls)
                                         ELSE Cardinality(urls) + 1
    BY <1>1, FS_AddElement
  <2>2. IsFiniteSet(urls \union {url})
    BY <1>1, FS_AddElement
  <2> QED
    BY <1>1, <2>1, <2>2
<1>3. MaxPages \in Nat /\ Cardinality(urls \union {url}) \in Nat
  BY <1>2, FS_CardinalityType, CrawlerAssumption
<1> QED
  BY <1>1, <1>2, <1>3

LEMMA CrawlInitIInv == CrawlInit => CrawlIInv
<1> SUFFICES ASSUME CrawlInit PROVE CrawlIInv
  OBVIOUS
<1>1. /\ site \in Sites /\ queue = << <<Seed, 0>> >> /\ visited = {} /\ queued = {Seed}
      /\ urls = {} /\ js = {} /\ Seed \in Pages /\ {MaxPages, MaxDepth, MaxJs} \subseteq Nat
      /\ site \in Site
  BY CrawlerAssumption DEF CrawlInit
<1>2. expanded \in BOOLEAN
  BY Zenon DEF CrawlInit
<1>3. /\ queue \in Seq(Pages \X (0..MaxDepth)) /\ DOMAIN queue = {1}
      /\ queue[1][1] = Seed /\ queue[1][2] = 0
  <2>1. <<Seed, 0>> \in Pages \X (0..MaxDepth)
    BY <1>1
  <2> QED
    BY <1>1, <2>1
<1>4. Waiting = {Seed}
  BY <1>3 DEF Waiting
<1>5. Sorted
  BY <1>3 DEF Sorted, Depth
<1>6. AtItsDistance /\ LevelIsQueued
  BY <1>1, <1>3, SeedIsNearest, NothingIsNearer DEF AtItsDistance, LevelIsQueued, Depth
<1>7. queued \subseteq Within(MaxDepth)
  BY <1>1, SeedIsNearest, WithinGrows
<1>8. CrawlTypeOK /\ IsFiniteSet(urls) /\ IsFiniteSet(js)
  BY <1>1, <1>2, <1>3, FS_EmptySet DEF CrawlTypeOK
<1> QED
  BY <1>1, <1>3, <1>4, <1>5, <1>6, <1>7, <1>8 DEF CrawlIInv, QueueIsLevels, Followed

LEMMA VisitKeeps == CrawlIInv /\ Visit => CrawlIInv'
<1> SUFFICES ASSUME CrawlIInv, Visit PROVE CrawlIInv'
  OBVIOUS
<1> DEFINE Item == Pages \X (0..MaxDepth)
           url == queue[1][1]
           depth == queue[1][2]
           new == NewLinks(url, depth)
<1>1. /\ CrawlTypeOK /\ QueueIsLevels /\ IsFiniteSet(urls) /\ IsFiniteSet(js)
      /\ urls = visited \intersect site.up
  BY DEF CrawlIInv
<1>2. /\ queue \in Seq(Item) /\ queue # << >> /\ site \in Sites /\ site \in Site
      /\ MaxDepth \in Nat
  BY <1>1, CrawlerAssumption DEF Visit, Crawling, QueueIsLevels
<1>3. Head(queue) = queue[1] /\ queue[1] \in Item
  BY <1>2
<1>4. url \in Pages /\ depth \in 0..MaxDepth
  BY <1>3
<1>5. visited' = visited \union {url} /\ site' = site /\ Crawling
  BY <1>3 DEF Visit
<1>6. /\ urls' = IF url \in site.up THEN urls \union {url} ELSE urls
      /\ expanded' \in BOOLEAN
  <2>1. CASE url \in site.up
    BY <1>3, <2>1 DEF Visit
  <2>2. CASE url \notin site.up
    BY <1>1, <1>3, <2>2, Zenon DEF Visit, CrawlTypeOK
  <2> QED
    BY <2>1, <2>2
<1>7. /\ IsFiniteSet(urls') /\ Cardinality(urls') <= MaxPages
      /\ urls' = visited' \intersect site'.up
  <2>1. CASE url \in site.up
    BY <1>1, <1>5, <1>6, <2>1, OnePageMore
  <2>2. CASE url \notin site.up
    BY <1>1, <1>5, <1>6, <2>2 DEF CrawlTypeOK
  <2> QED
    BY <2>1, <2>2
<1>8. ASSUME QueueIsLevels', js' \subseteq Scripts, IsFiniteSet(js'), Cardinality(js') <= MaxJs
      PROVE  CrawlIInv'
  <2>1. CrawlTypeOK'
    BY <1>2, <1>5, <1>6, <1>7, <1>8 DEF CrawlTypeOK, QueueIsLevels
  <2> QED
    BY <1>7, <1>8, <2>1 DEF CrawlIInv
<1>9. CASE url \notin site.up \intersect site.html
  <2>1. queue' = Tail(queue) /\ queued' = queued /\ js' = js
    BY <1>3, <1>9 DEF Visit
  <2>2. Onward(url) = {}
    BY <1>9 DEF Onward
  <2>3. Extends(<< >>, {})
    <3>1. Tail(queue) \o << >> = Tail(queue)
      BY <1>2
    <3> QED
      BY <1>5, <2>1, <2>2, <3>1 DEF Extends
  <2>4. QueueIsLevels'
    BY <1>1, <1>2, <2>3, LevelsKeep
  <2> QED
    BY <1>1, <1>8, <2>1, <2>4 DEF CrawlTypeOK
<1>10. CASE url \in site.up \intersect site.html
  <2>1. /\ queued' = queued \union new
        /\ \E order \in SetToSeqs(new) :
             queue' = Tail(queue) \o [i \in DOMAIN order |-> <<order[i], depth + 1>>]
        /\ \E S \in NewScripts(url) : js' = js \union S
    BY <1>3, <1>10 DEF Visit
  <2>2. PICK order \in SetToSeqs(new) :
             queue' = Tail(queue) \o [i \in DOMAIN order |-> <<order[i], depth + 1>>]
    BY <2>1
  <2>3. PICK S \in NewScripts(url) : js' = js \union S
    BY <2>1
  <2>4. new = IF depth < MaxDepth THEN Onward(url) \ queued ELSE {}
    BY <1>10 DEF NewLinks, Onward
  <2>5. IsFiniteSet(new) /\ new \subseteq Pages
    <3>1. Onward(url) = site.links[url] \intersect InScope(TRUE)
      BY <1>10 DEF Onward
    <3>2. new \subseteq site.links[url]
      BY <2>4, <3>1
    <3>3. IsFiniteSet(site.links[url]) /\ site.links[url] \subseteq Pages
      BY <1>2, <1>4, CrawlerAssumption DEF Site
    <3> QED
      BY <3>2, <3>3, FS_Subset
  <2> DEFINE size == Cardinality(new)
             s == [i \in DOMAIN order |-> <<order[i], depth + 1>>]
  <2> HIDE DEF new
  <2>6. /\ order \in [1..size -> new] /\ size \in Nat
        /\ \A x \in new : \E n \in 1..size : order[n] = x
    BY <2>5, OrdersAreComplete
  <2> HIDE DEF size
  <2>7. s = [i \in 1..size |-> <<order[i], depth + 1>>]
    BY <2>6
  <2>8. new # {} => depth + 1 \in 0..MaxDepth
    BY <1>2, <1>4, <2>4
  <2>9. s \in Seq(Item) /\ Len(s) = size /\ \A n \in 1..size : s[n] = <<order[n], depth + 1>>
    <3>1. \A i \in 1..size : <<order[i], depth + 1>> \in Item
      BY <2>5, <2>6, <2>8
    <3> HIDE DEF Item, s
    <3>2. s \in [1..size -> Item]
      BY <2>7, <3>1
    <3>3. size \in Nat
      BY <2>6
    <3>4. s \in Seq(Item) /\ Len(s) = size
      BY <3>2, <3>3
    <3>5. \A n \in 1..size : s[n] = <<order[n], depth + 1>>
      BY <2>7
    <3> QED
      BY <3>4, <3>5
  <2> HIDE DEF s
  <2>10. Extends(s, new)
    <3>1. new \subseteq Onward(url) \ queued
      BY <2>4
    <3>2. depth < MaxDepth => Onward(url) \subseteq queued \union new
      BY <2>4
    <3>3. \A n \in 1..Len(s) : s[n][1] \in new /\ s[n][2] = depth + 1
      BY <2>6, <2>9
    <3>4. \A p \in new : \E n \in 1..Len(s) : s[n][1] = p
      <4> SUFFICES ASSUME NEW p \in new PROVE \E n \in 1..Len(s) : s[n][1] = p
        OBVIOUS
      <4>1. PICK n \in 1..size : order[n] = p
        BY <2>6
      <4> QED
        BY <2>9, <4>1
    <3>5. queue' = Tail(queue) \o s
      BY <2>2 DEF s
    <3>6. s \in Seq(Pages \X (0..MaxDepth))
      BY <2>9
    <3>7. queued' = queued \union new /\ new \in SUBSET Pages
      BY <2>1, <2>5
    <3> QED
      BY <1>5, <3>1, <3>2, <3>3, <3>4, <3>5, <3>6, <3>7 DEF Extends, Depth
  <2>11. QueueIsLevels'
    BY <1>1, <1>2, <2>10, LevelsKeep
  <2>12. /\ js \union S \subseteq Scripts
         /\ IsFiniteSet(js \union S) /\ Cardinality(js \union S) <= MaxJs
    BY <1>4, ScriptsKeep
  <2> QED
    BY <1>8, <2>3, <2>11, <2>12
<1> QED
  BY <1>9, <1>10

LEMMA CrawlNextIInv == CrawlIInv /\ [CrawlNext]_crawlVars => CrawlIInv'
<1>1. CrawlIInv /\ UNCHANGED crawlVars => CrawlIInv'
  <2> SUFFICES ASSUME CrawlIInv, UNCHANGED crawlVars PROVE CrawlIInv'
    OBVIOUS
  <2>1. /\ site' = site /\ queue' = queue /\ visited' = visited /\ queued' = queued
        /\ expanded' = expanded /\ urls' = urls /\ js' = js
    BY DEF crawlVars
  <2>2. CrawlTypeOK'
    BY <2>1 DEF CrawlIInv, CrawlTypeOK
  <2>3. Waiting' = Waiting /\ Sorted'
    BY <2>1 DEF Waiting, Sorted, Depth, CrawlIInv, QueueIsLevels
  <2>4. \A d : Within(d)' = Within(d)
    BY <2>1, OnwardStays
  <2>5. \A p : Onward(p)' = Onward(p)
    BY <2>1, OnwardStays
  <2>6. AtItsDistance' /\ LevelIsQueued' /\ Followed'
    BY <2>1, <2>4, <2>5 DEF AtItsDistance, LevelIsQueued, Followed, Depth, CrawlIInv, QueueIsLevels
  <2> QED
    BY <2>1, <2>2, <2>3, <2>4, <2>6 DEF CrawlIInv, QueueIsLevels
<1> QED
  BY <1>1, VisitKeeps DEF CrawlNext

\* When no page waits any more, every page within the limit has been visited: of
\* those that have not, the nearest to the seed would have been followed to.
LEMMA NothingIsMissed ==
    ASSUME CrawlIInv, queue = << >>
    PROVE  Within(MaxDepth) \subseteq visited
<1> DEFINE Missing == {d \in 0..MaxDepth : ~(Within(d) \subseteq visited)}
           R == OpToRel(<, Nat)
<1>1. QueueIsLevels /\ MaxDepth \in Nat
  BY CrawlerAssumption DEF CrawlIInv
<1>2. queued = visited
  BY <1>1 DEF QueueIsLevels, Waiting
<1>3. ASSUME Missing # {} PROVE FALSE
  <2>1. IsWellFoundedOn(R, Nat)
    BY NatLessThanWellFounded, Zenon
  <2>2. PICK d \in Missing : \A e \in Missing : ~(<<e, d>> \in R)
    <3>1. Missing \subseteq Nat
      BY <1>1
    <3> HIDE DEF R, Missing
    <3> QED
      BY <1>3, <2>1, <3>1, WFMin
  <2>3. d \in Nat /\ d <= MaxDepth
    BY <1>1
  <2>4. PICK q \in Within(d) : q \notin visited
    OBVIOUS
  <2>5. d # 0
    BY <1>1, <1>2, <2>4, SeedIsNearest DEF QueueIsLevels
  <2>6. d - 1 \in Nat /\ (d - 1) + 1 = d /\ d - 1 <= MaxDepth - 1 /\ d - 1 \in 0..MaxDepth
    BY <1>1, <2>3, <2>5
  <2>7. <<d - 1, d>> \in R
    BY <2>3, <2>6 DEF OpToRel
  <2>8. Within(d - 1) \subseteq visited
    BY <2>2, <2>6, <2>7
  <2>9. PICK p \in Within(d - 1) : q \in Onward(p)
    BY <2>4, <2>6, <2>8, OneLinkLess
  <2>10. p \in Within(MaxDepth - 1)
    BY <1>1, <2>6, WithinGrows
  <2>11. q \in queued
    BY <1>1, <2>8, <2>9, <2>10 DEF QueueIsLevels, Followed
  <2> QED
    BY <1>2, <2>4, <2>11
<1> QED
  BY <1>1, <1>3

LEMMA LevelsCoverReach == CrawlIInv => CrawlCoversReach
<1> SUFFICES ASSUME CrawlIInv, ~Crawling PROVE /\ urls \subseteq Within(MaxDepth) \intersect site.up
                                               /\ Cardinality(urls) < MaxPages =>
                                                    urls = Within(MaxDepth) \intersect site.up
  BY DEF CrawlCoversReach
<1>1. urls = visited \intersect site.up /\ visited \subseteq Within(MaxDepth)
  BY DEF CrawlIInv, QueueIsLevels
<1>2. ASSUME Cardinality(urls) < MaxPages PROVE Within(MaxDepth) \subseteq visited
  <2>1. queue = << >>
    BY <1>2 DEF Crawling
  <2> QED
    BY <2>1, NothingIsMissed
<1> QED
  BY <1>1, <1>2

\* Every reachable state of a crawl satisfies the invariant (Crawler.crawl).
THEOREM CrawlInvariance == CrawlSpec => []CrawlIInv
BY CrawlInitIInv, CrawlNextIInv, PTL DEF CrawlSpec

\* The crawl keeps its types and its limits of pages and scripts.
THEOREM CrawlTypeCorrect == CrawlSpec => []CrawlTypeOK
<1>1. CrawlIInv => CrawlTypeOK
  BY DEF CrawlIInv
<1> QED
  BY <1>1, CrawlInvariance, PTL

\* A crawl that ends below its page limit has visited exactly the pages that
\* answer within the depth limit, whatever the site and the order of its links.
THEOREM CrawlCoversAll == CrawlSpec => []CrawlCoversReach
BY CrawlInvariance, LevelsCoverReach, PTL

-----------------------------------------------------------------------------
(***************************************************************************)
(* The fuzzer.                                                             *)
(***************************************************************************)
\* While a point is tested its baseline is its plain answer, or none, and
\* what it is accused of is what its behaviour and that baseline show.
PointIsJudged ==
    /\ pending # {} => point \in 1..Tried
    /\ point \in 1..Tried => base \in {target[point].answer["plain"], NoAnswer}
    /\ \A f \in findings : f[1] = point => f[2] \in Hits(target[point], base)

FuzzIInv == FuzzTypeOK /\ PointIsJudged

LEMMA PointsTried == Tried \in Nat /\ \A n \in 1..Tried : n \in 1..NPoints
BY FuzzerAssumption DEF Tried

LEMMA BaselineIsAnAnswer ==
    ASSUME NEW t \in Targets, NEW b \in {t.answer["plain"], NoAnswer}
    PROVE  b.status \in Nat
BY FuzzerAssumption DEF Kinds, NoAnswer

LEMMA FuzzInitIInv == FuzzInit => FuzzIInv
BY PointsTried DEF FuzzInit, FuzzIInv, FuzzTypeOK, PointIsJudged, NoAnswer

LEMMA NextPointKeeps == FuzzIInv /\ NextPoint => FuzzIInv'
<1> SUFFICES ASSUME FuzzIInv, NextPoint PROVE FuzzIInv'
  OBVIOUS
<1> USE PointsTried DEF FuzzIInv, NextPoint
<1>1. point' \in 1..Tried /\ point' = point + 1 /\ point \in Nat /\ target[point'] \in Targets
  BY DEF FuzzTypeOK
<1>2. base' \in {target[point'].answer["plain"], NoAnswer}
  BY <1>1
<1>3. FuzzTypeOK'
  <2>1. base'.status \in Nat
    BY <1>1, <1>2, BaselineIsAnAnswer
  <2>2. findings \subseteq (1..point') \X Enabled
    BY <1>1 DEF FuzzTypeOK
  <2> QED
    BY <1>1, <2>1, <2>2 DEF FuzzTypeOK
<1>4. \A f \in findings : f[1] # point'
  BY <1>1 DEF FuzzTypeOK
<1> QED
  BY <1>1, <1>2, <1>3, <1>4 DEF PointIsJudged

LEMMA ProbeKeeps == ASSUME FuzzIInv, NEW d \in Enabled, Probe(d) PROVE FuzzIInv'
<1> USE DEF FuzzIInv
<1>1. /\ UNCHANGED <<target, point, base>>
      /\ d \in pending /\ pending' = pending \ {d}
      /\ \/ findings' = findings
         \/ findings' = findings \union {<<point, d>>} /\ d \in Hits(target[point], base)
  <2>1. CASE d \in Hits(target[point], base)
    BY <2>1 DEF Probe
  <2>2. CASE d \notin Hits(target[point], base)
    BY <2>2 DEF Probe
  <2> QED
    BY <2>1, <2>2
<1>2. point \in 1..Tried /\ point \in Nat
  BY <1>1, PointsTried DEF PointIsJudged, FuzzTypeOK
<1>3. sent' \in Nat
  BY FuzzerAssumption DEF Probe, FuzzTypeOK
<1>4. FuzzTypeOK'
  BY <1>1, <1>2, <1>3 DEF FuzzTypeOK
<1>5. PointIsJudged'
  BY <1>1, <1>2 DEF PointIsJudged
<1> QED
  BY <1>4, <1>5

LEMMA FuzzNextIInv == FuzzIInv /\ [FuzzNext]_fuzzVars => FuzzIInv'
<1> SUFFICES ASSUME FuzzIInv, [FuzzNext]_fuzzVars PROVE FuzzIInv'
  OBVIOUS
<1>1. CASE UNCHANGED fuzzVars
  BY <1>1 DEF fuzzVars, FuzzIInv, FuzzTypeOK, PointIsJudged
<1> QED
  BY <1>1, NextPointKeeps, ProbeKeeps DEF FuzzNext

(***************************************************************************)
(* An answer is similar to itself at any threshold, so a point that        *)
(* answers everything alike gives no detector a difference to see.         *)
(***************************************************************************)
LEMMA SimilarToItself ==
    ASSUME NEW a, a.length \in Nat, NEW h \in 0..100
    PROVE  Similar(a, a, h)
BY DEF Similar

LEMMA NoDifferenceNoHit ==
    ASSUME NEW t \in Targets, Indifferent(t), NEW d \in Comparing, d \in Hits(t, t.answer["plain"])
    PROVE  FALSE
<1> DEFINE b == t.answer["plain"]
<1>1. \A k \in Kinds : t.answer[k] = b
  BY DEF Indifferent
<1>2. b.length \in Nat
  BY FuzzerAssumption DEF Kinds
<1>3. /\ t.answer["syntax"] = b /\ t.answer["true"] = b /\ t.answer["false"] = b
      /\ t.answer["sleep"] = b /\ t.answer["nosleep"] = b /\ t.answer["eval"] = b
  BY <1>1 DEF Kinds
<1> HIDE DEF b
<1>4. ~SqliError(t, b)
  BY <1>3 DEF SqliError, Shows
<1>5. ~SqliBoolean(t, b)
  BY <1>2, <1>3, SimilarToItself DEF SqliBoolean, BooleanBlind
<1>6. ~SqliTime(t)
  BY <1>3 DEF SqliTime, TimeBlind
<1>7. ~CodeInjection(t, b)
  BY <1>3 DEF CodeInjection, Shows
<1>8. CASE d = "sqli-error"
  BY <1>4, <1>8 DEF Hits, b
<1>9. CASE d = "sqli-boolean"
  BY <1>5, <1>9 DEF Hits, b
<1>10. CASE d = "sqli-time"
  BY <1>6, <1>10 DEF Hits, b
<1>11. CASE d = "code-injection"
  BY <1>7, <1>11 DEF Hits, b
<1> QED
  BY <1>8, <1>9, <1>10, <1>11 DEF Comparing

(* The fuzzer's invariant holds throughout, for any points, applications
   and lost probes. *)
THEOREM FuzzInvariance == FuzzSpec => []FuzzIInv
BY FuzzInitIInv, FuzzNextIInv, PTL DEF FuzzSpec

(* The fuzzer's variables keep their types. *)
THEOREM FuzzTypeCorrect == FuzzSpec => []FuzzTypeOK
BY FuzzInvariance, PTL DEF FuzzIInv

(* A point that answers every payload as it answers its baseline is never
   accused by a comparison of the two, whichever probes are lost. *)
THEOREM ComparingIsFair == FuzzSpec => []IndifferentPointIsClean
<1>1. FuzzIInv => IndifferentPointIsClean
  <2> SUFFICES ASSUME FuzzIInv, NEW f \in findings, Indifferent(target[f[1]]),
                      f[2] \in Comparing, f[1] = point
               PROVE  base = NoAnswer
    BY DEF IndifferentPointIsClean
  <2>1. point \in 1..Tried /\ target[point] \in Targets
    BY PointsTried DEF FuzzIInv, FuzzTypeOK
  <2>2. f[2] \in Hits(target[point], base) /\ base \in {target[point].answer["plain"], NoAnswer}
    BY <2>1 DEF FuzzIInv, PointIsJudged
  <2> QED
    BY <2>1, <2>2, NoDifferenceNoHit
<1> QED
  BY FuzzInvariance, <1>1, PTL

-----------------------------------------------------------------------------
(***************************************************************************)
(* The authorization checks.                                               *)
(***************************************************************************)
\* Whoever is admin of the application has been one.
PrivilegedAreAdmins == \A i \in Identities : roleOf[i] = "admin" => i \in privileged

\* MassAssignmentCheck is at work only in its turn, and confirms only a write
\* that was not refused.
WriteInTurn ==
    /\ step # "idle" => Turn("mass-assignment") /\ active
    /\ step = "confirm" => app.write # "rejected"

\* Between its reads the role stays what the first one brought, unless the
\* application takes the write or others change it.
BaselineStands ==
    step # "idle" /\ baseline # "unknown" /\ app.write # "bound" /\ ~meddled =>
        roleOf[Primary] = baseline

\* An answer that shows the role echoes what was written, or what was stored.
ReplyStands ==
    step = "confirm" /\ reply = "admin" => app.echo = "input" \/ Primary \in privileged

AuthzIInv ==
    /\ AuthzTypeOK
    /\ PrivilegedAreAdmins
    /\ WriteInTurn
    /\ BaselineStands
    /\ ReplyStands
    /\ AccusationsAreEarned

\* The accusations of one check that a step makes: all of that check, by somebody
\* the application knows or by nobody, and each of them earned.
Earned(check, found) ==
    \A f \in found : /\ f.check = check
                     /\ f.by \in Identities \union {Nobody}
                     /\ Evidenced(f)

LEMMA AccusationShape ==
    ASSUME NEW c, NEW by, NEW at
    PROVE  /\ Accusation(c, by, at).check = c
           /\ Accusation(c, by, at).by = by
           /\ Accusation(c, by, at).at = at
BY DEF Accusation

LEMMA OrderOfChecks ==
    /\ Len(Order) = 8
    /\ Order[8] = "mass-assignment"
    /\ \A n \in 1..8 : Order[n] \in {Order[i] : i \in DOMAIN Order}
    /\ \A n \in 1..7 : Order[n] # "mass-assignment"
BY DEF Order

(***************************************************************************)
(* What each check concludes is earned, whichever probes are lost.         *)
(***************************************************************************)
LEMMA BolaEarned ==
    ASSUME PrivilegedAreAdmins, NEW lost
    PROVE  Earned("bola-idor", BolaIdor(lost))
<1> SUFFICES ASSUME NEW f \in BolaIdor(lost)
             PROVE  /\ f.check = "bola-idor" /\ f.by \in Identities \union {Nobody}
                    /\ Evidenced(f)
  BY DEF Earned
<1>1. PICK i \in Identities, o \in Objects, e \in Endpoints :
          /\ o \notin Owned[i]
          /\ LooksLikeData(MayRead(i, o, e))
          /\ f = Accusation("bola-idor", i, e)
  BY DEF BolaIdor, BolaProbes
<1>2. f.check = "bola-idor" /\ f.by = i /\ f.at = e
  BY <1>1, AccusationShape
<1>3. \/ e \notin app.enforces \/ e \in app.public
      \/ i \in privileged \/ app.refusal = "json"
  BY <1>1 DEF LooksLikeData, MayRead, PrivilegedAreAdmins
<1>4. Evidenced(f)
  BY <1>2, <1>3 DEF Evidenced
<1> QED
  BY <1>2, <1>4

LEMMA TenantEarned ==
    ASSUME PrivilegedAreAdmins, NEW lost
    PROVE  Earned("tenant-confusion", TenantConfusion(lost))
<1> SUFFICES ASSUME NEW f \in TenantConfusion(lost)
             PROVE  /\ f.check = "tenant-confusion" /\ f.by \in Identities \union {Nobody}
                    /\ Evidenced(f)
  BY DEF Earned
<1>1. PICK i \in Identities :
          /\ ~app.scoped \/ roleOf[i] = "admin"
          /\ f = Accusation("tenant-confusion", i, "param")
  BY DEF TenantConfusion, TenantProbes
<1>2. f.check = "tenant-confusion" /\ f.by = i
  BY <1>1, AccusationShape
<1>3. ~app.scoped \/ i \in privileged
  BY <1>1 DEF PrivilegedAreAdmins
<1>4. Evidenced(f)
  BY <1>2, <1>3 DEF Evidenced
<1> QED
  BY <1>2, <1>4

LEMMA UnauthEarned ==
    ASSUME NEW lost
    PROVE  Earned("unauth-idor", UnauthenticatedIdor(lost))
<1> SUFFICES ASSUME NEW f \in UnauthenticatedIdor(lost)
             PROVE  /\ f.check = "unauth-idor" /\ f.by \in Identities \union {Nobody}
                    /\ Evidenced(f)
  BY DEF Earned
<1>1. PICK e \in Endpoints :
          /\ e \notin app.enforces \/ e \in app.public
          /\ f = Accusation("unauth-idor", Nobody, e)
  BY DEF UnauthenticatedIdor
<1>2. f.check = "unauth-idor" /\ f.by = Nobody /\ f.at = e
  BY <1>1, AccusationShape
<1>3. Evidenced(f)
  BY <1>1, <1>2 DEF Evidenced
<1> QED
  BY <1>2, <1>3

LEMMA BflaEarned ==
    ASSUME PrivilegedAreAdmins, NEW lost, NEW found \in BflaVerdicts(lost)
    PROVE  Earned("bfla", found)
<1> SUFFICES ASSUME NEW f \in found
             PROVE  /\ f.check = "bfla" /\ f.by \in Identities \union {Nobody}
                    /\ Evidenced(f)
  BY DEF Earned
<1>1. PICK at \in Functions, c \in Identities \union {Nobody} : f = Accusation("bfla", c, at)
  BY DEF BflaVerdicts
<1>2. f.check = "bfla" /\ f.by = c /\ f.at = at
  BY <1>1, AccusationShape
<1>3. f.by \in Through(f.at, lost)
  BY DEF BflaVerdicts
<1>4. at \notin app.guards \/ c \in privileged \/ app.refusal \in {"words", "json"}
  BY <1>2, <1>3 DEF Through, LooksPrivileged, Opens, PrivilegedAreAdmins
<1>5. Evidenced(f)
  BY <1>2, <1>4 DEF Evidenced
<1> QED
  BY <1>2, <1>5

LEMMA ExposureEarned ==
    ASSUME NEW lost
    PROVE  Earned("excessive-data-exposure", ExcessiveDataExposure(lost))
<1> SUFFICES ASSUME NEW f \in ExcessiveDataExposure(lost)
             PROVE  /\ f.check = "excessive-data-exposure" /\ f.by \in Identities \union {Nobody}
                    /\ Evidenced(f)
  BY DEF Earned
<1>1. PICK l \in app.leaks : f = Accusation("excessive-data-exposure", Primary, l)
  BY DEF ExcessiveDataExposure
<1>2. f.check = "excessive-data-exposure" /\ f.by = Primary /\ f.at = l
  BY <1>1, AccusationShape
<1>3. Evidenced(f)
  BY <1>2 DEF Evidenced
<1> QED
  BY <1>2, <1>3, AuthzAssumption

LEMMA EnumerationEarned ==
    ASSUME NEW lost
    PROVE  Earned("account-enumeration", AccountEnumeration(lost))
<1> SUFFICES ASSUME NEW f \in AccountEnumeration(lost)
             PROVE  /\ f.check = "account-enumeration" /\ f.by \in Identities \union {Nobody}
                    /\ Evidenced(f)
  BY DEF Earned
<1>1. app.tells /\ f = Accusation("account-enumeration", Nobody, "login")
  BY DEF AccountEnumeration
<1>2. f.check = "account-enumeration" /\ f.by = Nobody
  BY <1>1, AccusationShape
<1>3. Evidenced(f)
  BY <1>1, <1>2 DEF Evidenced
<1> QED
  BY <1>2, <1>3

\* Of the attempts at most all are lost.
LEMMA LostAreAttempts ==
    ASSUME NEW lost \in SUBSET (1..Attempts)
    PROVE  Cardinality(lost) \in 0..Attempts
<1>1. Attempts \in Nat
  BY AuthzAssumption
<1>2. IsFiniteSet(1..Attempts) /\ Cardinality(1..Attempts) = Attempts
  BY <1>1, FS_Interval
<1>3. IsFiniteSet(lost) /\ Cardinality(lost) <= Attempts
  BY <1>2, FS_Subset
<1>4. Cardinality(lost) \in Nat
  BY <1>3, FS_CardinalityType
<1> QED
  BY <1>1, <1>3, <1>4

\* A burst that ends without a 429 has gone past any limit of at most as many
\* attempts as were answered.
LEMMA BurstSeesTheLimit ==
    ASSUME NEW lost \in SUBSET (1..Attempts), app.throttleAt \in 1..(Attempts - Cardinality(lost))
    PROVE  Throttled(lost)
<1>1. Attempts \in Nat
  BY AuthzAssumption
<1>2. IsFiniteSet(1..Attempts) /\ Cardinality(1..Attempts) = Attempts
  BY <1>1, FS_Interval
<1>3. Cardinality((1..Attempts) \ lost) = Attempts - Cardinality((1..Attempts) \cap lost)
  BY <1>2, FS_Difference
<1>4. (1..Attempts) \cap lost = lost
  OBVIOUS
<1>5. Cardinality(lost) \in 0..Attempts
  BY LostAreAttempts
<1>6. app.throttleAt # 0 /\ Attempts - Cardinality(lost) >= app.throttleAt
  BY <1>1, <1>5
<1> QED
  BY <1>3, <1>4, <1>6 DEF Throttled

LEMMA RateLimitEarned ==
    ASSUME NEW lost \in SUBSET (1..Attempts), NEW f \in LoginRateLimit(lost)
    PROVE  /\ f.check = "login-rate-limit" /\ f.by = Nobody
           /\ app.throttleAt \notin 1..(Attempts - Cardinality(lost))
<1>1. ~Throttled(lost) /\ f = Accusation("login-rate-limit", Nobody, "login")
  BY DEF LoginRateLimit
<1>2. f.check = "login-rate-limit" /\ f.by = Nobody
  BY <1>1, AccusationShape
<1>3. app.throttleAt \notin 1..(Attempts - Cardinality(lost))
  BY <1>1, BurstSeesTheLimit
<1> QED
  BY <1>2, <1>3

(***************************************************************************)
(* Every step keeps the invariant.                                         *)
(***************************************************************************)
LEMMA AuthzInitIInv == AuthzInit => AuthzIInv
<1> SUFFICES ASSUME AuthzInit PROVE AuthzIInv
  OBVIOUS
<1>1. AuthzTypeOK
  <2>1. runs \in 0..MaxSweeps /\ next \in 1..Len(Order) + 1 /\ deaf \in 0..Attempts
    BY AuthzAssumption, OrderOfChecks DEF AuthzInit
  <2> QED
    BY <2>1 DEF AuthzInit, AuthzTypeOK
<1>2. PrivilegedAreAdmins /\ WriteInTurn /\ BaselineStands /\ ReplyStands /\ AccusationsAreEarned
  BY DEF AuthzInit, PrivilegedAreAdmins, WriteInTurn, BaselineStands, ReplyStands, AccusationsAreEarned
<1> QED
  BY <1>1, <1>2 DEF AuthzIInv

LEMMA StartScanKeeps == AuthzIInv /\ StartScan => AuthzIInv'
<1> SUFFICES ASSUME AuthzIInv, StartScan PROVE AuthzIInv'
  OBVIOUS
<1>1. AuthzTypeOK'
  <2>1. runs' \in 0..MaxSweeps /\ next' \in 1..Len(Order) + 1 /\ deaf' \in 0..Attempts
    BY AuthzAssumption, OrderOfChecks DEF AuthzIInv, AuthzTypeOK, StartScan
  <2> QED
    BY <2>1 DEF AuthzIInv, AuthzTypeOK, StartScan
<1>2. step = "idle"
  BY OrderOfChecks DEF AuthzIInv, AuthzTypeOK, WriteInTurn, Turn, StartScan
<1>3. WriteInTurn' /\ BaselineStands' /\ ReplyStands'
  BY <1>2 DEF WriteInTurn, BaselineStands, ReplyStands, StartScan
<1>4. PrivilegedAreAdmins' /\ AccusationsAreEarned'
  BY DEF AuthzIInv, PrivilegedAreAdmins, AccusationsAreEarned, StartScan
<1> QED
  BY <1>1, <1>3, <1>4 DEF AuthzIInv

\* An accusation that was earned stays so while the application is the same,
\* nobody is taken off the list of admins, and no oddity is forgotten.
LEMMA StillEarned ==
    ASSUME NEW f, Evidenced(f), app' = app, privileged \subseteq privileged',
           baseline' = baseline, meddled => meddled', deaf' = deaf
    PROVE  Evidenced(f)'
BY DEF Evidenced

\* A check that only looks, once what it may find is known to be earned.
LEMMA LookKeeps ==
    ASSUME AuthzIInv, NEW check, NEW outcomes, Look(check, outcomes),
           check # "mass-assignment",
           \A found \in outcomes : Earned(check, found)
    PROVE  AuthzIInv'
<1>1. Earned(check, accused')
  BY DEF Look
<1>2. step = "idle"
  BY DEF AuthzIInv, WriteInTurn, Look, Turn
<1>3. next \in 1..8 /\ check \in {Order[i] : i \in DOMAIN Order}
  BY OrderOfChecks DEF AuthzIInv, AuthzTypeOK, Look, Turn
<1>4. AuthzTypeOK'
  BY <1>1, <1>3, OrderOfChecks DEF AuthzIInv, AuthzTypeOK, Look, Earned
<1>5. WriteInTurn' /\ BaselineStands' /\ ReplyStands' /\ PrivilegedAreAdmins'
  BY <1>2 DEF AuthzIInv, WriteInTurn, BaselineStands, ReplyStands, PrivilegedAreAdmins, Look
<1>6. AccusationsAreEarned'
  BY <1>1, StillEarned DEF AccusationsAreEarned, Earned, Look
<1> QED
  BY <1>4, <1>5, <1>6 DEF AuthzIInv

LEMMA LooksKeep == AuthzIInv /\ Looks => AuthzIInv'
<1> SUFFICES ASSUME AuthzIInv, Looks PROVE AuthzIInv'
  OBVIOUS
<1>0. PrivilegedAreAdmins
  BY DEF AuthzIInv
<1>1. CASE Look("excessive-data-exposure", {ExcessiveDataExposure(lost) : lost \in SUBSET Labels})
  BY <1>1, ExposureEarned, LookKeeps
<1>2. CASE Look("account-enumeration", {AccountEnumeration(lost) : lost \in SUBSET {"valid", "invalid"}})
  BY <1>2, EnumerationEarned, LookKeeps
<1>3. CASE Look("tenant-confusion", {TenantConfusion(lost) : lost \in SUBSET TenantProbes})
  BY <1>0, <1>3, TenantEarned, LookKeeps
<1>4. CASE Look("bola-idor", {BolaIdor(lost) : lost \in SUBSET BolaProbes})
  BY <1>0, <1>4, BolaEarned, LookKeeps
<1>5. CASE Look("unauth-idor", {UnauthenticatedIdor(lost) : lost \in SUBSET UnauthProbes})
  BY <1>5, UnauthEarned, LookKeeps
<1>6. CASE Look("bfla", UNION {BflaVerdicts(lost) : lost \in SUBSET BflaProbes})
  BY <1>0, <1>6, BflaEarned, LookKeeps
<1> QED
  BY <1>1, <1>2, <1>3, <1>4, <1>5, <1>6 DEF Looks

LEMMA LoginBurstKeeps == AuthzIInv /\ LoginBurst => AuthzIInv'
<1> SUFFICES ASSUME AuthzIInv, LoginBurst PROVE AuthzIInv'
  OBVIOUS
<1>1. PICK lost \in SUBSET (1..Attempts) :
          /\ accused' = IF active THEN LoginRateLimit(lost) ELSE {}
          /\ deaf' = Cardinality(lost)
  BY DEF LoginBurst
<1>2. \A f \in accused' : f \in LoginRateLimit(lost)
  BY <1>1
<1>3. \A f \in accused' : f.check = "login-rate-limit" /\ f.by = Nobody
  BY <1>2, RateLimitEarned
<1>4. next \in 1..8 /\ "login-rate-limit" \in {Order[i] : i \in DOMAIN Order}
  BY OrderOfChecks DEF AuthzIInv, AuthzTypeOK, LoginBurst, Turn
<1>5. step = "idle"
  BY DEF AuthzIInv, WriteInTurn, LoginBurst, Turn
<1>6. AuthzTypeOK'
  BY <1>1, <1>3, <1>4, OrderOfChecks, LostAreAttempts DEF AuthzIInv, AuthzTypeOK, LoginBurst
<1>7. WriteInTurn' /\ BaselineStands' /\ ReplyStands' /\ PrivilegedAreAdmins'
  BY <1>5 DEF AuthzIInv, WriteInTurn, BaselineStands, ReplyStands, PrivilegedAreAdmins, LoginBurst
<1>8. ASSUME NEW f \in accused' PROVE Evidenced(f)'
  <2>1. app.throttleAt \notin 1..(Attempts - Cardinality(lost))
    BY <1>2, RateLimitEarned
  <2>2. app' = app /\ f.check = "login-rate-limit"
    BY <1>3 DEF LoginBurst
  <2> QED
    BY <1>1, <2>1, <2>2 DEF Evidenced
<1>9. AccusationsAreEarned'
  BY <1>8 DEF AccusationsAreEarned
<1> QED
  BY <1>6, <1>7, <1>9 DEF AuthzIInv

LEMMA ReadBeforeKeeps == AuthzIInv /\ ReadBefore => AuthzIInv'
<1> SUFFICES ASSUME AuthzIInv, ReadBefore PROVE AuthzIInv'
  OBVIOUS
<1>1. AuthzTypeOK'
  BY AuthzAssumption DEF AuthzIInv, AuthzTypeOK, ReadBefore
<1>2. WriteInTurn'
  BY DEF WriteInTurn, Turn, ReadBefore
<1>3. BaselineStands'
  BY DEF BaselineStands, ReadBefore
<1>4. ReplyStands' /\ PrivilegedAreAdmins' /\ AccusationsAreEarned'
  BY DEF AuthzIInv, ReplyStands, PrivilegedAreAdmins, AccusationsAreEarned, ReadBefore
<1> QED
  BY <1>1, <1>2, <1>3, <1>4 DEF AuthzIInv

LEMMA WriteKeeps == AuthzIInv /\ Write => AuthzIInv'
<1> SUFFICES ASSUME AuthzIInv, Write PROVE AuthzIInv'
  OBVIOUS
<1>0. app \in App /\ Primary \in Identities
  BY AuthzAssumption DEF AuthzIInv, AuthzTypeOK
<1>1. next \in 1..8 /\ Turn("mass-assignment") /\ active
  BY OrderOfChecks DEF AuthzIInv, AuthzTypeOK, WriteInTurn, Turn, Write
<1>2. /\ roleOf' \in [Identities -> AppRoles] /\ privileged' \subseteq Identities
      /\ privileged \subseteq privileged'
  BY <1>0 DEF AuthzIInv, AuthzTypeOK, AppRoles, Write
<1>3. PrivilegedAreAdmins'
  BY <1>0 DEF AuthzIInv, AuthzTypeOK, PrivilegedAreAdmins, Write
<1>4. /\ reply' \in AppRoles \union {"unknown"}
      /\ reply' = "admin" => app.echo = "input" \/ roleOf'[Primary] = "admin"
  <2>1. app.echo \in {"nothing", "input", "stored"} /\ roleOf'[Primary] \in AppRoles
    BY <1>0, <1>2 DEF App
  <2>2. CASE app.echo = "nothing"
    BY <2>2 DEF Write
  <2>3. CASE app.echo = "input"
    BY <2>3 DEF Write, AppRoles
  <2>4. CASE app.echo = "stored"
    BY <2>1, <2>4 DEF Write
  <2> QED
    BY <2>1, <2>2, <2>3, <2>4
<1>5. AuthzTypeOK'
  <2>1. next' \in 1..Len(Order) + 1 /\ step' \in {"idle", "write", "confirm"}
    BY <1>1, OrderOfChecks DEF Write
  <2> QED
    BY <1>2, <1>4, <2>1 DEF AuthzIInv, AuthzTypeOK, Write
<1>6. WriteInTurn'
  BY <1>1 DEF WriteInTurn, Turn, Write
<1>7. BaselineStands'
  BY DEF AuthzIInv, BaselineStands, Write
<1>8. ReplyStands'
  BY <1>0, <1>3, <1>4 DEF ReplyStands, PrivilegedAreAdmins, Write
<1>9. AccusationsAreEarned'
  <2>1. accused' = accused /\ privileged \subseteq privileged' /\ UNCHANGED <<app, baseline, meddled, deaf>>
    BY DEF Write
  <2> QED
    BY <2>1, StillEarned DEF AuthzIInv, AccusationsAreEarned
<1> QED
  BY <1>3, <1>5, <1>6, <1>7, <1>8, <1>9 DEF AuthzIInv

LEMMA ConfirmKeeps == AuthzIInv /\ Confirm => AuthzIInv'
<1> SUFFICES ASSUME AuthzIInv, Confirm PROVE AuthzIInv'
  OBVIOUS
<1>0. app \in App /\ Primary \in Identities /\ privileged' = privileged
  BY AuthzAssumption DEF AuthzIInv, AuthzTypeOK, Confirm
<1>1. next \in 1..8
  BY OrderOfChecks DEF AuthzIInv, AuthzTypeOK, WriteInTurn, Turn, Confirm
<1>2. PICK after \in {roleOf[Primary], "unknown"} :
          accused' =
             CASE ReadBack(after) -> {Accusation("mass-assignment", Primary, "read-back")}
               [] ~ReadBack(after) /\ reply = "admin" -> {Accusation("mass-assignment", Primary, "echo")}
               [] OTHER -> {}
  BY DEF Confirm
<1>3. \A f \in accused' :
         /\ f.check = "mass-assignment" /\ f.by = Primary
         /\ \/ f.at = "read-back" /\ ReadBack(after)
            \/ f.at = "echo" /\ reply = "admin"
  BY <1>2, AccusationShape
<1> HIDE <1>2
<1>4. AuthzTypeOK'
  BY <1>0, <1>1, <1>3, OrderOfChecks DEF AuthzIInv, AuthzTypeOK, Confirm
<1>5. WriteInTurn' /\ BaselineStands' /\ ReplyStands' /\ PrivilegedAreAdmins'
  BY DEF AuthzIInv, WriteInTurn, BaselineStands, ReplyStands, PrivilegedAreAdmins, Confirm
<1>6. ASSUME NEW f \in accused' PROVE Evidenced(f)
  <2>1. ASSUME f.at = "read-back"
        PROVE  Primary \in privileged /\ (baseline # "unknown" /\ ~meddled => app.write = "bound")
    <3>1. roleOf[Primary] = "admin" /\ baseline # "admin"
      BY <1>2, <1>3, <2>1 DEF ReadBack
    <3> QED
      BY <1>0, <3>1 DEF AuthzIInv, PrivilegedAreAdmins, BaselineStands, Confirm
  <2>2. ASSUME f.at = "echo", app.echo = "stored" PROVE Primary \in privileged
    <3>1. reply = "admin"
      BY <1>3, <2>2
    <3> QED
      BY <2>2, <3>1 DEF AuthzIInv, ReplyStands, Confirm
  <2> QED
    BY <1>3, <2>1, <2>2 DEF Evidenced
<1>7. AccusationsAreEarned'
  BY <1>6 DEF AccusationsAreEarned, Evidenced, Confirm
<1> QED
  BY <1>4, <1>5, <1>7 DEF AuthzIInv

LEMMA SkipInactiveKeeps == AuthzIInv /\ SkipInactive => AuthzIInv'
<1> SUFFICES ASSUME AuthzIInv, SkipInactive PROVE AuthzIInv'
  OBVIOUS
<1>1. next \in 1..8
  BY OrderOfChecks DEF AuthzIInv, AuthzTypeOK, SkipInactive, Turn
<1>2. AuthzTypeOK'
  BY <1>1, OrderOfChecks DEF AuthzIInv, AuthzTypeOK, SkipInactive
<1>3. WriteInTurn' /\ BaselineStands' /\ ReplyStands' /\ PrivilegedAreAdmins'
  BY DEF AuthzIInv, WriteInTurn, Turn, BaselineStands, ReplyStands, PrivilegedAreAdmins, SkipInactive
<1>4. AccusationsAreEarned'
  BY DEF AccusationsAreEarned, SkipInactive
<1> QED
  BY <1>2, <1>3, <1>4 DEF AuthzIInv

LEMMA MeddleKeeps ==
    ASSUME AuthzIInv, NEW i \in Identities, NEW r \in AppRoles, Meddle(i, r)
    PROVE  AuthzIInv'
<1>1. AuthzTypeOK'
  BY DEF AuthzIInv, AuthzTypeOK, Meddle
<1>2. PrivilegedAreAdmins'
  BY DEF AuthzIInv, AuthzTypeOK, PrivilegedAreAdmins, Meddle
<1>3. privileged \subseteq privileged'
  BY DEF Meddle
<1>4. WriteInTurn' /\ BaselineStands'
  BY DEF AuthzIInv, WriteInTurn, Turn, BaselineStands, Meddle
<1>5. ReplyStands'
  BY <1>3 DEF AuthzIInv, ReplyStands, Meddle
<1>6. AccusationsAreEarned'
  BY <1>3, StillEarned DEF AuthzIInv, AccusationsAreEarned, Meddle
<1> QED
  BY <1>1, <1>2, <1>4, <1>5, <1>6 DEF AuthzIInv

LEMMA AuthzNextIInv == AuthzIInv /\ [AuthzNext]_authzVars => AuthzIInv'
<1> SUFFICES ASSUME AuthzIInv, [AuthzNext]_authzVars PROVE AuthzIInv'
  OBVIOUS
<1>1. CASE UNCHANGED authzVars
  <2>1. AccusationsAreEarned'
    <3>1. UNCHANGED <<app, privileged, baseline, meddled, deaf, accused>>
      BY <1>1 DEF authzVars
    <3> QED
      BY <3>1, StillEarned DEF AuthzIInv, AccusationsAreEarned
  <2>2. AuthzTypeOK'
    BY <1>1 DEF authzVars, AuthzIInv, AuthzTypeOK
  <2> QED
    BY <1>1, <2>1, <2>2 DEF authzVars, AuthzIInv, PrivilegedAreAdmins, WriteInTurn, Turn,
                            BaselineStands, ReplyStands
<1>2. CASE AuthzNext
  BY <1>2, StartScanKeeps, LooksKeep, LoginBurstKeeps, ReadBeforeKeeps, WriteKeeps, ConfirmKeeps,
     SkipInactiveKeeps, MeddleKeeps DEF AuthzNext
<1> QED
  BY <1>1, <1>2

\* Through every order of scans, lost probes and changes by others, the
\* invariant above holds.
THEOREM AuthzInvariance == AuthzSpec => []AuthzIInv
BY AuthzInitIInv, AuthzNextIInv, PTL DEF AuthzSpec

\* Every variable of the checks keeps to its type.
THEOREM AuthzTypeCorrect == AuthzSpec => []AuthzTypeOK
<1>1. AuthzIInv => AuthzTypeOK
  BY DEF AuthzIInv
<1> QED
  BY <1>1, AuthzInvariance, PTL

\* Every accusation of the authorization checks shows what Evidenced states, through
\* every order of scans, lost probes and changes by others (authz_checks.py).
THEOREM AccusationsEarned == AuthzSpec => []AccusationsAreEarned
<1>1. AuthzIInv => AccusationsAreEarned
  BY DEF AuthzIInv
<1> QED
  BY <1>1, AuthzInvariance, PTL

=============================================================================
