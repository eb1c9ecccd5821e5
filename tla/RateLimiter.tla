---------------------------- MODULE RateLimiter ----------------------------
(***************************************************************************)
(* The token bucket that keeps scans polite (RateLimiter of                *)
(* pentestiq/core/jobs.py), for one host: hosts share only the lock.       *)
(*                                                                         *)
(* acquire() refills the bucket by the time gone by, withdraws a token or  *)
(* works out how long to wait, all under the lock with the clock read      *)
(* inside it, and sleeps outside.  Tokens are counted in parts, Whole of   *)
(* them to a token, so that a tick may bring less than a token.            *)
(***************************************************************************)
EXTENDS Naturals

CONSTANTS
    Senders,     \* threads about to send a request
    Whole,       \* parts of a token
    Rate,        \* parts that come in per tick of the clock
    Capacity,    \* parts the bucket holds
    MaxTicks     \* bound: the clock

ASSUME RateLimiterAssumption ==
    /\ Whole \in Nat \ {0} /\ Rate \in Nat \ {0}
    /\ Capacity \in Nat /\ MaxTicks \in Nat

VARIABLES
    time,         \* time.monotonic()
    tokens,      \* _tokens[host]; full before the first use
    last,        \* _last[host]
    wakeAt,      \* when the sleep of each sender is over; 0 for no sleep
    total,       \* history: tokens withdrawn
    withdrawnBefore  \* history: tokens withdrawn before the clock showed t

rateVars == <<time, tokens, last, wakeAt, total, withdrawnBefore>>

RateTypeOK ==
    /\ time \in 0..MaxTicks
    /\ tokens \in 0..Capacity
    /\ last \in 0..time
    /\ wakeAt \in [Senders -> Nat]
    /\ total \in Nat
    /\ withdrawnBefore \in [0..time -> 0..total]

RateInit ==
    /\ time = 0
    /\ tokens = Capacity
    /\ last = 0
    /\ wakeAt = [s \in Senders |-> 0]
    /\ total = 0
    /\ withdrawnBefore = [t \in {0} |-> 0]

\* What is in the bucket by now.
Available ==
    LET filled == tokens + (time - last) * Rate
    IN IF filled > Capacity THEN Capacity ELSE filled

\* The whole ticks until a token is there.
Wait(deficit) == (deficit + Rate - 1) \div Rate

Awake(s) == wakeAt[s] <= time

Withdraw(s) ==
    /\ Awake(s)
    /\ Available >= Whole
    /\ tokens' = Available - Whole
    /\ last' = time
    /\ total' = total + 1
    /\ wakeAt' = [wakeAt EXCEPT ![s] = 0]
    /\ UNCHANGED <<time, withdrawnBefore>>

\* Seeded fault: the refill is kept but not the time it was worked out at.
FallAsleepUnstamped(s) ==
    /\ Awake(s)
    /\ Available < Whole
    /\ tokens' = Available
    /\ wakeAt' = [wakeAt EXCEPT ![s] = time + Wait(Whole - Available)]
    /\ UNCHANGED <<time, last, total, withdrawnBefore>>

FallAsleep(s) ==
    /\ Awake(s)
    /\ Available < Whole
    /\ tokens' = Available
    /\ last' = time
    /\ wakeAt' = [wakeAt EXCEPT ![s] = time + Wait(Whole - Available)]
    /\ UNCHANGED <<time, total, withdrawnBefore>>

\* Time passes; a sleep may last longer than asked for.
Tick ==
    /\ time < MaxTicks
    /\ time' = time + 1
    /\ withdrawnBefore' = [t \in 0..time + 1 |-> IF t <= time THEN withdrawnBefore[t] ELSE total]
    /\ UNCHANGED <<tokens, last, wakeAt, total>>

RateNext == Tick \/ \E s \in Senders : Withdraw(s) \/ FallAsleep(s)

RateSpec == RateInit /\ [][RateNext]_rateVars

-----------------------------------------------------------------------------

\* Withdrawn from the moment the clock showed s until it left e.
Withdrawn(s, e) == (IF e = time THEN total ELSE withdrawnBefore[e + 1]) - withdrawnBefore[s]

\* However many threads contend for the bucket and however their sleeps end, no
\* stretch of time sees more requests than the burst plus what the rate brings in.
RateIsKept ==
    \A s \in 0..time : \A e \in s..time :
        Withdrawn(s, e) * Whole <= Capacity + Rate * (e - s)

=============================================================================
