---------------------------- MODULE TokenBucket -----------------------------
(***************************************************************************)
(* The limiter on the messages of one connection: TokenBucket of           *)
(* src/src/quotas.rs, and the read loop's use of it (src/src/connection.rs,*)
(* run).  Time is counted in ticks, TICKS of them a second, and tokens in  *)
(* units of 1/TICKS, so a tick refills SUSTAINED units, a message costs    *)
(* TICKS units, and f64 arithmetic becomes exact.                          *)
(***************************************************************************)
EXTENDS Naturals, Sequences

CONSTANTS
  BURST,      \* PER_CONNECTION_MESSAGE_BURST, in messages
  SUSTAINED,  \* PER_CONNECTION_MESSAGE_SUSTAINED, in messages a second
  TICKS,      \* the resolution of the clock
  MaxInstant  \* bound on the clock

VARIABLES
  tokens,
  last_refill,   \* TokenBucket.last
  instant,       \* Instant::now()
  granted        \* ghost: when every message that was let through arrived

bucketVars == <<tokens, last_refill, instant, granted>>

ASSUME BucketConstants ==
  /\ BURST \in Nat \ {0} /\ SUSTAINED \in Nat \ {0} /\ TICKS \in Nat \ {0}
  /\ MaxInstant \in Nat

BucketInit ==
  /\ tokens = BURST * TICKS
  /\ last_refill = 0 /\ instant = 0
  /\ granted = <<>>

Elapse ==
  /\ instant < MaxInstant /\ instant' = instant + 1
  /\ UNCHANGED <<tokens, last_refill, granted>>

AtMost(x, cap) == IF x > cap THEN cap ELSE x

\* Variant of Refill: only whole tokens are added.
RefillWhole(t) ==
  IF t < last_refill THEN tokens
  ELSE AtMost(tokens + (((t - last_refill) * SUSTAINED) \div TICKS) * TICKS, BURST * TICKS)

\* Variant of Refill: a connection that was quiet saves up without limit.
RefillUncapped(t) == IF t < last_refill THEN tokens ELSE tokens + (t - last_refill) * SUSTAINED

\* The tokens after refill(t).
Refill(t) ==
  IF t < last_refill THEN tokens
  ELSE AtMost(tokens + (t - last_refill) * SUSTAINED, BURST * TICKS)

\* allow_at(now): the bucket is refilled whether or not it then has a token.
Allow ==
  /\ last_refill' = IF instant < last_refill THEN last_refill ELSE instant
  /\ Refill(instant) >= TICKS
  /\ tokens' = Refill(instant) - TICKS
  /\ granted' = Append(granted, instant)
  /\ UNCHANGED instant

\* The message is dropped with RATE_LIMITED and the connection stays.
Throttle ==
  /\ last_refill' = IF instant < last_refill THEN last_refill ELSE instant
  /\ Refill(instant) < TICKS
  /\ tokens' = Refill(instant)
  /\ UNCHANGED <<instant, granted>>

BucketNext == Elapse \/ Allow \/ Throttle

BucketSpec == BucketInit /\ [][BucketNext]_bucketVars
-----------------------------------------------------------------------------
(* Properties *)

BucketTypeOK ==
  /\ tokens \in 0 .. BURST * TICKS
  /\ instant \in Nat /\ last_refill \in Nat /\ last_refill <= instant
  /\ granted \in Seq(Nat)

\* What a limiter with this burst and this sustained rate promises.  The
\* messages let through between any two of them, both counted, are no more than
\* the burst plus what the sustained rate gives in the time between.
RateBounded ==
  \A i, j \in DOMAIN granted :
    i <= j => (j - i + 1) * TICKS <= BURST * TICKS + (granted[j] - granted[i]) * SUSTAINED

\* quotas.rs: "throttle, don't disconnect".  However often a client tries while
\* it is throttled, a message that comes a whole refill period after the last
\* one let through is let through: attempts that fail never cost it a fraction
\* of a token.
ThrottledBriefly ==
  [][Throttle => /\ granted # <<>>
                 /\ (instant - granted[Len(granted)]) * SUSTAINED < TICKS]_bucketVars
=============================================================================
