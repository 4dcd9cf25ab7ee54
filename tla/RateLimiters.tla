---------------------------- MODULE RateLimiters ----------------------------
(***************************************************************************)
(* The three limiters of rate_limiting.py: TokenBucket,                    *)
(* SlidingWindowCounter and AdaptiveRateLimiter.  Callers share one limiter*)
(* of some kind; its methods run under its lock, so each is one step, and  *)
(* callers and clock interleave.                                           *)
(*                                                                         *)
(* Token amounts are whole units, Unit of them to a request; time is whole *)
(* ticks up to Horizon, and rates are units per tick.                      *)
(***************************************************************************)
EXTENDS Integers, SequencesExt, FiniteSetsExt

CONSTANTS
    Unit,               \* units of one token
    Capacity, RefillRate,           \* of the bucket
    WindowSize, MaxRequests,        \* of the window
    MaxRate, MinRate,               \* of the adaptive limiter
    HealthThreshold, HealthScores,        \* health scores, in tenths
    Horizon,            \* bounds the clock
    MaxGifts            \* bounds the refills and resets by hand

ASSUME LimiterAssumption ==
    /\ {Unit, Capacity, RefillRate, WindowSize, MaxRequests, MaxRate, MinRate,
        HealthThreshold, Horizon} \subseteq Nat \ {0}
    /\ HealthScores \subseteq 0..10 /\ MaxGifts \in Nat

VARIABLES
    kind,           \* which limiter the callers share
    now,
    tokens,         \* bucket and adaptive limiter
    last_refill,
    rate,           \* the adaptive limiter's _current_rate
    timestamps,     \* the window's grants, oldest first
    grants,         \* history: [0..Horizon -> units granted at that tick]
    gifts           \* history: what refill and reset put in, and when

pool == <<tokens, last_refill>>
history == <<grants, gifts>>
lvars == <<kind, now, tokens, last_refill, rate, timestamps, grants, gifts>>

Kinds == {"bucket", "window", "adaptive"}
Ticks == 0..Horizon

(* Nothing keeps an adaptive limiter's minimum below its maximum; a rate    *)
(* scaled up from a higher minimum can be negative.                        *)
TopRate == Max({MinRate, MaxRate})

LimiterTypeOK ==
    /\ kind \in Kinds
    /\ now \in Ticks /\ last_refill \in 0..now
    /\ tokens \in Int /\ rate \in Int
    /\ tokens <= (IF kind = "bucket" THEN Capacity ELSE rate) /\ rate <= TopRate
    /\ MinRate <= MaxRate => tokens >= 0 /\ rate >= 0
    /\ timestamps \in Seq(Ticks) /\ Len(timestamps) <= MaxRequests
    /\ grants \in [Ticks -> Nat]
    /\ gifts \in Seq([at : Ticks, units : Int]) /\ Len(gifts) <= MaxGifts

(* A faulty variant of the definition below; see CircuitBreaker. *)
RefilledUncapped(size, r) == Min({2 * size, tokens + (now - last_refill) * r})

(* What a pool of the given size and rate holds once the time since its    *)
(* last refill is credited.  At a rate that is not positive there is       *)
(* nothing to credit, and the time goes on to count.                       *)
Earned(r) == (now - last_refill) * r
Refilled(size, r) == IF Earned(r) > 0 THEN Min({size, tokens + Earned(r)}) ELSE tokens
Credit(r) == last_refill' = IF Earned(r) > 0 THEN now ELSE last_refill

(* The grants left when the oldest ones are taken off as long as they are  *)
(* older than the window; one exactly WindowSize old is not.               *)
Outdated == {n \in 0..Len(timestamps) : \A k \in 1..n : timestamps[k] < now - WindowSize}
Trimmed == SubSeq(timestamps, Max(Outdated) + 1, Len(timestamps))

Grant(n) == grants' = [grants EXCEPT ![now] = @ + n]
Give(n) == gifts' = Append(gifts, [at |-> now, units |-> n])

(* update_health: the rate and, below it, the units kept.                  *)
RateFor(h) ==
    CASE h >= HealthThreshold -> Min({MaxRate, MinRate + ((MaxRate - MinRate) * h) \div HealthThreshold})
      [] h > 0 /\ h < HealthThreshold -> Max({MinRate, (MaxRate * h) \div 10})
      [] h = 0 -> MinRate \div 10

-----------------------------------------------------------------------------
LimiterInit ==
    /\ kind \in Kinds
    /\ now = 0
    /\ tokens = (IF kind = "bucket" THEN Capacity ELSE MaxRate)
    /\ last_refill = 0
    /\ rate = MaxRate
    /\ timestamps = <<>>
    /\ grants = [t \in Ticks |-> 0] /\ gifts = <<>>

LimiterTick == now < Horizon /\ now' = now + 1
               /\ UNCHANGED <<kind, pool, rate, timestamps, history>>

(* TokenBucket.consume, and allow of the adaptive limiter: refill, then    *)
(* grant or refuse.                                                        *)
Take(n, size, r) ==
    LET there == Refilled(size, r) IN
    /\ Credit(r)
    /\ IF there >= n THEN tokens' = there - n /\ Grant(n)
                     ELSE tokens' = there /\ UNCHANGED grants
    /\ UNCHANGED <<kind, now, rate, timestamps, gifts>>

Consume(n) == kind = "bucket" /\ n <= Capacity /\ Take(n, Capacity, RefillRate)

(* TokenBucket.available_tokens refills too. *)
Available ==
    /\ kind = "bucket"
    /\ tokens' = Refilled(Capacity, RefillRate) /\ Credit(RefillRate)
    /\ UNCHANGED <<kind, now, rate, timestamps, history>>

(* TokenBucket.refill by n (reset and refill(None): by Capacity).  The     *)
(* clock restarts, and with it goes the credit of the time before.         *)
Refill(n) ==
    /\ kind = "bucket" /\ Len(gifts) < MaxGifts
    /\ tokens' = Min({Capacity, tokens + n}) /\ last_refill' = now
    /\ Give(Max({0, tokens' - Refilled(Capacity, RefillRate)}))
    /\ UNCHANGED <<kind, now, rate, timestamps, grants>>

(* SlidingWindowCounter.allow: a refusal leaves the trimmed window.        *)
AllowWindow ==
    /\ kind = "window"
    /\ IF Len(Trimmed) >= MaxRequests
       THEN timestamps' = Trimmed /\ UNCHANGED grants
       ELSE /\ timestamps' = Append(Trimmed, now)
            /\ Grant(1)
    /\ UNCHANGED <<kind, now, pool, rate, gifts>>

(* SlidingWindowCounter.reset forgets what it granted.                     *)
ResetWindow ==
    /\ kind = "window" /\ Len(gifts) < MaxGifts
    /\ timestamps' = <<>>
    /\ Give(Len(timestamps))
    /\ UNCHANGED <<kind, now, pool, rate, grants>>

(* time_until_next_slot tells when the oldest grant is WindowSize old; at   *)
(* that very tick the grant still counts.                                  *)
TimeUntilNextSlot ==
    /\ kind = "window"
    /\ timestamps' = Trimmed
    /\ UNCHANGED <<kind, now, pool, rate, history>>

(* AdaptiveRateLimiter.update_health: no refill first, so the time since   *)
(* the last one will be credited at the new rate.                          *)
UpdateHealth(h) ==
    /\ kind = "adaptive"
    /\ rate' = RateFor(h)
    /\ tokens' = Min({rate', tokens})
    /\ UNCHANGED <<kind, now, last_refill, timestamps, history>>

AllowAdaptive == kind = "adaptive" /\ Take(Unit, rate, rate)

ResetAdaptive ==
    /\ kind = "adaptive" /\ Len(gifts) < MaxGifts
    /\ rate' = MaxRate /\ tokens' = MaxRate /\ last_refill' = now
    /\ Give(MaxRate - Refilled(rate, rate))
    /\ UNCHANGED <<kind, now, timestamps, grants>>

LimiterNext ==
    \/ LimiterTick
    \/ \E n \in {Unit, 2 * Unit} : Consume(n)
    \/ Available
    \/ \E n \in {Unit, Capacity} : Refill(n)
    \/ AllowWindow \/ ResetWindow \/ TimeUntilNextSlot
    \/ \E h \in HealthScores : UpdateHealth(h)
    \/ AllowAdaptive \/ ResetAdaptive

LimiterSpec == LimiterInit /\ [][LimiterNext]_lvars

-----------------------------------------------------------------------------
Granted(i, j) == SumFunctionOnSet(grants, i..j)
Given(i, j) ==
    SumFunctionOnSet([k \in DOMAIN gifts |-> gifts[k].units],
                     {k \in DOMAIN gifts : gifts[k].at \in i..j})

(* What a limiter may grant from tick i to tick j, gifts apart.            *)
Allowance(i, j) ==
    CASE kind = "bucket"   -> Capacity + (j - i) * RefillRate
      [] kind = "window"   -> ((j - i) \div (WindowSize + 1) + 1) * MaxRequests
      [] kind = "adaptive" -> (j - i + 1) * TopRate

(* Over every stretch of time up to now, not only from the start, it       *)
(* grants no more than its burst and its rate over the stretch allow, and  *)
(* what operators put in: idle time is never saved up beyond the burst     *)
(* (consume, allow of both others).                                        *)
NoStretchExceedsLimit ==
    \A i \in 0..now : Granted(i, now) <= Allowance(i, now) + Given(i, now)
=============================================================================
