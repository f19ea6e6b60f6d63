------------------------------ MODULE RateLimit ------------------------------
(***************************************************************************)
(* internal/adminhttp/ratelimit.go: token buckets in an LRU of bounded     *)
(* size, the brake on failed logins per address (IPRateLimit: look before, *)
(* pay after) and the brake on requests per principal (admitPrincipal).    *)
(* Every operation on a limiter holds its lock and is one step; a request  *)
(* runs between IPRateLimit's two.  A tick is the time that refills one    *)
(* token.                                                                  *)
(***************************************************************************)
EXTENDS Integers, Sequences, FiniteSets, Lru

CONSTANTS Addr, Client,  \* client addresses (and principals); concurrent requests
          Burst, MaxBuckets,
          MaxTicks, MaxTries  \* bounds on the clock and on requests

(* newRateLimiter: at least one token and one bucket. *)
ASSUME RlAssumption == Burst \in Nat \ {0} /\ MaxBuckets \in Nat \ {0}

NoAddr == "none"

VARIABLES
  ipLimiter,  \* buckets, most recently used first: [key, tokens, last]
  principal,  \* the same, for admitted requests
  visit,      \* Client -> [pc, ip, met]: a request between look and payment
  ticks, tries,
  fails, met,       \* history, per address: 401s, and those that overlapped another's payment
  evicted, denied,  \* buckets lost to the bound, 429s
  granted, dropped  \* requests admitted by principal, its buckets lost

rlVars == <<ipLimiter, principal, visit, ticks, tries, fails, met, evicted, denied,
            granted, dropped>>

Calm == [pc |-> "idle", ip |-> NoAddr, met |-> FALSE]
Zero == [a \in Addr |-> 0]

RlInit ==
  /\ ipLimiter = <<>> /\ principal = <<>> /\ visit = [c \in Client |-> Calm]
  /\ ticks = 0 /\ tries = 0 /\ fails = Zero /\ met = Zero
  /\ evicted = Zero /\ denied = {} /\ granted = Zero /\ dropped = Zero

-----------------------------------------------------------------------------
Held(l, k) == {i \in DOMAIN l : l[i].key = k}
Least(a, b) == IF a < b THEN a ELSE b

Fill(b) == Least(Burst, b.tokens + (ticks - b.last))

(* Mutant of Touch: the time of the refill is not noted, so it counts again. *)
TouchUnstamped(l, k) ==
  IF Held(l, k) = {} THEN PushFront(l, [key |-> k, tokens |-> Burst, last |-> ticks])
  ELSE LET i == CHOOSE i \in Held(l, k) : TRUE IN
       MoveToFront(l, i, [key |-> k, tokens |-> Fill(l[i]), last |-> l[i].last])

(* bucketLocked before the eviction: refilled or created, moved to front.  *)
Touch(l, k) ==
  IF Held(l, k) = {} THEN PushFront(l, [key |-> k, tokens |-> Burst, last |-> ticks])
  ELSE LET i == CHOOSE i \in Held(l, k) : TRUE IN
       MoveToFront(l, i, [key |-> k, tokens |-> Fill(l[i]), last |-> ticks])

BucketLocked(l, k) == Capped(Touch(l, k), MaxBuckets)
Evicted(l, k) == {Touch(l, k)[i].key : i \in (MaxBuckets + 1)..Len(Touch(l, k))}
Lost(h, S) == [a \in Addr |-> IF a \in S THEN h[a] + 1 ELSE h[a]]

Front(l) == Head(l).tokens
Pay(l) == [l EXCEPT ![1].tokens = IF @ < 1 THEN 0 ELSE @ - 1]

-----------------------------------------------------------------------------
(* Mutant of Peek: it pays, so successes count as well. *)
PeekPays(c, ip) ==
  /\ visit[c].pc = "idle" /\ tries < MaxTries
  /\ LET l == BucketLocked(ipLimiter, ip) IN
     /\ ipLimiter' = Pay(l) /\ evicted' = Lost(evicted, Evicted(ipLimiter, ip))
     /\ IF Front(l) >= 1
        THEN visit' = [visit EXCEPT ![c] = [pc |-> "run", ip |-> ip, met |-> FALSE]] /\ UNCHANGED denied
        ELSE denied' = denied \cup {ip} /\ UNCHANGED visit
  /\ tries' = tries + 1
  /\ UNCHANGED <<principal, ticks, fails, met, granted, dropped>>

(* peek: the request goes on, or is answered 429 with retryAfter. *)
Peek(c, ip) ==
  /\ visit[c].pc = "idle" /\ tries < MaxTries
  /\ LET l == BucketLocked(ipLimiter, ip) IN
     /\ ipLimiter' = l /\ evicted' = Lost(evicted, Evicted(ipLimiter, ip))
     /\ IF Front(l) >= 1
        THEN visit' = [visit EXCEPT ![c] = [pc |-> "run", ip |-> ip, met |-> FALSE]] /\ UNCHANGED denied
        ELSE denied' = denied \cup {ip} /\ UNCHANGED visit
  /\ tries' = tries + 1
  /\ UNCHANGED <<principal, ticks, fails, met, granted, dropped>>

(* consume after a 401; every other request of the address meets it.       *)
Consume(c) ==
  /\ visit[c].pc = "run"
  /\ LET ip == visit[c].ip IN
     /\ ipLimiter' = Pay(BucketLocked(ipLimiter, ip))
     /\ evicted' = Lost(evicted, Evicted(ipLimiter, ip))
     /\ fails' = [fails EXCEPT ![ip] = @ + 1]
     /\ met' = [met EXCEPT ![ip] = IF visit[c].met THEN @ + 1 ELSE @]
     /\ visit' = [d \in Client |-> IF d = c THEN Calm
                    ELSE IF visit[d].ip = ip THEN [visit[d] EXCEPT !.met = TRUE] ELSE visit[d]]
  /\ UNCHANGED <<principal, ticks, tries, denied, granted, dropped>>

(* Mutant of AdmitPrincipal: it looks and does not pay. *)
AdmitPrincipalFree(c) ==
  /\ visit[c].pc = "run"
  /\ LET p == visit[c].ip IN LET l == BucketLocked(principal, p) IN
     /\ principal' = l /\ dropped' = Lost(dropped, Evicted(principal, p))
     /\ granted' = IF Front(l) >= 1 THEN [granted EXCEPT ![p] = @ + 1] ELSE granted
  /\ visit' = [visit EXCEPT ![c] = Calm]
  /\ UNCHANGED <<ipLimiter, ticks, tries, fails, met, evicted, denied>>

(* The credential is good: allow, by principal (here one per address).     *)
AdmitPrincipal(c) ==
  /\ visit[c].pc = "run"
  /\ LET p == visit[c].ip IN LET l == BucketLocked(principal, p) IN
     /\ principal' = (IF Front(l) >= 1 THEN Pay(l) ELSE l)
     /\ dropped' = Lost(dropped, Evicted(principal, p))
     /\ granted' = IF Front(l) >= 1 THEN [granted EXCEPT ![p] = @ + 1] ELSE granted
  /\ visit' = [visit EXCEPT ![c] = Calm]
  /\ UNCHANGED <<ipLimiter, ticks, tries, fails, met, evicted, denied>>

Pass ==
  /\ ticks < MaxTicks /\ ticks' = ticks + 1
  /\ UNCHANGED <<ipLimiter, principal, visit, tries, fails, met, evicted, denied, granted, dropped>>

RlNext ==
  \/ \E c \in Client : (\E a \in Addr : Peek(c, a)) \/ Consume(c) \/ AdmitPrincipal(c)
  \/ Pass

RlSpec == RlInit /\ [][RlNext]_rlVars

-----------------------------------------------------------------------------
(* Failed logins of an address are bounded by burst and refill, once per   *)
(* bucket the LRU forgot; only those that ran while another one failed     *)
(* come on top, since nothing is reserved at the look.                     *)
FailureBrake == \A a \in Addr : fails[a] - met[a] <= Burst * (1 + evicted[a]) + ticks

(* Requests of a principal are bounded by burst and refill, without that   *)
(* exception.                                                              *)
PrincipalRate == \A a \in Addr : granted[a] <= Burst * (1 + dropped[a]) + ticks

(* An address is turned away for its own failures, never for another's.    *)
DeniedEarned == \A a \in denied : fails[a] >= Burst

\* The limiter bounds what it should and refuses nobody else.
RatesBounded == FailureBrake /\ PrincipalRate /\ DeniedEarned

-----------------------------------------------------------------------------
(* What the proof of RatesBounded rests on.                                *)

Bucket == [key : Addr, tokens : 0..Burst, last : Nat]
Visit == [pc : {"idle", "run"}, ip : Addr \cup {NoAddr}, met : BOOLEAN]
Allowance(n) == Burst * n

RlType ==
  /\ ipLimiter \in Seq(Bucket) /\ principal \in Seq(Bucket)
  /\ visit \in [Client -> Visit] /\ ticks \in Nat /\ tries \in Nat
  /\ fails \in [Addr -> Nat] /\ met \in [Addr -> Nat] /\ evicted \in [Addr -> Nat]
  /\ granted \in [Addr -> Nat] /\ dropped \in [Addr -> Nat] /\ denied \subseteq Addr

(* A key has one bucket.                                                   *)
OneBucket(l) == \A i, j \in DOMAIN l : l[i].key = l[j].key => i = j

(* What was spent and what a bucket still grants come to one burst per     *)
(* bucket and the refill up to its stamp; without a bucket, to the bursts  *)
(* of those lost and the refill up to now.                                 *)
Owed(l, spent, lost, t) ==
  /\ \A i \in DOMAIN l :
       /\ l[i].last <= t
       /\ spent[l[i].key] + l[i].tokens <= Allowance(1 + lost[l[i].key]) + l[i].last
  /\ \A a \in Addr : Held(l, a) = {} => spent[a] <= Allowance(lost[a]) + t

Unmet == [a \in Addr |-> fails[a] - met[a]]

(* What its own failures took from a bucket, at most.                      *)
OwnFailures == \A i \in DOMAIN ipLimiter : ipLimiter[i].tokens + fails[ipLimiter[i].key] >= Burst

(* The token a request has seen is there until another one pays.           *)
TokenStays ==
  \A c \in Client : visit[c].pc = "run" =>
    /\ visit[c].ip \in Addr
    /\ ~visit[c].met => \A i \in Held(ipLimiter, visit[c].ip) : ipLimiter[i].tokens >= 1

RlInv ==
  /\ RlType /\ OneBucket(ipLimiter) /\ OneBucket(principal)
  /\ Owed(ipLimiter, Unmet, evicted, ticks) /\ Owed(principal, granted, dropped, ticks)
  /\ OwnFailures /\ TokenStays /\ DeniedEarned
=============================================================================
