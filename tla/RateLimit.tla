------------------------------- MODULE RateLimit -------------------------------
(***************************************************************************)
(* The sliding-window limiter (internal/ratelimit/limiter.go) as the       *)
(* middleware uses it, for one scope and one identifier, that is for one   *)
(* Redis key.  A check is a pipeline of four commands; a pipeline is not a *)
(* transaction, so the commands of two checks may alternate, and the key   *)
(* may expire between two of them.                                         *)
(***************************************************************************)
EXTENDS Integers, FiniteSets

CONSTANTS Requests,   \* the requests made under the key
          Limit,      \* rule.Limit
          Window,     \* rule.Window, in clock ticks
          MaxLatency, \* a check ends at most this long after it read the clock
          MaxTime,    \* bound on the clock
          Unique      \* whether two requests never read the same nanosecond

ASSUME RateAssumption ==
    /\ Limit \in Nat \ {0}
    /\ MaxLatency \in Nat
    /\ Window \in Nat /\ Window > MaxLatency
    /\ Unique \in BOOLEAN

VARIABLES now,      \* the clock
          zset,     \* the sorted set: its members are the stamps themselves
          ttl,      \* when the key expires; 0 if it has no expiry
          pc,       \* the next command of each check
          stamp,    \* the clock as each check read it
          count,    \* what ZCARD answered
          verdict,  \* what the middleware did with the request
          lost,     \* history: checks whose entry expired before its window did
          cut       \* history: a pipeline broke off between its ZADD and its EXPIRE,
                    \* and the key has had no expiry since

vars == <<now, zset, ttl, pc, stamp, count, verdict, lost, cut>>

Phases == {"new", "zremrangebyscore", "zadd", "zcard", "expire", "done"}
Verdicts == {"none", "allowed", "denied", "open"}
InFlight == {r \in Requests : pc[r] \notin {"new", "done"}}

TypeOK ==
    /\ now \in Nat
    /\ zset \subseteq Nat
    /\ ttl \in Nat
    /\ pc \in [Requests -> Phases]
    /\ stamp \in [Requests -> Nat]
    /\ count \in [Requests -> Nat]
    /\ verdict \in [Requests -> Verdicts]
    /\ lost \subseteq Requests
    /\ cut \in BOOLEAN
    /\ \A r \in Requests : pc[r] = "done" <=> verdict[r] # "none"

Init ==
    /\ now = Window + 1
    /\ zset = {}
    /\ ttl = 0
    /\ pc = [r \in Requests |-> "new"]
    /\ stamp = [r \in Requests |-> 0]
    /\ count = [r \in Requests |-> 0]
    /\ verdict = [r \in Requests |-> "none"]
    /\ lost = {}
    /\ cut = FALSE

Goto(r, phase) == pc' = [pc EXCEPT ![r] = phase]

\* checkSlidingWindow reads the clock and sends the pipeline.
Start(r) ==
    /\ pc[r] = "new"
    /\ Unique => \A q \in Requests : stamp[q] # now
    /\ stamp' = [stamp EXCEPT ![r] = now]
    /\ Goto(r, "zremrangebyscore")
    /\ UNCHANGED <<now, zset, ttl, count, verdict, lost, cut>>

\* Mutant: old entries stay in the set.
ZRemNothing(r) ==
    /\ pc[r] = "zremrangebyscore"
    /\ Goto(r, "zadd")
    /\ UNCHANGED <<now, zset, ttl, stamp, count, verdict, lost, cut>>

\* Entries up to the start of the window go; an emptied key goes with its expiry.
ZRemRangeByScore(r) ==
    /\ pc[r] = "zremrangebyscore"
    /\ zset' = {e \in zset : e > stamp[r] - Window}
    /\ ttl' = IF zset' = {} THEN 0 ELSE ttl
    /\ cut' = (cut /\ zset' # {})
    /\ Goto(r, "zadd")
    /\ UNCHANGED <<now, stamp, count, verdict, lost>>

ZAdd(r) ==
    /\ pc[r] = "zadd"
    /\ zset' = zset \cup {stamp[r]}
    /\ Goto(r, "zcard")
    /\ UNCHANGED <<now, ttl, stamp, count, verdict, lost, cut>>

ZCard(r) ==
    /\ pc[r] = "zcard"
    /\ count' = [count EXCEPT ![r] = Cardinality(zset)]
    /\ Goto(r, "expire")
    /\ UNCHANGED <<now, zset, ttl, stamp, verdict, lost, cut>>

\* EXPIRE, which does nothing to a missing key.
SetExpiry ==
    /\ ttl' = IF zset = {} THEN 0 ELSE now + Window
    /\ cut' = FALSE

\* Mutant: the request itself is not counted against the limit.
ExpireOffByOne(r) ==
    /\ pc[r] = "expire"
    /\ SetExpiry
    /\ verdict' = [verdict EXCEPT ![r] = IF count[r] - 1 <= Limit THEN "allowed" ELSE "denied"]
    /\ Goto(r, "done")
    /\ UNCHANGED <<now, zset, stamp, count, lost>>

\* Mutant: the pipeline has no EXPIRE.
NeverExpire(r) ==
    /\ pc[r] = "expire"
    /\ verdict' = [verdict EXCEPT ![r] = IF count[r] <= Limit THEN "allowed" ELSE "denied"]
    /\ Goto(r, "done")
    /\ UNCHANGED <<now, zset, ttl, stamp, count, lost, cut>>

\* EXPIRE and the verdict on the replies.
Expire(r) ==
    /\ pc[r] = "expire"
    /\ SetExpiry
    /\ verdict' = [verdict EXCEPT ![r] = IF count[r] <= Limit THEN "allowed" ELSE "denied"]
    /\ Goto(r, "done")
    /\ UNCHANGED <<now, zset, stamp, count, lost>>

\* Mutant: the middleware drops the request on an error.
RedisFailsUnanswered(r) ==
    /\ r \in InFlight
    /\ Goto(r, "done")
    /\ UNCHANGED <<now, zset, ttl, stamp, count, verdict, lost, cut>>

\* Redis fails at any point of the pipeline, at its end perhaps only in the reply: the
\* middleware lets the request pass.  An entry added to a key without an expiry stays
\* without one.
RedisFails(r) ==
    /\ r \in InFlight
    /\ verdict' = [verdict EXCEPT ![r] = "open"]
    /\ Goto(r, "done")
    /\ \/ /\ cut' = (cut \/ (pc[r] \in {"zcard", "expire"} /\ zset # {} /\ ttl = 0))
          /\ UNCHANGED ttl
       \/ pc[r] = "expire" /\ SetExpiry
    /\ UNCHANGED <<now, zset, stamp, count, lost>>

\* Time passes, as far as the checks in flight allow, and the key may expire.
Tick ==
    /\ now < MaxTime
    /\ \A r \in InFlight : now < stamp[r] + MaxLatency
    /\ now' = now + 1
    /\ IF ttl # 0 /\ ttl <= now'
       THEN /\ zset' = {}
            /\ ttl' = 0
            /\ cut' = FALSE
            /\ lost' = lost \cup {r \in Requests : stamp[r] \in zset /\ stamp[r] > now' - Window}
       ELSE UNCHANGED <<zset, ttl, lost, cut>>
    /\ UNCHANGED <<pc, stamp, count, verdict>>

Next ==
    \/ \E r \in Requests : \/ Start(r) \/ ZRemRangeByScore(r) \/ ZAdd(r)
                           \/ ZCard(r) \/ Expire(r) \/ RedisFails(r)
    \/ Tick

Spec == Init /\ [][Next]_vars
--------------------------------------------------------------------------------
\* The requests with a given verdict stamped after t and up to t + length.
Within(v, t, length) ==
    {r \in Requests : verdict[r] = v /\ stamp[r] > t /\ stamp[r] <= t + length}

\* However the pipelines of concurrent checks alternate, no window, less the
\* latency a check may have, lets more than Limit requests pass, if the requests
\* whose entry the key's expiry took too early are left out (limiter.go:53-104).
AdmitBound ==
    \A t \in 0..now : Cardinality(Within("allowed", t, Window - MaxLatency) \ lost) <= Limit

\* A request is denied only if Limit others were made within its window: denied
\* requests count, expired ones never do.  In particular whoever waits until
\* ResetAt without retrying is let through (limiter.go:70, 90-99).
DenialJustified ==
    \A r \in Requests : verdict[r] = "denied" =>
        Cardinality({q \in Requests \ {r} : stamp[q] # 0 /\ stamp[q] > stamp[r] - Window}) >= Limit

\* Once no check is in flight, the key has an expiry if it exists, at most a window
\* away; the exception, cut, is a pipeline that broke off after it had added to a key
\* without an expiry: such a key has none until the next check that completes, which
\* for an identifier that does not come back is never (limiter.go:73-87).
KeyExpires ==
    zset # {} => \/ ttl > now /\ ttl <= now + Window
                 \/ cut
                 \/ \E r \in Requests : pc[r] \in {"zcard", "expire"}

\* What holds of every state besides the bound: the types, that nobody is refused
\* without reason, and that a key expires unless a failure cut its pipeline off.
Inv == TypeOK /\ DenialJustified /\ KeyExpires
================================================================================
