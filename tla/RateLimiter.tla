----------------------------- MODULE RateLimiter -----------------------------
(***************************************************************************)
(* The token bucket that limits a client, the address a client is told     *)
(* apart by, and the cleanup that forgets clients that have been idle.     *)
(* A token of the bucket is counted in units of 1/Unit, so that a rate     *)
(* below one request per second is a whole number.                         *)
(*                                                                         *)
(* A request is [by, remote, xff, real]: who made it, the address of the   *)
(* connection, the entries of X-Forwarded-For and of the other two         *)
(* headers.  Junk is an entry that is no address.                          *)
(***************************************************************************)
EXTENDS Integers, FiniteSets, Sequences

CONSTANTS
    Visitors,       \* the addresses
    TrustedProxies, \* those of the configured proxies
    Calls,          \* the requests that are made
    Junk,           \* a header entry that does not parse
    Unit,           \* units per request
    Rate,           \* units gained per second
    Burst,          \* requests a full bucket holds
    IdleAfter,      \* seconds after which a visitor is forgotten (600)
    MaxSecond       \* bound: the clock

\* A forgotten visitor comes back with a full bucket, so the bucket must have
\* filled up by then.
ASSUME LimiterAssumption ==
    /\ {Unit, Rate, Burst, IdleAfter} \subseteq Nat \ {0}
    /\ Rate * IdleAfter >= Burst * Unit
    /\ MaxSecond \in Nat /\ Junk \notin Visitors

\* A client connects directly, or to a proxy of those configured.  Every proxy
\* appends the address it was called from to X-Forwarded-For, whatever the client
\* put there, or sets one of the other headers.
ASSUME CallsAssumption ==
    \A r \in Calls :
        /\ r.by \in Visitors \ TrustedProxies
        /\ r.xff \in Seq(Visitors \cup {Junk}) /\ r.real \in Seq(Visitors \cup {Junk})
        /\ \/ r.remote = r.by
           \/ /\ r.remote \in TrustedProxies
              /\ \/ \E k \in DOMAIN r.xff :
                       /\ r.xff[k] = r.by
                       /\ \A l \in DOMAIN r.xff : l > k => r.xff[l] \in TrustedProxies
                 \/ /\ r.xff = <<>>
                    /\ \E k \in DOMAIN r.real :
                          r.real[k] = r.by /\ \A l \in DOMAIN r.real : l < k => r.real[l] = Junk

VARIABLES
    visitors,       \* Visitors -> the bucket, or NoBucket
    second,         \* the clock
    granted,        \* clients -> the seconds of their requests let through
    refused         \* clients -> was the last request refused

limiterVars == <<visitors, second, granted, refused>>

NoBucket == [tokens |-> -1, last |-> 0]

LimiterInit ==
    /\ visitors = [v \in Visitors |-> NoBucket]
    /\ second = 0
    /\ granted = [v \in Visitors |-> <<>>]
    /\ refused = [v \in Visitors |-> FALSE]

-----------------------------------------------------------------------------
(* The client of a request.                                                *)

ClientIPFirst(r) ==   \* mutant
    IF r.remote \in TrustedProxies /\ r.xff # <<>> /\ Head(r.xff) # Junk THEN Head(r.xff) ELSE r.remote
\* The last entry that is not a proxy's, from the right, or the first one.
ClientIP(r) ==
    LET stops == {k \in DOMAIN r.xff : r.xff[k] # Junk /\ (r.xff[k] \notin TrustedProxies \/ k = 1)}
        known == {k \in DOMAIN r.real : r.real[k] # Junk}
    IN  IF r.remote \notin TrustedProxies THEN r.remote
        ELSE IF stops # {} THEN r.xff[CHOOSE k \in stops : \A l \in stops : l <= k]
        ELSE IF known # {} THEN r.real[CHOOSE k \in known : \A l \in known : k <= l]
        ELSE r.remote

-----------------------------------------------------------------------------
(* The bucket.                                                             *)

\* What the bucket holds now.
Filled(bucket) ==
    LET tokens == bucket.tokens + (second - bucket.last) * Rate
    IN  IF tokens > Burst * Unit THEN Burst * Unit ELSE tokens

\* A refused request takes nothing, and loses nothing.
Refuse(v) ==
    visitors' = [visitors EXCEPT ![v] = [tokens |-> Filled(@), last |-> second]]

AllowRate(r) ==
    LET v == ClientIP(r)
    IN  /\ \/ /\ visitors[v] = NoBucket \/ Filled(visitors[v]) >= Unit
              /\ visitors' = [visitors EXCEPT ![v] =
                     [tokens |-> (IF @ = NoBucket THEN Burst * Unit ELSE Filled(@)) - Unit, last |-> second]]
              /\ granted' = [granted EXCEPT ![r.by] = Append(@, second)]
              /\ refused' = [refused EXCEPT ![r.by] = FALSE]
           \/ /\ visitors[v] # NoBucket
              /\ Filled(visitors[v]) < Unit
              /\ Refuse(v)
              /\ refused' = [refused EXCEPT ![r.by] = TRUE]
              /\ UNCHANGED granted
        /\ UNCHANGED second

Idle(v) == second - visitors[v].last > IdleAfter

\* The ticker of the cleanup runs every five minutes, at any phase.
Cleanup ==
    /\ \E v \in Visitors : visitors[v] # NoBucket /\ Idle(v)
    /\ visitors' = [v \in Visitors |-> IF visitors[v] # NoBucket /\ Idle(v) THEN NoBucket ELSE visitors[v]]
    /\ UNCHANGED <<second, granted, refused>>

SecondPasses ==
    /\ second < MaxSecond
    /\ second' = second + 1
    /\ refused' = [v \in Visitors |-> FALSE]
    /\ UNCHANGED <<visitors, granted>>

LimiterNext == Cleanup \/ SecondPasses \/ \E r \in Calls : AllowRate(r)

-----------------------------------------------------------------------------
(* Properties.                                                             *)

\* Over every interval a client gets at most a burst and what the rate grants
\* in that time, through whichever proxies and headers its requests come, and
\* although the cleanup forgets clients (ClientIP, AllowRate, cleanup).  A client
\* that got nothing for the time one request takes to refill is let through, no
\* matter how often it asked in between.
RateKept ==
    \A v \in Visitors :
        /\ \A i \in DOMAIN granted[v] : \A j \in i..Len(granted[v]) :
              (j - i + 1) * Unit <= Burst * Unit + Rate * (granted[v][j] - granted[v][i])
        /\ refused[v] /\ granted[v] # <<>> =>
              (second - granted[v][Len(granted[v])]) * Rate < Unit
=============================================================================
