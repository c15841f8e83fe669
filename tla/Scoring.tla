------------------------------ MODULE Scoring ------------------------------
(***************************************************************************)
(* The scores, as pure operators: quality.ComputeV2, the scores of the     *)
(* first version and of the command line tester, the bonus for AI sites,   *)
(* the purity of an exit.  Floating point numbers are fixed point numbers  *)
(* with two decimals, rounded down: 10000 is 100 points.                   *)
(*                                                                         *)
(* A measurement m of a node has the success rate (in percent), latencies  *)
(* in milliseconds, TLS ("none", "failed", "ok"), the stability of seven   *)
(* days in percent (0: unknown), the protocol, and the dial: "none",       *)
(* "failed", "ok", its status code, time and throughput.  Throughput is    *)
(* the power of two of 64 KiB/s, Unmeasured when nothing was read.         *)
(***************************************************************************)
EXTENDS Integers

Clamped(v, lo, hi) == IF v < lo THEN lo ELSE IF v > hi THEN hi ELSE v
Larger(x, y) == IF x > y THEN x ELSE y
Smaller(x, y) == IF x < y THEN x ELSE y

Unmeasured == -99

-----------------------------------------------------------------------------
(* quality.ComputeV2 of a node that is alive.                              *)

DefaultWeights == [latency |-> 25, success |-> 25, stability |-> 15, tls |-> 10, http |-> 15, throughput |-> 10]
weightSum(w) == w.latency + w.success + w.stability + w.tls + w.http + w.throughput

Connectivity(m) ==
    CASE m.dial = "ok" -> Larger(m.success * 100, 9500)
      [] m.dial = "failed" -> Smaller(m.success * 100, 2000)
      [] OTHER -> m.success * 100

\* The latency of the dial comes before that of the probes.
Latency(m) == LET l == IF m.dial # "none" /\ m.dialLatency > 0 THEN m.dialLatency ELSE m.latency
              IN  4000000 \div (400 + (IF l <= 0 THEN 500 ELSE l))

Stability(m) == IF m.stability > 0 THEN m.stability * 100 ELSE Connectivity(m)

TLSInverted(m) == CASE m.tls = "none" -> 8000 [] m.tls = "ok" -> 4000 [] m.tls = "failed" -> 10000   \* mutant
TLSPoints(m) == CASE m.tls = "none" -> 8000 [] m.tls = "failed" -> 4000 [] m.tls = "ok" -> 10000

\* Slow answers count down to a quarter.
HTTPPoints(m) ==
    LET base == IF m.dial # "none" /\ m.status \in 200..399 THEN 10000
                ELSE IF m.dial # "none" /\ m.status > 0 THEN 1000 ELSE 5000
    IN  IF m.httpMS > 0 THEN Larger((base * 2000) \div (2000 + m.httpMS), base \div 4) ELSE base

Throughput(m) == IF m.throughput = Unmeasured THEN 5000 ELSE Clamped(2000 + 2000 * m.throughput, 1000, 10000)

\* protocolCompleteness; complete says that the credentials are there.
protocolCompleteness(m) ==
    CASE m.protocol \in {"vless", "vmess"} /\ m.complete -> IF m.tls # "none" THEN 100 ELSE 85
      [] m.protocol \in {"trojan", "hysteria2"} /\ m.complete -> 95
      [] m.protocol = "ss" /\ m.complete -> 90
      [] OTHER -> 70

\* The total in hundredths.  Weights of zero are the default ones.
ComputeV2(m, configured) ==
    LET w == IF weightSum(configured) > 0 THEN configured ELSE DefaultWeights
        sum == Latency(m) * w.latency + Connectivity(m) * w.success + Stability(m) * w.stability
                   + TLSPoints(m) * w.tls + HTTPPoints(m) * w.http + Throughput(m) * w.throughput
    IN  Clamped(((sum \div weightSum(w)) * (8500 + 15 * protocolCompleteness(m))) \div 10000, 0, 10000)

\* ApplyV2 rounds to one decimal; the grade is that of the total.
Score(total) == ((total + 5) \div 10) * 10

AssignGrade(score) ==
    CASE score >= 9000 -> "S" [] score >= 8000 -> "A" [] score >= 6500 -> "B"
      [] score >= 5000 -> "C" [] score >= 3500 -> "D" [] OTHER -> "F"

-----------------------------------------------------------------------------
(* The scores of the first version.                                        *)

\* quality.computeScore
computeScore(m) ==
    LET lat == Larger(m.latency, 1)
        success == m.success * 35
        latency == IF lat <= 80 THEN 4000 ELSE IF lat >= 2500 THEN 200 ELSE 2000000 \div (500 + lat)
        jitter == 80000 \div (80 + m.jitter)
        plain == CASE m.protocol \in {"vless", "hysteria2", "tuic"} -> 1000
                   [] m.protocol \in {"trojan", "vmess"} -> 800
                   [] m.protocol = "ss" -> 600 [] OTHER -> 500
        withTLS == IF m.tls # "none" THEN Smaller(1000, plain + 200) ELSE plain
        protocol == IF m.tls = "failed" THEN withTLS \div 2 ELSE withTLS
    IN  Score(Clamped(success + latency + jitter + protocol + 250, 0, 10000))

\* tester.scoreOf, of the command line pipeline.
scoreOf(m) ==
    Clamped(4000000 \div (400 + Larger(m.latency, 1)) + (IF m.tls # "none" THEN 300 ELSE 0)
                - (IF m.tls = "failed" THEN 1500 ELSE 0), 0, 10000)

\* aiaccess.boostAIScore: rate is the share of the AI sites that answer, in percent.
boostAIScore(score, rate) == Clamped(score + 15 * rate, 0, 10000)

-----------------------------------------------------------------------------
(* purity.scorePurity, in points.                                          *)

scorePurity(r) ==
    Clamped(75 - (IF r.proxy THEN 45 ELSE 0) - (IF r.hosting THEN 30 ELSE 0) + (IF r.mobile THEN 10 ELSE 0)
               + (IF r.trace THEN 10 ELSE -15)
               + (CASE r.challenge = "none" -> 10 [] r.challenge = "soft" -> -15 [] r.challenge = "hard" -> -35
                    [] r.challenge = "blocked" -> -50 [] r.challenge = "error" -> -10)
               - (IF r.datacenter THEN 15 ELSE 0), 0, 100)

CleanGrade(clean) ==
    CASE clean >= 85 -> "S" [] clean >= 70 -> "A" [] clean >= 55 -> "B"
      [] clean >= 40 -> "C" [] clean >= 25 -> "D" [] OTHER -> "F"

\* classifyCFChallenge, of the first page that answers: its code and the marks of a
\* challenge in its body.
classifyCFChallenge(first, second) ==
    LET page == IF first.answered THEN first ELSE second
    IN  CASE ~page.answered -> "error"
          [] page.code \in {403, 503} -> IF page.marks \cap {"platform", "turnstile"} # {} THEN "hard" ELSE "blocked"
          [] page.code \notin {403, 503} /\ page.marks \cap {"moment", "platform", "turnstile"} # {} ->
                 IF page.marks \cap {"turnstile", "running"} # {} THEN "hard" ELSE "soft"
          [] OTHER -> IF page.code \in 200..399 THEN "none" ELSE "error"

-----------------------------------------------------------------------------
(* Reference: what "better" means.                                         *)

TLSOrder == [none |-> 2, failed |-> 1, ok |-> 3]
DialOrder == [failed |-> 1, ok |-> 2]
GradeOrder == [F |-> 0, D |-> 1, C |-> 2, B |-> 3, A |-> 4, S |-> 5]

\* b is at least as good as a in all that was measured in both; the protocol, the
\* presence of TLS and what was measured at all are the same.
AtLeastAsGood(b, a) ==
    /\ b.protocol = a.protocol /\ b.complete = a.complete
    /\ (b.tls = "none") = (a.tls = "none") /\ TLSOrder[b.tls] >= TLSOrder[a.tls]
    /\ b.success >= a.success /\ b.jitter <= a.jitter
    /\ b.latency > 0 /\ b.latency <= a.latency
    /\ (b.stability = 0) = (a.stability = 0) /\ b.stability >= a.stability
    /\ (b.dial = "none") = (a.dial = "none")
    /\ b.dial # "none" => /\ DialOrder[b.dial] >= DialOrder[a.dial]
                          /\ (b.dialLatency = 0) = (a.dialLatency = 0)
                          /\ b.dialLatency <= a.dialLatency
                          /\ (b.dial = "ok") = (b.status \in 200..399)
                          /\ (a.dial = "ok") = (a.status \in 200..399)
                          /\ (b.status = 0) = (a.status = 0) \/ b.dial = "ok"
    /\ (b.httpMS = 0) = (a.httpMS = 0) /\ b.httpMS <= a.httpMS
    /\ (b.throughput = Unmeasured) = (a.throughput = Unmeasured) /\ b.throughput >= a.throughput
=============================================================================
