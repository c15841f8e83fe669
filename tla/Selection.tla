------------------------------ MODULE Selection ------------------------------
(***************************************************************************)
(* What is selected for publication, as pure operators: the filters and    *)
(* orders of the store, of package filter, of SelectPublishNodesCountry,   *)
(* of the pools, of the rendered blob and of a subscription token.         *)
(*                                                                         *)
(* nodes is a function from identifiers (numbers) to the records of the    *)
(* nodes; a selection is the set of the identifiers in it.  Its order      *)
(* matters where it is cut, and is given there.  Times are ages, in the    *)
(* unit of the configuration; Never is the age of a time that was not set. *)
(* c is a configuration; 0 is a setting that is not set.  Country codes    *)
(* and protocols are already trimmed and in one case.                      *)
(***************************************************************************)
EXTENDS Ordered

Never == -1

-----------------------------------------------------------------------------
(* Store.ListNodes.                                                        *)

countryCode(code) == IF code = "UK" THEN "GB" ELSE code
Known(code) == IF code = "" THEN "XX" ELSE code
normalizeProtocol(p) == IF p = "hy2" THEN "hysteria2" ELSE p

\* The first value that is set.
Either(x, y) == IF x > 0 THEN x ELSE y

NoFilter == [country |-> "", aliveOnly |-> FALSE, minScore |-> 0, highQuality |-> FALSE,
             verifiedOnly |-> FALSE, dialWithin |-> Never, engine |-> "", seenWithin |-> Never]

PassedEngine(n, engine) == engine \in n.engines

\* Times lie within the limit, the limit included.
MatchTimes(f, n) ==
    /\ f.dialWithin # Never => n.dialed # Never /\ n.dialed <= f.dialWithin
    /\ f.seenWithin # Never /\ n.seen # Never => n.seen <= f.seenWithin

MatchVerbatim(f, n) ==   \* mutant
    /\ f.country \in {"", Known(n.country)}
    /\ f.aliveOnly => n.alive
    /\ n.score >= f.minScore
    /\ f.verifiedOnly => n.verified
    /\ MatchTimes(f, n)
Match(f, n) ==
    /\ f.country # "" => countryCode(Known(n.country)) = countryCode(f.country)
    /\ f.aliveOnly => n.alive
    /\ f.minScore > 0 => n.score >= f.minScore
    /\ f.highQuality => n.score >= 70
    /\ f.verifiedOnly => n.verified
    /\ f.engine # "" => PassedEngine(n, f.engine)
    /\ MatchTimes(f, n)

Cut(S, before(_, _), limit) == IF limit > 0 THEN First(S, before, limit) ELSE S

\* By score, then latency, then name and identifier.
Better(nodes, i, j) ==
    LET a == nodes[i]
        b == nodes[j]
    IN  \/ a.score > b.score
        \/ a.score = b.score /\ a.latency < b.latency
        \/ a.score = b.score /\ a.latency = b.latency /\ i < j

ListNodes(nodes, f, limit) ==
    Cut({i \in DOMAIN nodes : Match(f, nodes[i])}, LAMBDA i, j : Better(nodes, i, j), limit)

-----------------------------------------------------------------------------
(* filter.Apply.                                                           *)

\* The orders "score" and "latency".
Precedes(c, a, b) ==
    CASE c.preferTLS /\ a.tls # b.tls -> a.tls
      [] c.sortBy = "score" -> a.score > b.score \/ (a.score = b.score /\ a.latency < b.latency)
      [] OTHER -> IF a.alive # b.alive THEN a.alive
                  ELSE a.latency < b.latency \/ (a.latency = b.latency /\ a.score > b.score)

\* A stable sort: what it leaves open stays in the order of ListNodes.
sortNodes(c, nodes, i, j) ==
    \/ Precedes(c, nodes[i], nodes[j])
    \/ ~Precedes(c, nodes[j], nodes[i]) /\ Better(nodes, i, j)

Passes(c, n) == /\ c.minSuccess => n.alive
                /\ n.alive => n.latency <= Either(c.maxLatency, 2500)
                /\ c.filterScore > 0 /\ n.score > 0 => n.score >= c.filterScore

Apply(c, nodes, S) ==
    Cut({i \in S : Passes(c, nodes[i])}, LAMBDA i, j : sortNodes(c, nodes, i, j), c.filterMax)

-----------------------------------------------------------------------------
(* SelectPublishNodesCountry.                                              *)

MinScore(c) == Either(c.minScore, Either(c.filterScore, 70))
MaxNodes(c) == Either(c.maxNodes, c.filterMax)
SeenWithin(c) == Either(c.maxAge, 24)

PublishFilter(c, country) ==
    [NoFilter EXCEPT !.aliveOnly = c.enabled => c.aliveOnly, !.minScore = MinScore(c), !.country = country,
                     !.seenWithin = SeenWithin(c), !.highQuality = MinScore(c) >= 70,
                     !.verifiedOnly = c.dial,
                     !.dialWithin = IF c.dial THEN Either(c.verifiedTTL, 6) ELSE Never,
                     !.engine = IF c.dial /\ c.engine # "auto" THEN c.engine ELSE ""]

\* Without dialing an empty selection falls back to a lower score, and to none.
Fallback(c, nodes, country, S) ==
    LET f == [NoFilter EXCEPT !.aliveOnly = TRUE, !.seenWithin = SeenWithin(c)]
        fair == ListNodes(nodes, [f EXCEPT !.minScore = 50], 2 * MaxNodes(c))
    IN  IF S # {} \/ country # "" \/ c.dial THEN S
        ELSE IF fair # {} THEN fair ELSE ListNodes(nodes, f, MaxNodes(c))

CutFirst(c, nodes, country) ==   \* mutant
    Apply(c, nodes, ListNodes(nodes, PublishFilter(c, country), MaxNodes(c)))
SelectPublishNodesCountry(c, nodes, country) ==
    LET hq == ListNodes(nodes, PublishFilter(c, country), 3 * MaxNodes(c))
    IN  Cut(Apply(c, nodes, Fallback(c, nodes, country, hq)),
            LAMBDA i, j : sortNodes(c, nodes, i, j), MaxNodes(c))

-----------------------------------------------------------------------------
(* Pools.                                                                  *)

\* normalizedSet: names longer than two letters are protocols, whose case is
\* restored; a name of two letters stays in upper case.
normalizedSet(values) == {IF v = "ss" THEN "SS" ELSE normalizeProtocol(v) : v \in values \ {""}}

\* Configured: the defaults of a pool.
Configured(c, pool) ==
    [pool EXCEPT !.minScore = Either(@, Either(c.filterScore, 70)),
                 !.maxNodes = Either(@, Either(c.maxNodes, 500)),
                 !.countries = normalizedSet(@), !.protocols = normalizedSet(@)]

InPool(pool, n) ==
    /\ pool.requireAI => n.ai
    /\ pool.maxLatency > 0 => n.latency <= pool.maxLatency
    /\ pool.countries # {} => Known(n.country) \in pool.countries
    /\ pool.protocols # {} => normalizeProtocol(n.protocol) \in pool.protocols

\* pools.Select, from a pre-selection.
PoolSelect(c, nodes, raw) ==
    LET pool == Configured(c, raw)
        fresh == pool.verified /\ c.verifiedTTL > 0
        wide == IF 20 * pool.maxNodes > 5000 THEN 20 * pool.maxNodes ELSE 5000
        f == [NoFilter EXCEPT !.aliveOnly = TRUE, !.minScore = pool.minScore,
                              !.verifiedOnly = pool.verified,
                              !.dialWithin = IF fresh THEN c.verifiedTTL ELSE Never,
                              !.engine = IF fresh /\ c.engine # "auto" THEN c.engine ELSE ""]
    IN  Cut({i \in ListNodes(nodes, f, wide) : InPool(pool, nodes[i])},
            LAMBDA i, j : Better(nodes, i, j), pool.maxNodes)

-----------------------------------------------------------------------------
(* The rendered blob and the scope of a token.                             *)

InCountry(nodes, S, cc) == {i \in S : countryCode(Known(nodes[i].country)) = cc}

\* Cache.Update: all nodes, and those of the largest known countries; which of
\* two countries of the same size comes first is left to the map's order.
Blobs(c, nodes, S) ==
    LET codes == {countryCode(Known(nodes[i].country)) : i \in S} \ {"XX"}
        size(cc) == Cardinality(InCountry(nodes, S, cc))
        largest(K) == /\ Cardinality(K) = IF Cardinality(codes) > Either(c.maxCountries, 30)
                                          THEN Either(c.maxCountries, 30) ELSE Cardinality(codes)
                      /\ \A k \in K, o \in codes \ K : size(k) >= size(o)
    IN  {[all |-> S, countries |-> [cc \in K |-> InCountry(nodes, S, cc)]] :
            K \in {K \in SUBSET codes : largest(K)}}

\* Blob.Format: {} stands for "not rendered" as well, serveSubFormat makes no
\* difference between the two.
Format(blob, country) ==
    IF country = "" THEN blob.all
    ELSE IF countryCode(country) \in DOMAIN blob.countries THEN blob.countries[countryCode(country)]
    ELSE {}

InScope(p, n) ==
    /\ p.countries # {} => countryCode(Known(n.country)) \in {countryCode(cc) : cc \in p.countries}
    /\ p.protocols # {} => normalizeProtocol(n.protocol)
                               \in {normalizeProtocol(x) : x \in p.protocols}

filterTokenNodes(nodes, S, p) == {i \in S : InScope(p, nodes[i])}

Scoped(p) == p.countries # {} \/ p.protocols # {}

ScopedByProtocol(p, country) == ~Scoped(p) \/ country # ""   \* mutant
\* serveSubFormat takes the rendered body only when the scope cannot cut it.
CacheServes(p, country) == ~Scoped(p) \/ (country # "" /\ p.protocols = {})

principalAllowsCountry(p, country) ==
    country # "" /\ p.countries # {} => countryCode(country) \in {countryCode(cc) : cc \in p.countries}
=============================================================================
