----------------------------- MODULE Publication -----------------------------
(***************************************************************************)
(* What a subscription request is answered with: the rendered blob while   *)
(* it is fresh and the scope of the token cannot cut it, otherwise a       *)
(* selection made for the request, cut to the scope.  Jobs change the      *)
(* nodes and time passes in between.  A request reads the blob, or the     *)
(* nodes, at one moment; its answer is therefore an operator of the state, *)
(* and the properties speak of every request that could be made in it.     *)
(***************************************************************************)
EXTENDS Selection, FiniteSetsExt, Functions

CONSTANTS Ids,        \* identifiers of nodes: numbers
          Profiles,   \* records a job may leave a node with
          Configs,    \* configurations
          Tokens,     \* scopes of tokens: [countries, protocols]
          Codes,      \* country codes in requests, "" for none
          Pools,      \* configured pools
          AgeCap,     \* bound: older is no different
          MaxUpserts  \* bound: records written after the start

Age == Nat \cup {Never}
Nodes == [country : STRING, protocol : STRING, alive : BOOLEAN, score : Nat, latency : Nat, tls : BOOLEAN,
          verified : BOOLEAN, dialed : Age, engines : SUBSET STRING, seen : Age, ai : BOOLEAN]
Settings == [minScore : Nat, filterScore : Nat, maxNodes : Nat, filterMax : Nat, aliveOnly : BOOLEAN,
             enabled : BOOLEAN, dial : BOOLEAN, engine : STRING \ {""}, verifiedTTL : Nat, maxAge : Nat,
             maxLatency : Nat, minSuccess : BOOLEAN, sortBy : STRING, preferTLS : BOOLEAN,
             maxCountries : Nat, interval : Nat]

Descriptions == [minScore : Nat, maxLatency : Nat, maxNodes : Nat, requireAI : BOOLEAN, verified : BOOLEAN,
                 countries : SUBSET (STRING \ {""}), protocols : SUBSET (STRING \ {""})]

\* An engine is set, and the countries of a pool are no protocols.
ASSUME PublicationAssumption ==
    /\ Ids \subseteq Nat /\ IsFiniteSet(Ids) /\ AgeCap \in Nat
    /\ Profiles \subseteq Nodes /\ Configs \subseteq Settings /\ Pools \subseteq Descriptions
    /\ \A pool \in Pools : {"ss", "hy2"} \cap pool.countries = {}

VARIABLES nodes,      \* the node store
          cfg,        \* the configuration
          blob,       \* the rendered blob, or NoBlob
          changed,    \* history: nodes were changed, or aged, since it was rendered
          upserts     \* history: records written

vars == <<nodes, cfg, blob, changed, upserts>>

NoBlob == [age |-> Never]

Init == /\ nodes \in [Ids -> Profiles] /\ cfg \in Configs
        /\ blob = NoBlob /\ changed = TRUE /\ upserts = 0

-----------------------------------------------------------------------------
Older(age) == IF age = Never \/ age = AgeCap THEN age ELSE age + 1

\* A phase of a job leaves a node with other observations.
UpsertNode(i, n) == /\ upserts < MaxUpserts /\ upserts' = upserts + 1
                    /\ nodes' = [nodes EXCEPT ![i] = n] /\ changed' = TRUE
                    /\ UNCHANGED <<cfg, blob>>

HourPasses == /\ nodes' = [i \in Ids |-> [nodes[i] EXCEPT !.seen = Older(@), !.dialed = Older(@)]]
              /\ blob' = [blob EXCEPT !.age = Older(@)] /\ changed' = TRUE
              /\ UNCHANGED <<cfg, upserts>>

RefreshPublishCache ==
    LET S == SelectPublishNodesCountry(cfg, nodes, "") IN
    /\ \E b \in Blobs(cfg, nodes, S) : blob' = [age |-> 0, body |-> b, of |-> Restrict(nodes, S)]
    /\ changed' = FALSE
    /\ UNCHANGED <<nodes, cfg, upserts>>

Next == \/ \E i \in Ids, n \in Profiles : UpsertNode(i, n)
        \/ HourPasses \/ RefreshPublishCache

Spec == Init /\ [][Next]_vars

-----------------------------------------------------------------------------
(* Answers: the nodes in the body, with the records they were read with.   *)

publishCacheMaxAge(c) ==
    LET age == Either(c.maxAge, 24)
    IN  IF c.interval > 0 /\ 2 * c.interval < age THEN 2 * c.interval ELSE age

FreshForever(b, maxAge) == b # NoBlob   \* mutant
Fresh(b, maxAge) == b # NoBlob /\ maxAge > 0 /\ b.age <= maxAge

Live(p, country) == [of |-> nodes, ids |-> filterTokenNodes(nodes,
                         SelectPublishNodesCountry(cfg, nodes, country), p)]

\* freshPublishBlob and Format; an empty body is a miss.
Cached(p, country) == IF Fresh(blob, publishCacheMaxAge(cfg)) /\ CacheServes(p, country)
                      THEN Format(blob.body, countryCode(country)) ELSE {}

serveSubFormat(p, country) ==
    IF Cached(p, country) # {} THEN [of |-> blob.of, ids |-> Cached(p, country)]
    ELSE Live(p, country)

handleSubCountry(p, country) == Live(p, countryCode(country))

handleSubPool(p, pool) == [of |-> nodes, ids |-> filterTokenNodes(nodes, PoolSelect(cfg, nodes, pool), p)]

\* The answers a token can get; a request for a country out of its scope is refused.
Answers(p) ==
    {serveSubFormat(p, country) : country \in {x \in Codes : principalAllowsCountry(p, x)}}
    \cup {handleSubCountry(p, country) : country \in {x \in Codes \ {""} : principalAllowsCountry(p, x)}}
    \cup {handleSubPool(p, pool) : pool \in Pools}

-----------------------------------------------------------------------------
(* Properties.                                                             *)

\* Whichever way a body comes about, it holds only nodes of the countries and
\* protocols of the token: the rendered body of all nodes, or of a country, is
\* never served past a scope that it was not cut to.
ServedInScope == \A p \in Tokens : \A a \in Answers(p) : \A i \in a.ids :
    /\ p.countries = {} \/ \E cc \in p.countries :
           {a.of[i].country, cc} \in {{"UK", "GB"}, {cc}} \/ (a.of[i].country = "" /\ cc = "XX")
    /\ p.protocols = {} \/ \E x \in p.protocols :
           {a.of[i].protocol, x} \in {{"hy2", "hysteria2"}, {x}}

\* With dialing enabled a node is never served longer than verified_ttl_hours
\* after its last dial plus the time a rendered body is used, nor one that was
\* not verified: the two limits add up and nothing else does.
ServedIsRecent == cfg.dial => \A p \in Tokens, country \in Codes :
    LET a == serveSubFormat(p, country)
        age == IF Cached(p, country) # {} THEN blob.age ELSE 0
        ttl == IF cfg.verifiedTTL > 0 THEN cfg.verifiedTTL ELSE 6
    IN  \A i \in a.ids :
            /\ a.of[i].verified /\ cfg.engine \in a.of[i].engines \cup {"auto"}
            /\ a.of[i].alive \/ (cfg.enabled /\ ~cfg.aliveOnly)
            /\ a.of[i].dialed + age <= ttl + publishCacheMaxAge(cfg)
            /\ a.of[i].dialed \in 0..ttl

\* Rendering is transparent where selections cannot differ: with nodes as they
\* were rendered, selected by score and without the fallback, the rendered body
\* of a country holds only nodes that a selection for the country would give.
CacheWithinLive == ~changed /\ cfg.dial /\ cfg.sortBy = "score" /\ ~cfg.preferTLS =>
    \A p \in Tokens, country \in Codes : principalAllowsCountry(p, country) =>
        Cached(p, country) \subseteq Live(p, country).ids

\* A publication of dialed nodes by score, whose settings are all given and whose
\* limit is the smaller one.
Plain(c) ==
    /\ c.dial /\ c.engine # "auto" /\ c.sortBy = "score" /\ ~c.preferTLS /\ c.aliveOnly
    /\ 0 \notin {c.minScore, c.maxNodes, c.maxLatency, c.verifiedTTL, c.maxAge}
    /\ c.filterMax > 0 => c.maxNodes <= c.filterMax

\* Nodes that a reader of these settings expects to be published.
Eligible(c, n, country) ==
    /\ country \in {"", countryCode(Known(n.country))}
    /\ n.alive /\ n.verified /\ n.score >= c.minScore /\ n.score >= c.filterScore
    /\ n.latency <= c.maxLatency /\ n.dialed \in 0..c.verifiedTTL /\ c.engine \in n.engines
    /\ n.seen <= c.maxAge

\* chosen are as many of the eligible nodes as the limit allows, and the best.
BestOf(chosen, eligible, limit) ==
    /\ chosen \subseteq eligible
    /\ Cardinality(chosen) = Min({limit, Cardinality(eligible)})
    /\ \A i \in chosen, j \in eligible \ chosen : nodes[i].score >= nodes[j].score

\* Nodes that fit the description of a pool.
Fits(pool, n) ==
    /\ n.alive /\ n.score >= pool.minScore
    /\ pool.requireAI => n.ai
    /\ pool.maxLatency > 0 => n.latency <= pool.maxLatency
    /\ pool.verified => n.verified /\ cfg.engine \in n.engines \cup {"auto"} /\ n.dialed \in 0..cfg.verifiedTTL
    /\ pool.protocols = {} \/ \E x \in pool.protocols : {n.protocol, x} \in {{"hy2", "hysteria2"}, {x}}
    /\ pool.countries = {} \/ n.country \in pool.countries \/ (n.country = "" /\ "XX" \in pool.countries)

\* So few nodes that a pool reads them all: Select asks for no fewer than 5000.
FewNodes == Cardinality(Ids) <= 5000

\* A selection is the best of the nodes that the settings, or the description of
\* the pool, ask for, as many as the limit allows.  For a publication the cut to
\* three times the limit that precedes the filter on latency loses none as long as
\* no more nodes than that pass the first filter; for a pool, as long as there are
\* no more than 5000 nodes and if it names no protocol of two letters: "ss" is
\* normalised like a country and fits no node.
SelectsBest ==
    /\ Plain(cfg) =>
          \A country \in Codes \ {"UK"} :
             LET matching == {i \in Ids : Match(PublishFilter(cfg, country), nodes[i])}
             IN  Cardinality(matching) <= 3 * cfg.maxNodes =>
                     BestOf(SelectPublishNodesCountry(cfg, nodes, country),
                            {i \in Ids : Eligible(cfg, nodes[i], country)}, cfg.maxNodes)
    /\ FewNodes /\ cfg.verifiedTTL > 0 =>
          \A pool \in Pools : "ss" \notin pool.protocols /\ 0 \notin {pool.minScore, pool.maxNodes} =>
             BestOf(PoolSelect(cfg, nodes, pool), {i \in Ids : Fits(pool, nodes[i])}, pool.maxNodes)
=============================================================================
