----------------------------- MODULE MCPipeline -----------------------------
(***************************************************************************)
(* Pipeline for TLC, and the pure operators of DialPick, Scoring, Codec    *)
(* and Harvest over their bounded inputs: part tells which of them a       *)
(* behaviour is about.                                                     *)
(***************************************************************************)
EXTENDS Pipeline

CONSTANTS MaxList   \* bound: candidates that pickDialCandidates is given

VARIABLES part, input

Pick == INSTANCE DialPick
Form == INSTANCE Codec
Doc == INSTANCE Harvest

\* Tests alone over several days; a dial between two tests; the full job, then the
\* purity of what it verified.
MCPlans == {[after |-> FALSE, jobs |-> <<"quality", "quality", "quality", "quality", "quality">>],
            [after |-> FALSE, jobs |-> <<"quality", "dial", "full">>],
            [after |-> FALSE, jobs |-> <<"full", "full">>],
            [after |-> TRUE, jobs |-> <<"full", "purity", "dial">>]}

mcVars == <<pipeVars, part, input>>

\* Nodes to pick from: two keys and servers, and what moves a node in the order.
Candidate(key, server, score, latency, tags, recent) ==
    [key |-> key, server |-> server, score |-> score, latency |-> latency, verified |-> FALSE,
     tags |-> tags, protocol |-> "vless", supported |-> TRUE, recent |-> recent]
MCCandidates ==
    {Candidate(k, s, 7000, 100, {}, FALSE) : k \in {"a", "b"}, s \in {1, 2}}
        \cup {Candidate("a", 1, 8500, 5, {}, FALSE), Candidate("b", 2, 7200, 100, {"dial-fail"}, TRUE)}

MCMeasurements ==
    {m \in [success : {34, 67, 100}, latency : {50, 300, 2600}, jitter : {0, 60}, tls : {"none", "failed", "ok"},
            stability : {0, 40, 100}, protocol : {"vless", "ss"}, complete : {TRUE}, dial : {"none", "failed", "ok"},
            dialLatency : {0, 200}, status : {0, 204, 403}, httpMS : {0, 900}, throughput : {Unmeasured, -1, 3}] :
        /\ m.dial = "none" => m.dialLatency = 0 /\ m.status = 0 /\ m.httpMS = 0 /\ m.throughput = Unmeasured
        /\ (m.dial = "ok") = (m.status = 204)
        /\ m.status = 0 => m.httpMS = 0 /\ m.throughput = Unmeasured}

\* What may be better about a measurement.
Improved(m) ==
    {b \in    {[m EXCEPT !.success = x] : x \in {67, 100}} \cup {[m EXCEPT !.latency = x] : x \in {50, 300}}
         \cup {[m EXCEPT !.jitter = 0], [m EXCEPT !.tls = "ok"], [m EXCEPT !.stability = 100],
               [m EXCEPT !.dial = "ok", !.status = 204], [m EXCEPT !.throughput = 3]} : AtLeastAsGood(b, m)}

NoPage == [answered |-> FALSE, code |-> 0, marks |-> {}]
MCPages == {NoPage} \cup [answered : {TRUE}, code : {200, 403, 500},
                           marks : {{}, {"moment"}, {"platform"}, {"turnstile"}, {"moment", "running"}}]
MCPurity == {r \in [proxy : BOOLEAN, hosting : BOOLEAN, mobile : BOOLEAN, trace : BOOLEAN, datacenter : BOOLEAN,
                    first : MCPages, second : MCPages] : r.first.answered => r.second = NoPage}

\* Complete proxies of every protocol, with every transport and security that it
\* has, and up to two of the other fields.
Credentials ==
    {[type |-> "vmess", uuid |-> "u"], [type |-> "vmess", uuid |-> "u", cipher |-> "none", aid |-> "4"],
     [type |-> "vless", uuid |-> "u"], [type |-> "trojan", password |-> "w"],
     [type |-> "shadowsocks", cipher |-> "c", password |-> "w"],
     [type |-> "ss", cipher |-> "c", password |-> "w", plugin |-> "v2ray", pluginopts |-> "o"],
     [type |-> "ssr", cipher |-> "c", password |-> "w", ssrprotocol |-> "p", obfs |-> "o"],
     [type |-> "hy2", auth |-> "w"], [type |-> "hysteria2", password |-> "w", obfs |-> "o", obfspassword |-> "w"],
     [type |-> "tuic", uuid |-> "u", password |-> "w"], [type |-> "tuic", token |-> "k"]}
Transports ==
    {<<>>, [network |-> "tcp"], [network |-> "ws"], [network |-> "ws", path |-> "/p", host |-> "h", ed |-> "2048", opts |-> "o"],
     [network |-> "grpc", service |-> "s", mode |-> "gun"], [network |-> "h2", path |-> "/p", host |-> "h"],
     [network |-> "http", path |-> "/p"], [network |-> "httpupgrade", path |-> "/p", host |-> "h", opts |-> "o"],
     [network |-> "splithttp", path |-> "/p", host |-> "h", mode |-> "auto"]}
Securities(type) ==
    {<<>>} \cup (IF type \in {"vmess", "vless"} THEN {[tls |-> "true"]} ELSE {})
        \cup (IF type \in {"vless", "trojan"} THEN {[tls |-> "true", pbk |-> "k"], [tls |-> "true", pbk |-> "k", sid |-> "i"]}
              ELSE {})
Others(type) ==
    {<<>>} \cup
    (CASE type \in Form!Streams \cup {"hy2", "hysteria2", "tuic"} ->
            {"sni" :> "n", "servername" :> "n", "skip" :> "true", "alpn" :> "a", "fp" :> "firefox",
             "fingerprint" :> "f", "tlsopts" :> "o"}
       [] OTHER -> {})
    \cup (CASE type = "vless" -> {"flow" :> "vision", "packet" :> "xudp", "encryption" :> "e"}
            [] type = "vmess" -> {"packet" :> "xudp"}
            [] type \in {"hy2", "hysteria2"} -> {"ports" :> "1-2", "hop" :> "30", "up" :> "50"}
            [] type = "tuic" -> {"congestion" :> "bbr", "relay" :> "quic", "timeout" :> "8"}
            [] type = "ssr" -> {"obfsparam" :> "q"}
            [] OTHER -> {})
MCProxies ==
    UNION {{c @@ t @@ s @@ x @@ y : t \in IF c.type \in Form!Streams THEN Transports ELSE {<<>>},
                                    s \in Securities(c.type), x \in Others(c.type), y \in Others(c.type)} :
              c \in Credentials}

\* Documents of two sources with two servers; one of their addresses has two ports.
Links == [id : {1}, port : {1, 2}, ip : {TRUE}, ok : {TRUE}] \cup [id : {2}, port : {1}, ip : {FALSE}, ok : {TRUE}]
             \cup [id : {3}, port : {1}, ip : {FALSE}, ok : {FALSE}]
MCLines == {l \in [kind : {"uri", "comment", "text"}, uri : Links, spaced : BOOLEAN, uris : {<<>>}] :
                l.kind # "uri" => ~l.spaced /\ l.uri.port = 1}
               \cup {[kind |-> "coded", uri |-> x, spaced |-> FALSE, uris |-> <<x, y>>] : x, y \in Links}
Lists(S) == {<<a>> : a \in S} \cup {<<a, b>> : a, b \in S}
MCDocuments == [form : {"text"}, text : Lists(MCLines), proxies : {<<>>}]
                   \cup [form : {"clash"}, text : {<<>>},
                         proxies : Lists({x @@ "raw" :> raw : x \in Links, raw \in BOOLEAN})]
SmallDocuments == {d \in MCDocuments : Len(d.text) + Len(d.proxies) = 1}

MCNames == {<<"A">>, <<"A", 2>>, <<"REJECT">>, <<>>, <<"node-2">>, <<"NodeHarvest">>}
MCListed == UNION {[1..k -> {[name |-> n, raw |-> f # "noURI", builds |-> f # "noProxy", decodes |-> f # "fixed"] :
                                n \in MCNames, f \in {"all", "noURI", "noProxy"}}
                            \cup {[name |-> <<"A">>, raw |-> TRUE, builds |-> TRUE, decodes |-> FALSE]}] : k \in 1..3}
                \cup [1..4 -> [name : MCNames \ {<<"node-2">>}, raw : {TRUE}, builds : {TRUE}, decodes : {TRUE}]]

MCInit ==
    /\ \/ part = "jobs" /\ input = <<>>
       \/ part = "pick" /\ \E k \in 1..MaxList : input \in [list : [1..k -> MCCandidates], max : 1..MaxList]
       \/ part = "score" /\ input \in MCMeasurements
       \/ part = "purity" /\ input \in MCPurity
       \/ part = "forms" /\ input \in MCProxies
       \/ part = "documents" /\ input \in [first : MCDocuments, second : SmallDocuments, collapse : BOOLEAN,
                                           prefer : {"s1", "s2"}]
       \/ part = "names" /\ input \in MCListed
    /\ PipeInit
    /\ part # "jobs" => plan.after

MCNext == part = "jobs" /\ PipeNext /\ UNCHANGED <<part, input>>

MCSpec == MCInit /\ [][MCNext]_mcVars

-----------------------------------------------------------------------------
(* Properties of the pure operators.                                       *)

\* The choice of pickDialCandidates: no node twice, no more than asked for and none
\* with a recent result; at most three of a server; a node stays out only when the
\* list or its server is full; and one that ranks better comes later, or not at
\* all, only when its key or its server was used up by better ones.
PickSpread ==
    part = "pick" =>
        LET list == input.list
            out == Pick!pickDialCandidates(list, input.max, TRUE)
            ranks(i, j) == Pick!RanksBefore(list, i, j)
            ahead(p, y, Same(_, _)) ==
                Cardinality({q \in 1..p - 1 : ranks(out[q], y) /\ Same(list[out[q]], list[y])})
        IN  /\ \A p, q \in DOMAIN out : p # q => out[p] # out[q]
            /\ Len(out) <= input.max
            /\ \A p \in DOMAIN out : ~list[out[p]].recent /\ Pick!Used(list, out, out[p], Pick!SameServer) <= 3
            /\ \A y \in DOMAIN list \ Range(out) :
                  ~list[y].recent => Len(out) = input.max \/ Pick!Used(list, out, y, Pick!SameServer) = 3
            /\ \A p \in DOMAIN out : \A y \in DOMAIN list \ {out[q] : q \in 1..p} :
                  ranks(y, out[p]) /\ ~list[y].recent =>
                      \/ ahead(p, y, Pick!SameServer) >= 2
                      \/ ahead(p, y, Pick!SameKey) >= Pick!perKey(input.max)

\* The scores of b are no lower than those of a, and its grade is no worse.
ScoresAtLeast(b, a) ==
    /\ ComputeV2(b, DefaultWeights) >= ComputeV2(a, DefaultWeights)
    /\ GradeOrder[AssignGrade(ComputeV2(b, DefaultWeights))] >= GradeOrder[AssignGrade(ComputeV2(a, DefaultWeights))]
    /\ computeScore(b) >= computeScore(a)
    /\ scoreOf(b) >= scoreOf(a)

\* What speaks against an exit never makes it look cleaner, and one that is
\* challenged hard or blocked is never graded better than B.
PuritySound(r) ==
    /\ \A f \in {"proxy", "hosting", "datacenter"} : scorePurity([r EXCEPT ![f] = FALSE]) >= scorePurity(r)
    /\ scorePurity([r EXCEPT !.challenge = "none"]) >= scorePurity(r)
    /\ r.challenge \in {"hard", "blocked"} => CleanGrade(scorePurity(r)) \notin {"S", "A"}

\* A node that measures better in one respect, all else being equal, never scores
\* lower, in none of the three scores (ComputeV2, computeScore, scoreOf), nor does
\* an exit with less against it (classifyCFChallenge, scorePurity).
ScoreMonotone ==
    /\ part = "score" => \A b \in Improved(input) : ScoresAtLeast(b, input)
    /\ part = "purity" => PuritySound("challenge" :> classifyCFChallenge(input.first, input.second) @@ input)

-----------------------------------------------------------------------------
(* Properties of the forms of a node and of documents.                     *)

\* What Mihomo takes a proxy to say: the two names of a field, the defaults, and
\* what the protocol does not look at.
Meaning(m) ==
    LET p == Form!protocolOf(m)
        network == Form!clashNetwork(m)
        said == [type |-> p, sni |-> Form!First(Form!Get(m, "sni"), Form!Get(m, "servername")),
                 password |-> Form!First(Form!Get(m, "password"), Form!Get(m, "auth")),
                 cipher |-> Form!First(Form!Get(m, "cipher"), IF p = "vmess" THEN "auto" ELSE ""),
                 network |-> IF p \in Form!Streams THEN network ELSE "",
                 path |-> IF network \in {"tcp", "grpc"} THEN "" ELSE Form!First(Form!Get(m, "path"), "/"),
                 tls |-> IF p \in {"vmess", "vless"} THEN Form!Get(m, "tls") ELSE "",
                 fp |-> IF p \in Form!Streams THEN Form!Get(m, "fp") ELSE "",
                 auth |-> "", servername |-> ""]
    IN  Form!Keep(said @@ m)

\* Fields of a VMess proxy that clashMapToNode or BuildClashProxy drops.
DroppedByClash(type) == IF type = "vmess" THEN {"aid", "packet"} ELSE {}

\* A proxy that is read from a Clash document (clashMapToNode) and published in one
\* again (BuildClashProxy), or given to Mihomo, still says the same: WebSocket,
\* gRPC, Reality, plugin and QUIC options included.  Only a VMess proxy loses its
\* alterId and packet encoding.
ClashKept(m) ==
    LET n == Form!clashMapToNode(m)
        out == Form!BuildClashProxy(n)
        lost == DroppedByClash(n.protocol) \cup (IF Form!Has(n, "token") THEN {"uuid", "password"} ELSE {})
    IN  /\ out # Form!Nothing
        /\ Restrict(Meaning(out), DOMAIN Meaning(out) \ lost) = Restrict(Meaning(m), DOMAIN Meaning(m) \ lost)

\* Fields that a URI has no place for.
DroppedByURI(type) == CASE type = "vmess" -> {"alter_id", "alterId"} [] type = "hysteria2" -> {"utls", "hop"}
                        [] type = "tuic" -> {"utls"} [] OTHER -> {}

\* What is tested is what is published: sing-box and Xray connect in the same way
\* for a node of a Clash document and for the URI published for it
\* (clashProxyToURI, then one of the parsers), except for the fields above.
URIKept(m) ==
    LET n == Form!clashMapToNode(m)
        uri == Form!clashProxyToURI(m)
        rest(out) == Restrict(out, DOMAIN out \ DroppedByURI(n.protocol))
    IN  uri # Form!Nothing =>
            \A engine \in {e \in {"sing-box", "xray"} : Form!SupportsEngine(n, e)} :
                rest(Form!coreConfig(engine, n)) = rest(Form!coreConfig(engine, Form!ParseURI(uri)))

\* A node keeps its meaning in every form it is converted to: Clash proxies and
\* URIs, as above.
FormsKept == part = "forms" => ClashKept(input) /\ URIKept(input)

\* A node that SupportsEngine lets into a dial is one that the engine can be
\* configured for, whatever binary the configured engine resolves to, and in the
\* configuration its transport is not left out.  Not so with "auto" when only Xray
\* is installed: it is then given Hysteria 2 and TUIC nodes, which fail.
PickedIsDialable ==
    part = "forms" =>
        LET n == Form!clashMapToNode(input)
        IN  \A engine \in {"auto", "sing-box", "mihomo", "xray"}, installed \in SUBSET {"sing-box", "mihomo", "xray"} :
                LET core == Form!resolveBinary(engine, installed)
                IN  core # "" /\ Form!SupportsEngine(n, engine) /\ ~(engine = "auto" /\ core = "xray") =>
                        /\ Form!coreConfig(core, n) # Form!Nothing
                        /\ core = "sing-box" /\ n.protocol \in Form!Streams /\ n.network # "tcp" =>
                               "transport" \in DOMAIN Form!coreConfig(core, n)

\* The keys that a document mentions in a place where ParseContent looks.
Mentioned(d) ==
    IF d.form = "clash" THEN {<<"clash", d.proxies[i]>> : i \in DOMAIN d.proxies}
    ELSE {<<"uri", d.text[i].uri>> : i \in {i \in DOMAIN d.text : d.text[i].kind # "coded"}}
             \cup UNION {{<<"uri", d.text[i].uris[k]>> : k \in DOMAIN d.text[i].uris} : i \in DOMAIN d.text}

\* A fetch keeps exactly the valid nodes that the documents mention, comments and
\* prose included: each of them once (the ports of an address together when they
\* are collapsed), with all of the sources that mention it, as the form with a URI
\* if there is one, and else as that of the preferred source (ParseContent, Clean).
HarvestExact ==
    part = "documents" =>
        LET priority == [s \in {"s1", "s2"} |-> IF s = input.prefer THEN 1 ELSE 0]
            docs == [s \in {"s1", "s2"} |-> IF s = "s1" THEN input.first ELSE input.second]
            best == Doc!Clean(Doc!ParseContent(docs["s1"], "s1") \o Doc!ParseContent(docs["s2"], "s2"),
                              input.collapse, priority)
            all(s) == {x \in Mentioned(docs[s]) : x[2].ok}
            key(x) == IF input.collapse /\ x[2].ip THEN <<<<x[1], x[2].id>>>> ELSE <<<<x[1], x[2].id>>, x[2].port>>
            sources(k) == {s \in {"s1", "s2"} : \E x \in all(s) : key(x) = k}
        IN  /\ DOMAIN best = {key(x) : x \in all("s1") \cup all("s2")}
            /\ \A k \in DOMAIN best :
                  /\ best[k].sources = sources(k)
                  /\ best[k].source # input.prefer /\ input.prefer \in sources(k) =>
                         best[k].raw /\ k[1][1] = "clash"

\* The names in a published list of URIs are all different and none of them is
\* reserved, as far as the URIs can be renamed; so are those of the proxies and the
\* group in a published Clash document; a name that is free is not changed.
NamesUnique ==
    part = "names" =>
        LET list == [i \in DOMAIN input |-> input[i] @@ "index" :> i]
            raw == Doc!RenderRaw(list)
            clash == Doc!buildClash(list)
            names == Append(clash.proxies, clash.group)
            different(s) == \A i, j \in DOMAIN s : (s[i] = s[j] => i = j) /\ s[i] \notin Doc!reservedProxyNames
        IN  /\ (\A i \in DOMAIN input : input[i].decodes) => different(raw)
            /\ clash.proxies # <<>> => different(names)
            /\ Len(clash.proxies) = Cardinality({i \in DOMAIN input : input[i].builds})
=============================================================================
