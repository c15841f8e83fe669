---------------------------- MODULE MCPublication ----------------------------
(* Three nodes, six records for each, two configurations.                  *)
EXTENDS Publication, TLC

MCIds == 1..3

Node == [country |-> "US", protocol |-> "vless", alive |-> TRUE, score |-> 80, latency |-> 300,
         tls |-> TRUE, verified |-> TRUE, dialed |-> 0, engines |-> {"mihomo"}, seen |-> 0, ai |-> TRUE]

MCProfiles == {Node,
               [Node EXCEPT !.country = "UK", !.protocol = "hy2", !.score = 90],
               [Node EXCEPT !.country = "GB", !.protocol = "hysteria2", !.score = 60, !.ai = FALSE],
               [Node EXCEPT !.country = "", !.protocol = "ss", !.latency = 100, !.seen = Never],
               [Node EXCEPT !.latency = 3000, !.score = 95],
               [Node EXCEPT !.alive = FALSE, !.verified = FALSE, !.engines = {}, !.dialed = Never]}

Config == [minScore |-> 50, filterScore |-> 50, maxNodes |-> 1, filterMax |-> 2, aliveOnly |-> TRUE,
           enabled |-> TRUE, dial |-> TRUE, engine |-> "mihomo", verifiedTTL |-> 1, maxAge |-> 2,
           maxLatency |-> 2500, minSuccess |-> TRUE, sortBy |-> "score", preferTLS |-> FALSE,
           maxCountries |-> 1, interval |-> 1]

MCConfigs == {Config,
              [Config EXCEPT !.maxNodes = 2, !.dial = FALSE, !.engine = "auto", !.minScore = 0,
                             !.filterScore = 0, !.filterMax = 0, !.sortBy = "latency", !.interval = 0]}

MCTokens == {[countries |-> {}, protocols |-> {}],
             [countries |-> {"GB"}, protocols |-> {}],
             [countries |-> {"US", "UK"}, protocols |-> {"hy2", "ss"}]}

MCCodes == {"", "US", "UK", "XX"}

Pool == [minScore |-> 70, maxLatency |-> 0, countries |-> {}, protocols |-> {}, requireAI |-> FALSE,
         verified |-> FALSE, maxNodes |-> 2]
MCPools == {Pool, [Pool EXCEPT !.verified = TRUE, !.maxNodes = 1, !.minScore = 60],
            [Pool EXCEPT !.requireAI = TRUE, !.countries = {"US", "UK"}, !.protocols = {"hy2", "vless"}],
            [Pool EXCEPT !.protocols = {"ss"}]}
=============================================================================
