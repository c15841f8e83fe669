-------------------------------- MODULE Codec --------------------------------
(***************************************************************************)
(* A node in its forms, as pure operators: the proxy of a Clash document,  *)
(* the node, its URI, and the outbounds that the dial engines are given.   *)
(*                                                                         *)
(* A proxy of a Clash document, a node, a URI and an outbound are Go maps: *)
(* functions from the names of the fields that are set to their values.    *)
(* Options in nested maps have a name of their own; "opts" and "tlsopts"   *)
(* stand for the options that are only carried along.  Server and port are *)
(* left out, "ports" is the range of ports of Hysteria 2.                  *)
(***************************************************************************)
EXTENDS Integers, FiniteSets, Sequences, SequencesExt, TLC

Nothing == "" :> ""   \* an error, or no node

Get(m, f) == IF f \in DOMAIN m THEN m[f] ELSE ""
Has(m, f) == Get(m, f) # ""
First(x, y) == IF x # "" THEN x ELSE y
Flag(b) == IF b THEN "true" ELSE ""
\* The fields that are set; those among S.
Keep(m) == Restrict(m, {f \in DOMAIN m : m[f] # ""})
Only(m, S) == Restrict(m, {f \in S : Has(m, f)})

Streams == {"vmess", "vless", "trojan"}
SlashTrimmed(path) == CASE path = "/" -> "" [] path = "/p" -> "p" [] OTHER -> path

-----------------------------------------------------------------------------
(* Clash documents.                                                        *)

protocolOf(m) == CASE m.type = "shadowsocks" -> "ss" [] m.type = "hy2" -> "hysteria2"
                   [] m.type \in Streams \cup {"ss", "ssr", "hysteria2", "tuic"} -> m.type [] OTHER -> ""

\* What only one protocol has, besides its credentials.
Own == [ss |-> {"plugin", "pluginopts"}, ssr |-> {"ssrprotocol", "obfs", "obfsparam"}, trojan |-> {}, vmess |-> {},
        vless |-> {"encryption"}, hysteria2 |-> {"obfs", "obfspassword", "ports", "hop", "up"},
        tuic |-> {"token", "congestion", "relay", "timeout"}]

clashNetwork(m) == CASE Get(m, "network") = "" -> "tcp" [] Get(m, "network") = "splithttp" -> "xhttp"
                     [] OTHER -> m.network

FlatTransport(m, network) ==   \* mutant
    Only(m, {"path", "host"} \cup IF network = "ws" THEN {"ed", "eh"} ELSE {})
applyClashTransport(m, network) ==
    Only(m, {"path", "host"} \cup (IF network # "tcp" THEN {"opts"} ELSE {})
                \cup (CASE network = "ws" -> {"ed", "eh"} [] network = "grpc" -> {"service", "mode"}
                        [] network = "xhttp" -> {"mode"} [] OTHER -> {}))

clashMapToNode(m) ==
    IF protocolOf(m) = "" THEN Nothing
    ELSE LET p == protocolOf(m)
             reality == Has(m, "pbk") \/ Has(m, "sid")
             security == IF reality THEN "reality" ELSE IF Has(m, "tls") THEN "tls" ELSE ""
         IN  Keep([protocol |-> p, network |-> clashNetwork(m), security |-> security,
                   tls |-> Flag(security # "" \/ p \in {"trojan", "hysteria2", "tuic"}),
                   sni |-> First(Get(m, "sni"), Get(m, "servername")),
                   password |-> First(Get(m, "password"), Get(m, "auth")),
                   method |-> First(Get(m, "cipher"), Get(m, "security"))]
                  @@ applyClashTransport(m, clashNetwork(m))
                  @@ Only(m, {"uuid", "flow", "alpn", "skip", "fp", "fingerprint", "packet", "pbk", "sid", "tlsopts"})
                  @@ Only(m, Own[p] \ (IF Has(m, "plugin") THEN {} ELSE {"pluginopts"})))

-----------------------------------------------------------------------------
(* The URI of a proxy, and the parsers of URIs.                            *)

applyClashURIOptions(m) ==
    LET network == Get(m, "network")
    IN  Keep([type |-> network]) @@ Only(m, {"fp", "alpn"})
        @@ Only(m, CASE network = "grpc" -> {"service", "mode"} [] network = "ws" -> {"ed", "eh"}
                     [] network \in {"xhttp", "splithttp"} -> {"mode"} [] OTHER -> {})

clashSNI(m) == Keep([sni |-> First(Get(m, "sni"), Get(m, "servername")), insecure |-> Get(m, "skip")])

vlessURI(m) ==
    Keep([scheme |-> "vless", encryption |-> First(Get(m, "encryption"), "none"),
          security |-> IF Has(m, "pbk") \/ Has(m, "sid") THEN "reality" ELSE IF Has(m, "tls") THEN "tls" ELSE ""])
        @@ Only(m, {"uuid", "flow", "path", "host", "packet", "pbk", "sid"}) @@ clashSNI(m) @@ applyClashURIOptions(m)

\* The path of a gRPC transport holds its service.
vmessURI(m) ==
    Keep([scheme |-> "vmess", aid |-> First(Get(m, "aid"), "0"), net |-> First(Get(m, "network"), "tcp"),
          scy |-> First(Get(m, "cipher"), Get(m, "security")), headerType |-> "none", tls |-> Get(m, "tls"),
          path |-> IF Has(m, "service") THEN m.service ELSE Get(m, "path")])
        @@ Only(m, {"uuid", "host", "alpn", "fp"}) @@ clashSNI(m)

clashProxyToURI(m) ==
    LET p == protocolOf(m)
        has(S) == \A f \in S : Has(m, f)
    IN  CASE p = "ss" /\ has({"cipher", "password"}) ->
               "scheme" :> p @@ Only(m, {"cipher", "password", "plugin"})
                   @@ Only(m, IF Has(m, "plugin") THEN {"pluginopts"} ELSE {})
          [] p = "ssr" /\ has({"cipher", "password", "ssrprotocol", "obfs"}) ->
               "scheme" :> p @@ Only(m, {"cipher", "password", "ssrprotocol", "obfs", "obfsparam"})
          [] p = "trojan" /\ has({"password"}) ->
               Keep([scheme |-> p, security |-> IF Has(m, "pbk") \/ Has(m, "sid") THEN "reality" ELSE ""])
                   @@ Only(m, {"password", "path", "host", "pbk", "sid"}) @@ clashSNI(m) @@ applyClashURIOptions(m)
          [] p = "vmess" -> vmessURI(m)
          [] p = "vless" /\ has({"uuid"}) -> vlessURI(m)
          [] p = "hysteria2" ->
               Keep([scheme |-> p, password |-> First(Get(m, "password"), Get(m, "auth"))])
                   @@ Only(m, {"obfs", "obfspassword", "alpn", "fingerprint", "ports"}) @@ clashSNI(m)
          [] p = "tuic" /\ has({"uuid", "password"}) ->
               "scheme" :> p @@ Only(m, {"uuid", "password", "alpn", "congestion", "relay"}) @@ clashSNI(m)
          [] OTHER -> Nothing

\* The host stands in for a missing server name.
parseVMess(u) ==
    Keep([protocol |-> "vmess", network |-> u.net, method |-> Get(u, "scy"), tls |-> Get(u, "tls"),
          sni |-> First(Get(u, "sni"), Get(u, "host")), allowInsecure |-> Get(u, "insecure"), type |-> u.headerType])
        @@ Only(u, {"uuid", "aid", "fp", "path", "host", "alpn"})

parseVLESS(u) ==
    Keep([protocol |-> "vless", network |-> First(Get(u, "type"), "tcp"), tls |-> Flag(Has(u, "security"))])
        @@ Only(u, {"uuid", "sni", "path", "host", "flow", "security", "alpn", "encryption", "fp", "pbk", "sid",
                    "service", "headerType", "mode", "packet", "ed", "eh", "insecure"})

parseTrojan(u) ==
    [protocol |-> "trojan", network |-> First(Get(u, "type"), "tcp"), tls |-> "true",
     security |-> IF Get(u, "security") = "reality" \/ Has(u, "pbk") THEN "reality" ELSE "tls"]
        @@ Only(u, {"password", "sni", "path", "host", "alpn", "fp", "pbk", "sid", "service", "headerType", "mode",
                    "ed", "eh", "insecure"})

parseSS(u) == Keep([protocol |-> u.scheme, method |-> u.cipher]) @@ Only(u, {"password", "plugin", "pluginopts"})
parseSSR(u) == Keep([protocol |-> u.scheme, method |-> u.cipher])
                   @@ Only(u, {"password", "ssrprotocol", "obfs", "obfsparam"})

parseHysteria2(u) ==
    [protocol |-> "hysteria2", tls |-> "true"]
        @@ Only(u, {"password", "sni", "alpn", "obfs", "obfspassword", "fp", "fingerprint", "insecure", "ports"})

\* A user without a password is a token.
parseTUIC(u) ==
    LET token == IF ~Has(u, "password") /\ ~Has(u, "token") THEN Get(u, "uuid") ELSE Get(u, "token")
    IN  Keep([protocol |-> "tuic", tls |-> "true", token |-> token,
              uuid |-> IF ~Has(u, "password") /\ ~Has(u, "token") THEN "" ELSE Get(u, "uuid")])
            @@ Only(u, {"password", "sni", "alpn", "congestion", "relay", "fp", "fingerprint", "timeout", "insecure"})

ParseURI(u) ==
    CASE u.scheme = "vmess" -> parseVMess(u) [] u.scheme = "vless" -> parseVLESS(u)
      [] u.scheme = "trojan" -> parseTrojan(u) [] u.scheme = "ss" -> parseSS(u) [] u.scheme = "ssr" -> parseSSR(u)
      [] u.scheme = "hysteria2" -> parseHysteria2(u) [] u.scheme = "tuic" -> parseTUIC(u)

SkipTLSVerify(n) == \E f \in {"insecure", "allowInsecure", "skip"} : Has(n, f)
Reality(n) == Get(n, "security") = "reality" \/ Has(n, "pbk")

-----------------------------------------------------------------------------
(* The proxy of a Clash document for a node.                               *)

applyTLS(n) ==
    Keep([tls |-> Flag(n.protocol \in {"vmess", "vless"} /\ (Has(n, "tls") \/ Get(n, "security") \in {"tls", "reality"})),
          skip |-> Flag(SkipTLSVerify(n))])
        @@ (IF n.protocol \in {"vmess", "vless"} THEN Keep([servername |-> Get(n, "sni")]) ELSE Only(n, {"sni"}))
        @@ Only(n, {"alpn", "fingerprint", "tlsopts"} \cup IF n.protocol \in Streams THEN {"fp"} ELSE {})

applyReality(n) == IF Reality(n) THEN Only(n, {"pbk", "sid"}) ELSE <<>>

\* What is set comes before the original options, which fill in the rest.
applyTransport(n) ==
    LET plain == First(Get(n, "network"), "tcp")
        network == IF plain = "tcp" /\ Get(n, "headerType") = "http" THEN "http" ELSE plain
    IN  "network" :> network @@
        CASE network = "ws" -> "path" :> First(Get(n, "path"), "/") @@ Only(n, {"host", "ed", "eh", "opts"})
          [] network = "grpc" -> Keep("service" :> First(Get(n, "service"), SlashTrimmed(Get(n, "path"))))
                                     @@ Only(n, {"mode", "opts"})
          [] network \in {"http", "h2", "httpupgrade"} ->
                "path" :> First(Get(n, "path"), "/") @@ Only(n, {"host", "opts"})
          [] network \in {"xhttp", "splithttp"} ->
                "path" :> First(Get(n, "path"), "/") @@ Only(n, {"host", "mode", "opts"})
          [] OTHER -> <<>>

BuildClashProxy(n) ==
    LET p == n.protocol
        type == "type" :> p
        half == (Get(n, "security") = "reality" \/ Has(n, "sid")) /\ ~Has(n, "pbk")   \* Reality without its key
        own == Only(n, Own[p])
    IN  CASE p = "vmess" /\ Has(n, "uuid") ->
               [type |-> p, uuid |-> n.uuid, cipher |-> First(Get(n, "method"), "auto"), aid |-> First(Get(n, "aid"), "0")]
                   @@ applyTLS(n) @@ applyTransport(n)
          [] p = "vless" /\ Has(n, "uuid") /\ ~half ->
               type @@ own @@ Only(n, {"uuid", "flow", "packet"}) @@ applyTLS(n) @@ applyReality(n) @@ applyTransport(n)
          [] p = "trojan" /\ Has(n, "password") /\ ~half ->
               type @@ Only(n, {"password"}) @@ applyTLS(n) @@ applyReality(n) @@ applyTransport(n)
          [] p \in {"ss", "ssr"} /\ Has(n, "method") /\ Has(n, "password")
                 /\ (p = "ssr" => Has(n, "ssrprotocol") /\ Has(n, "obfs")) ->
               [type |-> p, cipher |-> n.method, password |-> n.password] @@ own
          [] p = "hysteria2" /\ Has(n, "password") -> type @@ own @@ Only(n, {"password"}) @@ applyTLS(n)
          [] p = "tuic" /\ Has(n, "token") -> type @@ own @@ applyTLS(n)
          [] p = "tuic" /\ ~Has(n, "token") /\ Has(n, "uuid") /\ Has(n, "password") ->
               type @@ own @@ Only(n, {"uuid", "password"}) @@ applyTLS(n)
          [] OTHER -> Nothing

-----------------------------------------------------------------------------
(* The outbounds for sing-box and Xray.                                    *)

serverName(n) == First(Get(n, "sni"), First(Get(n, "host"), "server"))

buildTransport(n) ==
    LET network == First(Get(n, "network"), "tcp")
        path == First(Get(n, "path"), "/")
    IN  CASE network \in {"http", "h2"} \/ (network = "tcp" /\ "http" \in {Get(n, "headerType"), Get(n, "type")}) ->
               [transport |-> "http", path |-> path] @@ Only(n, {"host"})
          [] network \in {"ws", "httpupgrade"} -> [transport |-> network, path |-> path] @@ Only(n, {"host"})
          [] network = "grpc" ->
               [transport |-> "grpc",
                service |-> First(First(Get(n, "service"), SlashTrimmed(Get(n, "path"))), "GunService")]
          [] OTHER -> <<>>

\* The tls object, without the utls that differs from protocol to protocol.
singBoxTLS(n) == Keep([server_name |-> serverName(n), insecure |-> Flag(SkipTLSVerify(n))]) @@ Only(n, {"alpn"})
singBoxReality(n) == IF Reality(n) THEN "reality" :> "true" @@ Only(n, {"pbk", "sid"}) ELSE <<>>

BuildOutbound(n) ==
    LET p == n.protocol
        type == "type" :> p
        fp == Get(n, "fp")
    IN  CASE p = "ss" /\ ~Has(n, "plugin") /\ Has(n, "password") ->
               [type |-> p, method |-> First(Get(n, "method"), "aes-256-gcm"), password |-> n.password]
          [] p = "trojan" /\ Has(n, "password") ->
               type @@ Only(n, {"password"}) @@ singBoxTLS(n) @@ singBoxReality(n) @@ buildTransport(n)
                   @@ Keep([utls |-> IF Reality(n) THEN First(fp, "chrome") ELSE fp])
          [] p = "vmess" /\ Has(n, "uuid") ->
               [type |-> p, uuid |-> n.uuid, security |-> First(Get(n, "method"), "auto"),
                alter_id |-> First(Get(n, "aid"), "0")] @@ buildTransport(n)
                   @@ (IF Has(n, "tls") \/ Get(n, "security") = "tls" THEN singBoxTLS(n) @@ Keep([utls |-> fp]) ELSE <<>>)
          [] p = "vless" /\ Has(n, "uuid") ->
               type @@ Only(n, {"uuid", "flow"}) @@ buildTransport(n)
                   @@ (IF Has(n, "tls") \/ Get(n, "security") \in {"tls", "reality"}
                       THEN singBoxTLS(n) @@ singBoxReality(n) @@ [utls |-> First(fp, "chrome")] ELSE <<>>)
          [] p = "hysteria2" /\ Has(n, "password") ->
               type @@ Only(n, {"password", "ports", "hop", "obfs"}) @@ singBoxTLS(n) @@ Keep([utls |-> fp])
                   @@ (IF Has(n, "obfs") THEN Only(n, {"obfspassword"}) ELSE <<>>)
          [] p = "tuic" /\ Has(n, "uuid") /\ Has(n, "password") ->
               [type |-> p, congestion |-> First(Get(n, "congestion"), "cubic"), relay |-> First(Get(n, "relay"), "native")]
                   @@ Only(n, {"uuid", "password"}) @@ singBoxTLS(n) @@ Keep([utls |-> fp])
          [] OTHER -> Nothing

buildXrayStream(n) ==
    LET network == First(Get(n, "network"), "tcp")
        path == First(Get(n, "path"), "/")
    IN  (CASE network = "ws" -> [network |-> network, path |-> path] @@ Only(n, {"host"})
           [] network = "grpc" ->
                [network |-> network,
                 service |-> First(First(Get(n, "service"), SlashTrimmed(Get(n, "path"))), "GunService")]
           [] network \in {"http", "h2"} -> [network |-> "h2", path |-> path] @@ Only(n, {"host"})
           [] OTHER -> "network" :> network)
        @@ CASE Reality(n) ->
                  [security |-> "reality", serverName |-> serverName(n), fingerprint |-> First(Get(n, "fp"), "chrome")]
                      @@ Only(n, {"pbk", "sid"})
             [] ~Reality(n) /\ (Has(n, "tls") \/ Get(n, "security") = "tls" \/ n.protocol = "trojan") ->
                  Keep([security |-> "tls", serverName |-> serverName(n), fingerprint |-> First(Get(n, "fp"), "chrome"),
                        allowInsecure |-> Flag(SkipTLSVerify(n))]) @@ Only(n, {"alpn"})
             [] OTHER -> <<>>

BuildXrayOutbound(n) ==
    LET p == n.protocol
    IN  CASE p = "ss" /\ ~Has(n, "plugin") /\ Has(n, "password") ->
               [protocol |-> p, method |-> First(Get(n, "method"), "aes-256-gcm"), password |-> n.password]
                   @@ buildXrayStream(n)
          [] p = "trojan" /\ Has(n, "password") -> [protocol |-> p, password |-> n.password] @@ buildXrayStream(n)
          [] p = "vmess" /\ Has(n, "uuid") ->
               [protocol |-> p, id |-> n.uuid, alterId |-> First(Get(n, "aid"), "0"),
                cipher |-> First(Get(n, "method"), "auto")] @@ buildXrayStream(n)
          [] p = "vless" /\ Has(n, "uuid") ->
               [protocol |-> p, id |-> n.uuid] @@ Only(n, {"flow"}) @@ buildXrayStream(n)
          [] OTHER -> Nothing

-----------------------------------------------------------------------------
(* The engines.                                                            *)

SupportsAnyNetwork(n, engine) ==   \* mutant
    CASE n.protocol = "ss" -> ~Has(n, "plugin") \/ engine \in {"mihomo", "both"}
      [] n.protocol \in Streams \cup {"tuic"} -> TRUE
      [] n.protocol = "hysteria2" -> engine # "xray"
      [] OTHER -> engine \in {"mihomo", "both"}
SupportsEngine(n, engine) ==
    LET mihomo == engine \in {"mihomo", "both"}
    IN  /\ Get(n, "network") \in {"xhttp", "splithttp"} => mihomo
        /\ CASE n.protocol = "ss" -> ~Has(n, "plugin") \/ mihomo
             [] n.protocol \in Streams -> TRUE
             [] n.protocol = "hysteria2" -> engine # "xray"
             [] n.protocol = "tuic" -> engine # "xray" /\ (~Has(n, "token") \/ mihomo)
             [] n.protocol = "ssr" -> mihomo

\* The engine that dials, of the binaries that are installed.
resolveBinary(engine, installed) ==
    IF engine # "auto" THEN IF engine \in installed THEN engine ELSE ""
    ELSE CASE "sing-box" \in installed -> "sing-box" [] installed = {"mihomo"} \/ installed = {"mihomo", "xray"} -> "mihomo"
           [] installed = {"xray"} -> "xray" [] OTHER -> ""

coreConfig(engine, n) == CASE engine = "mihomo" -> BuildClashProxy(n) [] engine = "xray" -> BuildXrayOutbound(n)
                           [] OTHER -> BuildOutbound(n)
=============================================================================
