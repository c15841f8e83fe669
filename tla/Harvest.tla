------------------------------- MODULE Harvest -------------------------------
(***************************************************************************)
(* Subscriptions as documents, as pure operators: which nodes ParseContent *)
(* finds in a text, which of them Clean keeps, and under which names they  *)
(* are published.                                                          *)
(*                                                                         *)
(* A text is a sequence of lines.  A line has a kind: a URI ("uri"; spaced *)
(* when a blank is in the name after it), a comment or a text with a URI   *)
(* in it, or a list of URIs in base64 ("coded").  A Clash document is a    *)
(* sequence of proxies.  A name is a sequence: <<"A", 2>> is "A #2".       *)
(***************************************************************************)
EXTENDS Integers, FiniteSets, Sequences, SequencesExt

\* A node; key stands for Node.Key without the port.  A URI and a proxy never have
\* the same key: they set different fields (Extra, Security, Network).
NodeOf(form, x, source, raw) ==
    [key |-> <<form, x.id>>, port |-> x.port, ip |-> x.ip, ok |-> x.ok, raw |-> raw,
     source |-> source, sources |-> {}]

-----------------------------------------------------------------------------
(* ParseContent.                                                           *)

\* The URIs of the lines: comments are left out, a line of text is none.
Lines(text) ==
    FlattenSeq([i \in DOMAIN text |->
        CASE text[i].kind = "uri" -> <<[uri |-> text[i].uri, cut |-> FALSE]>>
          [] text[i].kind = "coded" -> [k \in DOMAIN text[i].uris |-> [uri |-> text[i].uris[k], cut |-> FALSE]]
          [] OTHER -> <<>>])

\* The URIs that uriRe finds in the text: it ends at a blank and reads no base64.
FoundInText(text) ==
    LET shown == SelectSeq(text, LAMBDA l : l.kind # "coded")
    IN  [i \in DOMAIN shown |-> [uri |-> shown[i].uri, cut |-> shown[i].spaced]]

\* Each element of s the first time it occurs.
Distinct(s) == LET firsts == {i \in DOMAIN s : \A k \in 1..i - 1 : s[k] # s[i]}
               IN  [i \in 1..Cardinality(firsts) |-> s[SetToSortSeq(firsts, <)[i]]]

\* A text, plain or as a whole in base64, or a Clash document: ParseClash keeps the
\* first of the proxies with one key, and a proxy may have no URI.
ParseContent(d, source) ==
    IF d.form = "clash"
    THEN LET same(p, q) == p.id = q.id /\ p.port = q.port
             firsts == {i \in DOMAIN d.proxies : \A k \in 1..i - 1 : ~same(d.proxies[k], d.proxies[i])}
             kept == SetToSortSeq(firsts, <)
         IN  [i \in DOMAIN kept |-> NodeOf("clash", d.proxies[kept[i]], source, d.proxies[kept[i]].raw)]
    ELSE LET links == Distinct(Lines(d.text) \o FoundInText(d.text))
         IN  [i \in DOMAIN links |-> NodeOf("uri", links[i].uri, source, TRUE)]

-----------------------------------------------------------------------------
(* cleaner.Clean.                                                          *)

\* The ports of an address count as one node when they are collapsed.
cleanKey(n, collapse) == IF collapse /\ n.ip THEN <<n.key>> ELSE <<n.key, n.port>>

\* Two nodes with one key differ in nothing else that scoreMeta counts.
scoreMeta(n) == IF n.raw THEN 1 ELSE 0

Prefers(n, old, priority) ==
    \/ scoreMeta(n) > scoreMeta(old)
    \/ scoreMeta(n) = scoreMeta(old) /\ priority[n.source] > priority[old.source]

\* best maps the keys to the nodes kept so far.
LastWins(best, raw, collapse, priority) ==   \* mutant
    LET n == [raw EXCEPT !.sources = {raw.source}]
        k == cleanKey(n, collapse)
    IN  IF ~n.ok THEN best ELSE [x \in DOMAIN best \cup {k} |-> IF x = k THEN n ELSE best[x]]
Cleaned(best, raw, collapse, priority) ==
    LET n == [raw EXCEPT !.sources = @ \cup {raw.source}]
        k == cleanKey(n, collapse)
        kept == IF k \notin DOMAIN best THEN n
                ELSE LET sources == best[k].sources \cup n.sources
                     IN  IF Prefers(n, best[k], priority) THEN [n EXCEPT !.sources = sources]
                         ELSE [best[k] EXCEPT !.sources = sources]
    IN  IF ~n.ok THEN best ELSE [x \in DOMAIN best \cup {k} |-> IF x = k THEN kept ELSE best[x]]

Clean(nodes, collapse, priority) ==
    FoldLeft(LAMBDA best, n : Cleaned(best, n, collapse, priority), <<>>, nodes)

-----------------------------------------------------------------------------
(* The names of the published proxies.                                     *)

reservedProxyNames == {<<"DIRECT">>, <<"REJECT">>, <<"REJECT-DROP">>, <<"PASS">>, <<"COMPATIBLE">>, <<"GLOBAL">>}

Numbered == <<"node-1", "node-2", "node-3", "node-4", "node-5">>
sanitizeYAMLName(name, i) == IF name = <<>> THEN <<Numbered[i]>> ELSE name

\* names has those in use, the next number to try for a base, and the last claim.
NoNames == [used |-> reservedProxyNames, next |-> <<>>, claimed |-> <<>>]

CountsOnly(names, name, i) ==   \* mutant
    LET base == sanitizeYAMLName(name, i)
        number == IF base \in DOMAIN names.next THEN names.next[base] ELSE 2
    IN  IF base \notin names.used THEN [names EXCEPT !.used = @ \cup {base}, !.claimed = base]
        ELSE [used |-> names.used \cup {Append(base, number)}, claimed |-> Append(base, number),
              next |-> [x \in DOMAIN names.next \cup {base} |-> IF x = base THEN number + 1 ELSE names.next[x]]]
claimUniqueName(names, name, i) ==
    LET base == sanitizeYAMLName(name, i)
        from == IF base \in DOMAIN names.next THEN names.next[base] ELSE 2
        free == {k \in from..from + Cardinality(names.used) : Append(base, k) \notin names.used}
        number == CHOOSE k \in free : \A x \in free : k <= x
    IN  IF base \notin names.used THEN [names EXCEPT !.used = @ \cup {base}, !.claimed = base]
        ELSE [used |-> names.used \cup {Append(base, number)}, claimed |-> Append(base, number),
              next |-> [x \in DOMAIN names.next \cup {base} |-> IF x = base THEN number + 1 ELSE names.next[x]]]

\* The claims of a list of nodes, one after the other.
Claims(list) ==
    FoldLeft(LAMBDA acc, i : Append(acc, claimUniqueName(IF acc = <<>> THEN NoNames ELSE Last(acc), list[i].name, list[i].index)),
             <<>>, [i \in DOMAIN list |-> i])

\* RenderRaw: nodes without a URI claim no name.  rawURIWithName leaves a URI as it
\* is, and its name, when it cannot decode it: a VMess URI with a fragment, say.
RenderRaw(list) ==
    LET shown == SelectSeq(list, LAMBDA n : n.raw)
        claims == Claims(shown)
    IN  [i \in DOMAIN claims |-> IF shown[i].decodes THEN claims[i].claimed ELSE shown[i].name]

\* buildClash: every node claims a name, the proxies and their group are listed.
buildClash(list) ==
    LET claims == Claims(list)
        built == SelectSeq([i \in DOMAIN list |-> i], LAMBDA i : list[i].builds)
    IN  [proxies |-> [i \in DOMAIN built |-> claims[built[i]].claimed],
         group |-> IF built = <<>> THEN <<>>
                   ELSE claimUniqueName(Last(claims), <<"NodeHarvest">>, Len(list) + 1).claimed]
=============================================================================
