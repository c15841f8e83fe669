------------------------------ MODULE DialPick ------------------------------
(***************************************************************************)
(* pickDialCandidates with a limit, as pure operators: the nodes ranked by *)
(* an adjusted score, then spread over countries, protocols and servers.   *)
(* A node has score (hundredths) and latency, the tags and the protocol    *)
(* that count for its rank, the key (country and protocol) and the server. *)
(***************************************************************************)
EXTENDS Integers, FiniteSets, Sequences, SequencesExt, Scoring

\* Latencies too good to be true count against a node, the usual ones for it.
Adjusted(n) ==
    n.score + (IF n.latency \in 1..7 THEN -2500
               ELSE IF n.latency \in 15..800 THEN 800
               ELSE IF n.latency > 1500 THEN -1000 ELSE 0)
            + (IF n.verified THEN 500 ELSE 0)
            + (IF n.protocol \in {"ss", "trojan", "hysteria2"} THEN 300 ELSE 0)
            - (IF "dial-fail" \in n.tags THEN 500 ELSE 0)

\* The order of the candidates; list is in the order of the store.
RanksBefore(list, i, j) ==
    LET a == list[i]
        b == list[j]
    IN  \/ Adjusted(a) > Adjusted(b)
        \/ Adjusted(a) = Adjusted(b) /\ a.latency < b.latency
        \/ Adjusted(a) = Adjusted(b) /\ a.latency = b.latency /\ i < j

\* Nodes that no engine can dial are out, and those with a recent result.
Ranked(list, onlyUnverified) ==
    SetToSortSeq({i \in DOMAIN list : list[i].supported /\ ~(onlyUnverified /\ list[i].recent)},
                 LAMBDA i, j : RanksBefore(list, i, j))

perKey(maxDial) == Clamped(maxDial \div 8 + 2, 3, 12)

Used(list, out, i, Same(_, _)) == Cardinality({k \in DOMAIN out : Same(list[out[k]], list[i])})
SameKey(a, b) == a.key = b.key
SameServer(a, b) == a.server = b.server

\* The first pass: at most perKey of a key and two of a server.
Spread(list, maxDial, ranked) ==
    LET take(out, i) == IF /\ Len(out) < maxDial
                           /\ Used(list, out, i, SameKey) < perKey(maxDial)
                           /\ Used(list, out, i, SameServer) < 2
                        THEN Append(out, i) ELSE out
    IN  FoldLeft(take, <<>>, ranked)

FillAgain(list, maxDial, ranked, first) ==   \* mutant
    FoldLeft(LAMBDA out, i : IF Len(out) < maxDial /\ Used(list, out, i, SameServer) < 3 THEN Append(out, i) ELSE out,
             first, ranked)
\* The second pass fills up with those left, three of a server at most.
Fill(list, maxDial, ranked, first) ==
    LET take(out, i) == IF /\ Len(out) < maxDial
                           /\ i \notin Range(first)
                           /\ Used(list, out, i, SameServer) < 3
                        THEN Append(out, i) ELSE out
    IN  FoldLeft(take, first, ranked)

pickDialCandidates(list, maxDial, onlyUnverified) ==
    LET ranked == Ranked(list, onlyUnverified)
    IN  IF maxDial <= 0 THEN ranked ELSE Fill(list, maxDial, ranked, Spread(list, maxDial, ranked))
=============================================================================
