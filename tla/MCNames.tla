------------------------------- MODULE MCNames ------------------------------
EXTENDS NamesService

\* A service name with a record, and a peer name that one anchor owns.
MCNames == {"svc", "peer"}
MCArt(serial, gen, ttl, ip) ==
    [serial |-> serial, gen |-> gen, ttl |-> ttl,
     rec |-> [n \in {"svc", "peer"} |-> IF n = "svc" THEN ip ELSE None],
     bind |-> [n \in {"svc", "peer"} |-> IF n = "peer" THEN "own" ELSE None]]
MCOld == MCArt(1, 1, 1, "ip4")
MCNew == MCArt(2, 1, 2, "ip4")
MCForged == MCArt(3, 1, 2, "ip4")
MCArtifacts == {MCOld, MCNew, MCForged}
MCSigned == {MCOld, MCNew}
MCClaim(name, anchor, issued) ==
    [name |-> name, ip |-> "ip6", anchor |-> anchor, leaf |-> anchor, ok |-> TRUE,
     from |-> 0, until |-> 9, issued |-> issued, ttl |-> 1]
MCOwn == MCClaim("peer", "own", 1)
MCCross == MCClaim("peer", "other", 2)
MCLive == {<<"svc", "ip4">>, <<"svc", "ip6">>, <<"peer", "ip6">>}
MCQuestions == {<<"svc", "A">>, <<"peer", "AAAA">>}
MCClaims == {MCOwn, MCCross}
MCEditions == <<[art |-> MCOld, claims |-> <<MCOwn>>],
                [art |-> MCNew, claims |-> <<MCCross, MCOwn>>]>>

\* Live answers for the second name, which make the observed tier cut its oldest record,
\* are not combined with fetched snapshots and faults.
Focus == livest["peer"] # None => faults = 0 /\ accepted = -1
=============================================================================
