--------------------------- MODULE MCDnsAdapters ---------------------------
EXTENDS DnsAdapters

\* "a" and "b" fill a key by their number, "c" is longer than a key may be.
MCBytes == [d \in {"a", "b", "c"} |-> CASE d = "a" -> 1 [] d = "b" -> 2 [] OTHER -> 6]

\* No domain, one, a key exactly full, more keys than one of either kind.
MCConfigs ==
    {[search |-> <<>>, match |-> <<>>, port |-> "default"],
     [search |-> <<"a">>, match |-> <<>>, port |-> "default"],
     [search |-> <<"a", "b">>, match |-> <<"b", "c", "a">>, port |-> "default"],
     [search |-> <<"b", "c", "a">>, match |-> <<"a", "b">>, port |-> "front"]}
============================================================================
