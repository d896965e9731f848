---------------------------- MODULE MCIpcSession ----------------------------
EXTENDS IpcSession

\* Once a call was given up TrayConverges says nothing any more and only the lines on
\* the connection matter: from there on one state and one profile of the daemon, and
\* refreshes that do not overlap, are enough; the second call given up is not combined
\* with a shutdown.
Focus ==
    /\ timeouts > 0 => active = (CHOOSE s \in Slugs : TRUE) /\ tun = "down" /\ ~overlap
    /\ timeouts > 1 => ~stopping
=============================================================================
