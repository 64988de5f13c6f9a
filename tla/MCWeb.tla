-------------------------------- MODULE MCWeb --------------------------------
(* Instances of Web for TLC: the proxy, or jobs and workloads, or a tuning   *)
(* next to a proxy.                                                          *)
EXTENDS Web

CONSTANTS p1, p2, t1, t2, t3, j1, j2, w1, w2

Proxy(proxies, asked, queries, calls, at_once, timeouts, faults) ==
    [proxies |-> proxies, toggles |-> asked, queries |-> queries, stops |-> calls, at_once |-> at_once,
     timeouts |-> timeouts, faults |-> faults]

NoProxy == Proxy({}, {}, 0, 0, FALSE, FALSE, {})

Work(first, second, writing, demoed, at_once, cancels, faults) ==
    [kinds |-> [j \in Jobs |-> IF j = j1 THEN first ELSE second],
     writing |-> [w \in Writers |-> IF w = w1 THEN writing[1] ELSE writing[2]],
     initial |-> {1}, demo |-> demoed,
     at_once |-> at_once, cancels |-> cancels, faults |-> faults]

NoWork == Work("off", "off", <<"off", "off">>, FALSE, FALSE, FALSE, FALSE)
Two(first, second, at_once, cancels, faults) ==
    Work(first, second, <<"off", "off">>, FALSE, at_once, cancels, faults)

Instance(proxy, work) == [web |-> proxy, covers |-> work]

\* One request at a time with every fault; requests at once with slow loops.
ProxySetups ==
    { Instance(Proxy({p1}, {t1, t2, t3}, 1, 1, FALSE, FALSE, {"bind", "read", "write", "clear"}), NoWork),
      Instance(Proxy({p1, p2}, {t1}, 0, 0, FALSE, FALSE, {"bind"}), NoWork),
      Instance(Proxy({p1}, {t1, t2}, 1, 1, TRUE, TRUE, {}), NoWork),
      Instance(Proxy({p1, p2}, {t1, t2}, 0, 1, TRUE, FALSE, {}), NoWork) }

JobSetups ==
    { Instance(NoProxy, Two("replay", "tuning", TRUE, TRUE, TRUE)),
      Instance(NoProxy, Two("ab", "pipeline", FALSE, TRUE, TRUE)),
      Instance(NoProxy, Two("tuning", "tuning", FALSE, TRUE, TRUE)),
      Instance(NoProxy, Work("replay", "off", <<"import", "delete">>, FALSE, FALSE, FALSE, TRUE)),
      Instance(NoProxy, Work("off", "off", <<"upload", "derive">>, TRUE, FALSE, FALSE, TRUE)),
      Instance(NoProxy, Work("replay", "off", <<"derive", "delete">>, FALSE, FALSE, FALSE, FALSE)) }

BothSetups == { Instance(Proxy({p1}, {}, 0, 0, FALSE, FALSE, {}),
                         Two("tuning", "off", TRUE, TRUE, FALSE)) }

AllSetups == ProxySetups \cup JobSetups \cup BothSetups

\* A proxy that is stopped while it captures.
StopSetups == { Instance(Proxy({p1}, {t1, t2}, 1, 1, FALSE, FALSE, {}), NoWork) }
=============================================================================
