-------------------------- MODULE MCProxyLifecycle --------------------------
(* Instances of ProxyLifecycle for TLC: two clients share an address. *)
EXTENDS ProxyLifecycle

CONSTANTS s1, s2, s3, home, away

MCIp == [s \in Sessions |-> IF s = s3 THEN away ELSE home]
=============================================================================
