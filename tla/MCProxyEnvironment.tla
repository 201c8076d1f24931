-------------------------- MODULE MCProxyEnvironment --------------------------
(* Two lists, a rule to add and an edit of each list.                        *)
EXTENDS ProxyEnvironment, TLC

CONSTANTS l1, l2, r1, e1, e2

MCListOf == e1 :> l1 @@ e2 :> l2
===============================================================================
