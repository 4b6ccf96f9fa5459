------------------------------ MODULE MCSessions ------------------------------
(* A launch l, an instance o of another launch and an instance x that is   *)
(* not kleya's, all of the name n, beside a connect c and a terminate t.   *)
EXTENDS Sessions

CONSTANTS l, o, x, c, t, n, idlike

Namesakes == [i \in {l, o, x} |-> n]

Setup(f, hc, ht) == [flags |-> [p \in {l} |-> f],
                     handle |-> [p \in {c, t} |-> IF p = c THEN hc ELSE ht]]

Given == {Setup({"connect"}, n, n),
          Setup({"connect", "waitBootstrap", "noWaitBootstrap"}, x, l),
          Setup({"waitBootstrap", "noWaitBootstrap"}, l, idlike),
          Setup({"connect", "noWaitBootstrap"}, x, l),
          Setup({}, idlike, idlike)}
================================================================================
