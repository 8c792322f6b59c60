----------------------------- MODULE MCWazuhBridge -----------------------------
(* The bridge on small instances: a flow that matches two rules, one that     *)
(* matches another, and an update record of the first one.                    *)
EXTENDS WazuhBridge

Database == [flow |-> 1, final |-> TRUE, class |-> "postgres", direction |-> "in",
             bytes |-> 2, noSyn |-> TRUE]
Upload == [flow |-> 2, final |-> TRUE, class |-> "https", direction |-> "out",
           bytes |-> 2, noSyn |-> FALSE]
SomeTraffic == {Database, Upload, [Database EXCEPT !.final = FALSE]}
=============================================================================
