------------------------------ MODULE MC_ApiCmd ------------------------------
(* Two application threads.  OpsSplit gives them different commands, so that *)
(* no two blocked calls share a topic; the others let them collide.          *)
EXTENDS ApiCmd, TLC

CONSTANTS c1, c2

OpsSplit == (c1 :> {"publish", "query"}) @@ (c2 :> {"subscribe", "unsubscribe", "timeout"})
OpsQuery == [c \in {c1, c2} |-> {"query"}]
OpsSubscribe == [c \in {c1, c2} |-> {"subscribe", "unsubscribe"}]
OpsPublish == [c \in {c1} |-> {"publish"}]
OpsMixed == [c \in {c1, c2} |-> {"publish", "query"}]
==============================================================================
