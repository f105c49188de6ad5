----------------------------- MODULE MCMaintenance -----------------------------
(* Instances of Maintenance: a worker for each queue, as PERFORMANCE.md    *)
(* describes it, and the worker of docker-compose.yml, whose command has   *)
(* no -Q and which consumes the default queue.                             *)
EXTENDS Maintenance

CONSTANTS w1, w2

MCDedicated == [w \in Workers |-> IF w = w1 THEN {"pipeline"} ELSE {"maintenance"}]
MCCompose == [w \in Workers |-> {"pipeline"}]
=============================================================================
