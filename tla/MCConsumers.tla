---------------------------- MODULE MCConsumers ----------------------------
(* Instances of Consumers for TLC. *)
EXTENDS Consumers, TLC

CONSTANTS c1, c2

\* A judgement or an export alone, for nothing they read is written by others;
\* two applies that write the same files.
SomeLaunches ==
    {c1 :> k @@ c2 :> "idle" : k \in {"guard", "reproduce", "export"}} \cup
    {[c \in Commands |-> "apply"]}

\* A fast and a slow program, a report of parity, and none; no report but the
\* last names a run, so that all are applied in "run_latest".
Records ==
    [fast     |-> [passes |-> TRUE,  base |-> 15, cand |-> 10, ratio |-> 150, dir |-> "latest"],
     slow     |-> [passes |-> TRUE,  base |-> 30, cand |-> 20, ratio |-> 150, dir |-> "latest"],
     parity   |-> [passes |-> FALSE, base |-> 30, cand |-> 30, ratio |-> 100, dir |-> "latest"],
     noreport |-> [passes |-> FALSE, base |-> 0,  cand |-> 0,  ratio |-> 100, dir |-> "latest"]]
=============================================================================
