----------------------------- MODULE MCApplication -----------------------------
(* An instance of Application for TLC: one chain and two requests.             *)
EXTENDS Application

CONSTANTS poller, executor

MCWorkers == {poller, executor}
================================================================================
