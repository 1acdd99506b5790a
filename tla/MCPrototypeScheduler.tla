-------------------------- MODULE MCPrototypeScheduler -------------------------
(* An instance of PrototypeScheduler for TLC: a job that always succeeds and    *)
(* one that may fail in each poll; one push may be repeated.                    *)
EXTENDS PrototypeScheduler

MCBatch == <<"email", "report">>
MCRepeated == {<<1, 2>>}
================================================================================
