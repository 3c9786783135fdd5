----------------------------- MODULE MCExecutor -----------------------------
(* A rebase, which makes two commits, each through an execute() of its own, *)
(* and two direct commits, all on one branch.                               *)
EXTENDS Executor

CONSTANTS rebase, commit1, commit2, main

MCCommits == [c \in Calls |-> IF c = rebase THEN 2 ELSE 1]
MCKeyOf == [c \in Calls |-> main]
=============================================================================
