-------------------------- MODULE ExperimentPromise --------------------------
(***************************************************************************)
(* What a resumable experiment promises, without locks, files, attempts in *)
(* progress or crashes.  Every case of the resource matrix is decided at   *)
(* most once, by one attempt, and never changes afterwards; the experiment *)
(* is published at most once, when every case is decided, and what it      *)
(* publishes is exactly those decisions.                                   *)
(*                                                                         *)
(* RunRecovery is the code's way of keeping this promise.                  *)
(***************************************************************************)
EXTENDS Integers

CONSTANTS Cases,        \* the cases of the resource matrix
          Attempts      \* the attempts that may decide a case, positive numbers

VARIABLES decided,      \* decided[c]: the attempt whose rows stand for c, or 0
          published     \* what the experiment has published, or Unpublished

promiseVars == <<decided, published>>

Unpublished == [c \in Cases |-> 0]

PromiseInit ==
    /\ decided = Unpublished
    /\ published = Unpublished

\* An attempt a delivers the rows of a case nobody has decided yet.
Decide(c, a) ==
    /\ decided[c] = 0
    /\ published = Unpublished
    /\ decided' = [decided EXCEPT ![c] = a]
    /\ UNCHANGED published

\* The whole matrix is decided: publish it, once.
Publish ==
    /\ published = Unpublished
    /\ \A c \in Cases : decided[c] # 0
    /\ published' = decided
    /\ UNCHANGED decided

PromiseNext ==
    \/ \E c \in Cases, a \in Attempts : Decide(c, a)
    \/ Publish

PromiseSpec == PromiseInit /\ [][PromiseNext]_promiseVars
=============================================================================
