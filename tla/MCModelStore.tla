----------------------------- MODULE MCModelStore -----------------------------
(* Two processes and two models over three weight files. *)
EXTENDS ModelStore, TLC

CONSTANTS p1, p2, ma, mb, fa, fb, fs

TwoProcs == {p1, p2}
TwoModels == {ma, mb}
ThreeFiles == {fa, fb, fs}
\* Two tasks on one repository: both share a file and have one of their own.
Overlapping == [k \in TwoModels |-> IF k = ma THEN {fa, fs} ELSE {fb, fs}]
\* The files of one are all among the files of the other.
Nested == [k \in TwoModels |-> IF k = ma THEN {fa, fs} ELSE {fs}]
\* Different repositories.
Disjoint == [k \in TwoModels |-> IF k = ma THEN {fa} ELSE {fb}]
Symmetric == Permutations(TwoProcs)
=============================================================================
