----------------------------- MODULE MCIndexBuild -----------------------------
EXTENDS IndexBuild, TLC

CONSTANTS root, lib, src, f1, f2, f3

\* Two folders below the root, one of them with two files.
Tree == root :> {lib, src} @@ lib :> {} @@ src :> {}
Listing == root :> {} @@ lib :> {f1} @@ src :> {f2, f3}

\* f3 alone exceeds the budget.
Bytes == f1 :> 1 @@ f2 :> 2 @@ f3 :> 4
Documents == [k \in Kinds |-> IF k = "text" THEN 1 ELSE 2]
=============================================================================
