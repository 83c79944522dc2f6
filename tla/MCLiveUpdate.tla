----------------------------- MODULE MCLiveUpdate -----------------------------
(***************************************************************************)
(* A pool and an item in it; the pool's answers bring the item's.          *)
(***************************************************************************)
EXTENDS LiveUpdate

MCParent == [p \in {"pool", "item"} |-> IF p = "item" THEN "pool" ELSE "root"]
================================================================================
