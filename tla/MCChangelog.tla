------------------------------ MODULE MCChangelog ------------------------------
(***************************************************************************)
(* A process with a root, a pool below it, an item with its first version  *)
(* in the pool, and a second pool.                                         *)
(***************************************************************************)
EXTENDS Changelog

MCResource == {"/", "/p", "/p/i", "/p/i/v", "/c"}
MCParent == [r \in MCResource \ {"/"} |-> CASE r = "/p/i/v" -> "/p/i"
                                            [] r = "/p/i" -> "/p"
                                            [] OTHER -> "/"]
MCFirst == [i \in {"/p/i"} |-> "/p/i/v"]
===============================================================================
