--------------------------- MODULE MCWebsocketServer ---------------------------
(***************************************************************************)
(* A server with a backend process and a browser, and four places: the     *)
(* root, an item and its version, and the principals.                      *)
(***************************************************************************)
EXTENDS WebsocketServer

MCResource == {"/", "/item", "/item/v0", "/principals"}
MCParent == [r \in MCResource \ {"/"} |-> IF r = "/item/v0" THEN "/item" ELSE "/"]

\* No action reads the frames already sent, so states that differ in them only are
\* explored once; the frames of every step are still checked.
WithoutFrames == <<exists, connected, clients2paths, paths2clients, told>>
===============================================================================
