------------------------------- MODULE MCSession -------------------------------
(***************************************************************************)
(* Two tabs and two users, of whom one may do everything.  Sessions are    *)
(* explored in two workbenches, with and without moves of the user; longer *)
(* ways through the routes in a third, and pages in all the others.        *)
(***************************************************************************)
EXTENDS Session

MCVisited == [app \in Apps |-> CASE app = "poll" -> {<<"user", "edit">>}
                                 [] app = "alexanderplatz" -> {}
                                 [] OTHER -> {Key(pg) : pg \in Pages(app)}]
MCMaxMoves ==
    [app \in Apps |-> CASE app = "alexanderplatz" -> 3 [] app \in {"poll", "ideas", "s1"} -> 2
                         [] app = "debate" -> 0 [] OTHER -> 1]
MCMaxIncidents ==
    [app \in Apps |-> CASE app = "poll" -> 1 [] app = "debate" -> 2 [] OTHER -> 0]
================================================================================
