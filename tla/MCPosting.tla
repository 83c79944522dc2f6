------------------------------- MODULE MCPosting -------------------------------
(* Two browsers that edit one resource of every kind, a page with two rate      *)
(* widgets next to a page with one, two accounts over a month, and two          *)
(* moderators.                                                                  *)
EXTENDS Posting

MCTouchable == [kind \in Kinds |->
    CASE kind = "mercator2015" -> {Organization("status"), <<"introduction", "picture">>}
      [] kind = "mercator2016" -> {<<"main", "picture">>, <<"pitch", "pitch">>}
      [] kind \in {"document", "image"} -> {<<"main", "picture">>}
      [] kind = "blog" -> {<<"main", "title">>}
      [] kind = "comment" -> {<<"main", "content">>}
      [] kind = "bplan" -> {<<"main", "email">>}
      [] kind = "kiezkasse" -> {<<"main", "budget">>}
      [] OTHER -> {<<"main", "title">>}]
MCSubmissions == [f \in [kind : Kinds, create : BOOLEAN] |-> IF f.create THEN 2 ELSE 1]
MCPages == [proposal |-> <<"top", "bottom">>, listing |-> <<"item">>]
================================================================================
