---------------------------- MODULE MCItemVersions ----------------------------
(***************************************************************************)
(* A proposal that embeds a document and an image, and the document a      *)
(* section; or, as a diamond, the section in the proposal, too.            *)
(***************************************************************************)
EXTENDS ItemVersions

MCItem == {"proposal", "document", "section"}
Chain == [i \in MCItem |-> CASE i = "proposal" -> {"document"}
                             [] i = "document" -> {"section"}
                             [] OTHER -> {}]
Diamond == [i \in MCItem |-> CASE i = "proposal" -> {"document", "section"}
                               [] i = "document" -> {"section"}
                               [] OTHER -> {}]
Pair == [i \in MCItem |-> IF i = "proposal" THEN {"document", "section"} ELSE {}]
===============================================================================
