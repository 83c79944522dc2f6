-------------------------------- MODULE Posting --------------------------------
(* What a user of a page can do to the server's resources: fill in a form       *)
(* (Editing), rate (Rating), register and edit an account (Accounts), or        *)
(* moderate a proposal (Moderation).  They share the server's rules for         *)
(* versions and the retries of Http.ts, and nothing that any of them changes: a *)
(* behaviour is about one of them.                                              *)
EXTENDS Editing, Rating, Accounts, Moderation

CONSTANTS FormsOfPages, RatesOfPages, AccountsOfPages,
          MenusOfPages   \* the names of the parts

VARIABLE part

postingVars == <<part, editingVars, ratingVars, accountsVars, moderationVars>>

Init ==
    \/ part = FormsOfPages /\ EditingInit /\ RatingIdle /\ AccountsIdle /\ ModerationIdle
    \/ part = RatesOfPages /\ RatingInit /\ EditingIdle /\ AccountsIdle /\ ModerationIdle
    \/ part = AccountsOfPages /\ AccountsInit /\ EditingIdle /\ RatingIdle /\ ModerationIdle
    \/ part = MenusOfPages /\ ModerationInit /\ EditingIdle /\ RatingIdle /\ AccountsIdle

FormsAct ==
    /\ part = FormsOfPages /\ EditingNext
    /\ UNCHANGED <<part, ratingVars, accountsVars, moderationVars>>
RatesAct ==
    /\ part = RatesOfPages /\ RatingNext
    /\ UNCHANGED <<part, editingVars, accountsVars, moderationVars>>
AccountsAct ==
    /\ part = AccountsOfPages /\ AccountsNext
    /\ UNCHANGED <<part, editingVars, ratingVars, moderationVars>>
ModerationAct ==
    /\ part = MenusOfPages /\ ModerationNext
    /\ UNCHANGED <<part, editingVars, ratingVars, accountsVars>>
Next == FormsAct \/ RatesAct \/ AccountsAct \/ ModerationAct

\* What was sent is answered, and what waits for an answer goes on.
GoesOn ==
    \/ /\ part = FormsOfPages
       /\ \E c \in Users : \E j \in Slots : JobGoesOn(c, j)
       /\ UNCHANGED <<part, ratingVars, accountsVars, moderationVars>>
    \/ /\ part = RatesOfPages
       /\ \E w \in Widgets : WidgetGoesOn(w)
       /\ UNCHANGED <<part, editingVars, accountsVars, moderationVars>>
Spec == Init /\ [][Next]_postingVars

\* Whatever a user started can come to an end: while a submission has not settled
\* or a rate widget is locked, something goes on that needs no user (finally,
\* timeoutRounds, the error handlers); only a submission of Mercator 2015 can be
\* left hanging.  All bounds being finite, it then ends.
Working ==
    \/ part = FormsOfPages /\ \E c \in Users : \E j \in Slots : Pending(c, j)
    \/ part = RatesOfPages /\ \E w \in Widgets : widgets[w].lock
NothingIsStuck == Working => ENABLED GoesOn
================================================================================
