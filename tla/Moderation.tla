------------------------------- MODULE Moderation -------------------------------
(* What moderators do with a proposal.  In an idea collection they publish the  *)
(* badges of a version: a dialog of the resource's menu (ResourceActions.ts)    *)
(* shows them as boxes, and sends what was changed as one transaction           *)
(* (Badge.ts).  In Mercator 2016 a form stores the funding with one request,    *)
(* and the winner's badge with its description with another (Proposal.ts).  In  *)
(* between others post versions, assign badges, or hide the proposal.           *)
EXTENDS Naturals, FiniteSets, FiniteSetsExt

CONSTANTS Moderators,
          IdeaBadges,   \* the badges that can be assigned in the idea collection
          Selected,     \* bound of the runs: the winner badges that forms select
          MaxTurns      \* bound of the runs: what moderators and others do

ASSUME ModerationAssumption == MaxTurns \in Nat

VARIABLES
    board,       \* where the proposal is: "ideas" or "mercator"
    assignments, \* the badge assignments on the server
    lastVersion, \* the versions of an idea's proposal are 1 .. lastVersion
    concealed,   \* whether the proposal is hidden
    funding,     \* which moderation the proposal's funding is from
    screens,     \* moderator -> the page with the menu or the form
    calls,       \* moderator -> the requests under way
    cached,      \* moderator -> what the browser's cache knows of the assignments
    changes,     \* how often the server has changed
    unheard,     \* moderator -> the objects with changes the browser was not told of
    promise,     \* what the last change promised, if its author knew the others
    turns

moderationVars == <<board, assignments, lastVersion, concealed, funding, screens, calls,
                    cached, changes, unheard, promise, turns>>
proposalVars == <<board, assignments, lastVersion, concealed, funding>>
serverVars == <<proposalVars, changes, promise>>
browserVars == <<screens, calls, cached>>

\* An assignment is named by what made it and its badge; it is on a version or on
\* the proposal's item, and "text" is the moderation that described it.
ProposalItem == 0
Assignment(n, badge, object) == [n |-> n, badge |-> badge, object |-> object, text |-> n]
PathOf(a) == <<a.n, a.badge>>
Paths(set) == {PathOf(a) : a \in set}
BadgesOf(set) == {a.badge : a \in set}
On(set, objects) == {a \in set : a.object \in objects}
\* adhGetBadges: a version is listed with its item.
WithItem(version) == {version, ProposalItem}
\* keyBy: of two assignments of a badge the last one stays, and the item's come last.
KeyedByBadge(list) ==
    {a \in list : \/ a.object = ProposalItem
                  \/ ~ \E b \in list : b.badge = a.badge /\ b.object = ProposalItem}

NoPromise == [of |-> "nothing"]
Never == 0              \* of changes: one that nobody knew
NotCached == [objects |-> {}, list |-> {}]
Away == 0
NoDialog == [at |-> "none", boxes |-> {}, known |-> {}, since |-> Never]
NoScreen == [version |-> Away, modal |-> "none", alert |-> FALSE, dialog |-> NoDialog]

Untouched ==
    /\ assignments = {} /\ concealed = FALSE /\ funding = 0
    /\ calls = [m \in Moderators |-> {}]
    /\ cached = [m \in Moderators |-> NotCached]
    /\ changes = 1 /\ unheard = [m \in Moderators |-> {}]
    /\ promise = NoPromise /\ turns = 0
ModerationIdle ==
    /\ Untouched /\ board = "none" /\ lastVersion = 0
    /\ screens = [m \in Moderators |-> NoScreen]
ModerationInit ==
    /\ Untouched /\ board \in {"ideas", "mercator"}
    /\ lastVersion = (IF board = "ideas" THEN 1 ELSE ProposalItem)
    /\ screens = [m \in Moderators |-> [NoScreen EXCEPT !.version = lastVersion]]

Turn == turns < MaxTurns /\ turns' = turns + 1
\* The name of what is done in this turn.
ThisTurn == turns + 1

--------------------------------------------------------------------------------
(* The browsers' caches (HttpCache has them in detail; here a GET that is under *)
(* way is never overtaken by a change).                                         *)

\* The assignments that a GET of these objects yields, and the cache after it.
Fetched(m, objects) ==
    LET known == cached[m].objects
    IN  On(cached[m].list, objects \cap known) \cup On(assignments, objects \ known)
CachedWith(m, objects) ==
    [cached EXCEPT ![m] = [objects |-> @.objects \cup objects,
                           list |-> @.list \cup On(assignments, objects \ @.objects)]]
CachedWithout(m, objects) ==
    [cached EXCEPT ![m] = [objects |-> @.objects \ objects,
                           list |-> {a \in @.list : a.object \notin objects}]]
\* The server has what a GET has to be answered with.
Reachable(m, objects) == ~ concealed \/ objects \subseteq cached[m].objects
\* The change up to which a moderator knows everything, if there is one.
KnownChange(m) == IF unheard[m] = {} THEN changes ELSE Never

\* The server changes these objects.
Changes(objects) ==
    /\ changes' = changes + 1
    /\ unheard' = [m \in Moderators |-> unheard[m] \cup objects]
\* A message of the websocket, or the updated_resources of an answer.
Hears(m, objects) ==
    /\ cached' = CachedWithout(m, objects)
    /\ unheard' = [unheard EXCEPT ![m] = @ \ objects]
Notified(m) ==
    /\ unheard[m] # {}
    /\ Hears(m, unheard[m])
    /\ UNCHANGED <<serverVars, screens, calls, turns>>

--------------------------------------------------------------------------------
(* The modals of a menu: one dialog at a time, and alerts that a timer removes. *)

MenuShown(m) == LET s == screens[m]
                IN  s.version # Away /\ s.modal = "none" /\ ~ s.alert
Cleared(s) == [s EXCEPT !.modal = "none", !.alert = FALSE, !.dialog = NoDialog]
HideModal(s, key) ==
    IF s.modal = key THEN [s EXCEPT !.modal = "none", !.dialog = NoDialog] ELSE s
\* A success closes the dialog of its kind, be it another one by now, and says so.
Reports(s, key) ==
    IF s.version = Away THEN s ELSE [HideModal(s, key) EXCEPT !.alert = TRUE]

ShowsModal(m, key) ==
    /\ MenuShown(m) /\ Turn
    /\ screens' = [screens EXCEPT ![m].modal = key,
                       ![m].dialog.at = IF key = "badges" THEN "reading" ELSE "none"]
    /\ UNCHANGED <<serverVars, calls, cached, unheard>>
CancelsModal(m) ==
    /\ screens[m].modal # "none"
    /\ screens' = [screens EXCEPT ![m] = HideModal(@, @.modal)]
    /\ UNCHANGED <<serverVars, calls, cached, unheard, turns>>
RemoveAlert(m) ==
    /\ screens[m].alert
    /\ screens' = [screens EXCEPT ![m].alert = FALSE]
    /\ UNCHANGED <<serverVars, calls, cached, unheard, turns>>

\* The page goes to another version of the proposal: the watch of resourcePath.
GoesTo(m, version) ==
    /\ screens[m].version \notin {Away, version} /\ Turn
    /\ screens' = [screens EXCEPT ![m] = [Cleared(@) EXCEPT !.version = version]]
    /\ UNCHANGED <<serverVars, calls, cached, unheard>>

--------------------------------------------------------------------------------
(* The dialogs of an idea's proposal.                                           *)

\* The version and its item are there.  The moderator knows it all if the browser
\* was told of every change, the page is at the last version, and no badge is both
\* on the version and on the item.
ReadsAssignments(m) ==
    /\ screens[m].dialog.at = "reading"
    /\ LET s == screens[m]
           objects == WithItem(s.version)
           list == Fetched(m, objects)
           knows == s.version = lastVersion /\ Cardinality(list) = Cardinality(BadgesOf(list))
       IN  \/ /\ Reachable(m, objects)
              /\ screens' = [screens EXCEPT ![m].dialog =
                     [at |-> "asking", boxes |-> BadgesOf(list), known |-> KeyedByBadge(list),
                      since |-> IF knows THEN KnownChange(m) ELSE Never]]
              /\ cached' = CachedWith(m, objects)
           \/ /\ ~ Reachable(m, objects)
              /\ screens' = [screens EXCEPT ![m].dialog.at = "empty"]
              /\ UNCHANGED cached
    /\ UNCHANGED <<serverVars, calls, unheard, turns>>

\* Every assignment is fetched; one that is gone leaves the dialog empty, unless
\* the browser had it in its cache.
ReadsBadges(m) ==
    /\ screens[m].dialog.at = "asking"
    /\ \/ screens' = [screens EXCEPT ![m].dialog.at = "ready"]
       \/ /\ ~ (Paths(screens[m].dialog.known) \subseteq Paths(assignments))
          /\ screens' = [screens EXCEPT ![m].dialog.at = "empty"]
    /\ UNCHANGED <<serverVars, calls, cached, unheard, turns>>

Toggles(m, badge) ==
    /\ screens[m].modal = "badges" /\ screens[m].dialog.at = "ready" /\ Turn
    /\ screens' = [screens EXCEPT ![m].dialog.boxes =
                       IF badge \in @ THEN @ \ {badge} ELSE @ \cup {badge}]
    /\ UNCHANGED <<serverVars, calls, cached, unheard>>

\* The transaction: what is checked and was not, what was and is not any more.
BadgesTransaction(m) ==
    LET s == screens[m]
    IN  [of |-> "badges", at |-> "sent", n |-> ThisTurn, object |-> s.version,
         boxes |-> s.dialog.boxes, since |-> s.dialog.since, touched |-> {},
         posts |-> s.dialog.boxes \ BadgesOf(s.dialog.known),
         deletes |-> Paths({a \in s.dialog.known : a.badge \notin s.dialog.boxes})]
Sends(m, call) == calls' = [calls EXCEPT ![m] = @ \cup {call}]
Simple(kind) == [of |-> kind, at |-> "sent", n |-> ThisTurn, touched |-> {}]

Publishes(m) ==
    /\ screens[m].modal = "badges" /\ screens[m].dialog.at = "ready" /\ Turn
    /\ Sends(m, BadgesTransaction(m))
    /\ UNCHANGED <<serverVars, screens, cached, unheard>>
ReportsAbuse(m) ==
    /\ screens[m].modal = "abuse" /\ Turn
    /\ Sends(m, Simple("abuse"))
    /\ UNCHANGED <<serverVars, screens, cached, unheard>>
\* hide: the item is fetched, and the PUT drops it from the cache.
Hides(m) ==
    /\ MenuShown(m) /\ Reachable(m, {ProposalItem}) /\ Turn
    /\ Sends(m, Simple("hide"))
    /\ cached' = CachedWithout(m, {ProposalItem})
    /\ UNCHANGED <<serverVars, screens, unheard>>

--------------------------------------------------------------------------------
(* The form of Mercator 2016.                                                   *)

\* The badge of the list that comes first in the order, if there is one.
FirstOf(order, list) ==
    LET places == {i \in DOMAIN order : order[i] \in BadgesOf(list)}
    IN  IF places = {} THEN {} ELSE {order[Min(places)]}
ShownOrder == <<"community", "winning", "shortlist">>
WinnerBadges == {"community", "winning", "shortlist"}
ASSUME SelectedAssumption == Selected \subseteq WinnerBadges
\* Mutant: the winning badge is looked for first.
WinningFirst == <<"winning", "community">>
UpdateOrder == <<"community", "winning">>

OpensForm(m) ==
    /\ board = "mercator" /\ screens[m].dialog.at = "none" /\ Turn
    /\ LET name == FirstOf(ShownOrder, Fetched(m, {ProposalItem}))
       IN  screens' = [screens EXCEPT ![m].dialog = [NoDialog EXCEPT
               !.at = IF name = {} THEN "create" ELSE "ready", !.boxes = name]]
    /\ cached' = CachedWith(m, {ProposalItem})
    /\ UNCHANGED <<serverVars, calls, unheard>>
CancelsForm(m) ==
    /\ screens[m].dialog.at \in {"create", "ready"} /\ Turn
    /\ screens' = [screens EXCEPT ![m].dialog = NoDialog]
    /\ UNCHANGED <<serverVars, calls, cached, unheard>>

\* moderate: the proposal is fetched again, the PUT is sent, and the request for the
\* badge once its assignments are there, too.  A badge is selected if the form was opened
\* without one.  A form can be submitted twice.
Moderates(m, name) ==
    /\ \/ screens[m].dialog.at = "create"
       \/ screens[m].dialog.at = "ready" /\ screens[m].dialog.boxes = {name}
    /\ Turn
    /\ LET list == Fetched(m, {ProposalItem})
           updated == FirstOf(UpdateOrder, list)
       IN  Sends(m, [of |-> "moderation", n |-> ThisTurn, since |-> KnownChange(m),
                     put |-> "sent", badge |-> "sent",
                     updates |-> Paths({a \in list : a.badge \in updated}),
                     names |-> IF updated = {} THEN {name} ELSE {}])
    /\ cached' = CachedWithout(m, {ProposalItem})
    /\ UNCHANGED <<serverVars, screens, unheard>>

--------------------------------------------------------------------------------
(* The server.                                                                  *)

\* A call goes on, or ends.
Proceeds(m, call, next) == calls' = [calls EXCEPT ![m] = (@ \ {call}) \cup {next}]
Ends(m, call) == calls' = [calls EXCEPT ![m] = @ \ {call}]

\* A hidden proposal takes no POSTs, a removed assignment is not found, and the
\* validator of the sheet knows every badge of an object.
Granted(call) ==
    /\ call.posts = {} \/ ~ concealed
    /\ call.deletes \subseteq Paths(assignments)
    /\ BadgesOf(On(assignments, {call.object})) \cap call.posts = {}
\* A badge's object gets or loses a reference, and is the item or in it.
Touched(call) ==
    LET removed == {a \in assignments : PathOf(a) \in call.deletes}
    IN  (UNION {WithItem(a.object) : a \in removed})
            \cup (IF call.posts = {} THEN {} ELSE WithItem(call.object))
StoresBadges(m, call) ==
    /\ call.of = "badges" /\ call.at = "sent"
    /\ \/ /\ Granted(call)
          /\ assignments' = {a \in assignments : PathOf(a) \notin call.deletes}
                                \cup {Assignment(call.n, b, call.object) : b \in call.posts}
          /\ Changes(Touched(call))
          /\ promise' = IF call.since = changes
                        THEN [of |-> "badges", boxes |-> call.boxes] ELSE NoPromise
          /\ Proceeds(m, call, [call EXCEPT !.at = "ok", !.touched = Touched(call)])
       \/ /\ ~ Granted(call)
          /\ Proceeds(m, call, [call EXCEPT !.at = "refused"])
          /\ UNCHANGED <<assignments, changes, unheard, promise>>
    /\ UNCHANGED <<board, lastVersion, concealed, funding, screens, cached, turns>>

\* What is hidden can be hidden again.
StoresSimple(m, call) ==
    /\ call.of \in {"hide", "abuse"} /\ call.at = "sent"
    /\ Proceeds(m, call, [call EXCEPT !.at = "ok"])
    /\ IF call.of = "hide" THEN concealed' = TRUE /\ Changes(0 .. lastVersion)
                           ELSE UNCHANGED <<concealed, changes, unheard>>
    /\ UNCHANGED <<board, assignments, lastVersion, funding, promise, screens, cached, turns>>

\* A moderation's requests are two, and only they are known to change anything.
After(call) == [call EXCEPT !.since = IF @ = changes THEN changes + 1 ELSE @]
Kept(call, other) ==
    IF other = "ok" /\ call.since = changes THEN [of |-> "moderation", n |-> call.n]
                                            ELSE NoPromise
StoresFunding(m, call) ==
    /\ call.of = "moderation" /\ call.put = "sent"
    /\ funding' = call.n
    /\ Changes({ProposalItem})
    /\ promise' = Kept(call, call.badge)
    /\ Proceeds(m, call, [After(call) EXCEPT !.put = "ok"])
    /\ UNCHANGED <<board, assignments, lastVersion, concealed, screens, cached, turns>>

\* The badge's description is replaced, or the badge is assigned if it was not yet.
StoresWinner(m, call) ==
    /\ call.of = "moderation" /\ call.badge = "sent"
    /\ \/ /\ \E a \in {a \in assignments : PathOf(a) \in call.updates} :
                 assignments' = (assignments \ {a}) \cup {[a EXCEPT !.text = call.n]}
          /\ Changes({})
          /\ promise' = Kept(call, call.put)
          /\ Proceeds(m, call, [After(call) EXCEPT !.badge = "ok"])
       \/ /\ call.names # {} /\ call.names \cap BadgesOf(assignments) = {}
          /\ assignments' = assignments \cup
                 {Assignment(call.n, name, ProposalItem) : name \in call.names}
          /\ Changes({ProposalItem})
          /\ promise' = Kept(call, call.put)
          /\ Proceeds(m, call, [After(call) EXCEPT !.badge = "ok"])
       \/ /\ call.names \cap BadgesOf(assignments) # {}
          /\ promise' = IF call.since = changes THEN [of |-> "refused"] ELSE promise
          /\ Proceeds(m, call, [call EXCEPT !.badge = "refused"])
          /\ UNCHANGED <<assignments, changes, unheard>>
    /\ UNCHANGED <<board, lastVersion, concealed, funding, screens, cached, turns>>

--------------------------------------------------------------------------------
(* The answers, and what others do.                                             *)

\* The dialog closes; a page whose proposal was hidden is left.
Reported(m, call) ==
    /\ call.of # "moderation" /\ call.at = "ok"
    /\ Ends(m, call)
    /\ Hears(m, call.touched)
    /\ screens' = [screens EXCEPT ![m] =
                       IF call.of = "hide" THEN NoScreen ELSE Reports(@, call.of)]
    /\ UNCHANGED <<serverVars, turns>>
\* An error is shown in the dialog that was submitted.
ShowsError(m, call) ==
    /\ call.of # "moderation" /\ call.at = "refused"
    /\ Ends(m, call)
    /\ UNCHANGED <<serverVars, screens, cached, unheard, turns>>
\* The form is left when both requests have succeeded; nothing handles an error.
Moderated(m, call) ==
    /\ call.of = "moderation" /\ "sent" \notin {call.put, call.badge}
    /\ Ends(m, call)
    /\ Hears(m, IF "ok" \in {call.put, call.badge} THEN {ProposalItem} ELSE {})
    /\ screens' = IF call.put = "ok" /\ call.badge = "ok"
                  THEN [screens EXCEPT ![m].dialog = NoDialog] ELSE screens
    /\ UNCHANGED <<serverVars, turns>>

\* A request or its answer is lost.
Loses(m, call) ==
    /\ Turn
    /\ \/ call.of # "moderation" /\ Ends(m, call)
       \/ /\ call.of = "moderation"
          /\ \E half \in {"put", "badge"} :
                /\ call[half] \in {"sent", "ok"}
                /\ Proceeds(m, call, [call EXCEPT ![half] = "failed"])
    /\ UNCHANGED <<serverVars, screens, cached, unheard>>

\* Mutant: without the subscriber.
NotUpdated(version) == assignments
\* The new version's event lets the assignments of the last one refer to it.
AutoUpdated(version) ==
    {IF a.object = lastVersion THEN [a EXCEPT !.object = version] ELSE a : a \in assignments}
\* Somebody edits the proposal.
NewVersion ==
    /\ board = "ideas" /\ ~ concealed /\ Turn
    /\ lastVersion' = lastVersion + 1
    /\ assignments' = AutoUpdated(lastVersion + 1)
    /\ Changes({ProposalItem, lastVersion, lastVersion + 1})
    /\ UNCHANGED <<board, concealed, funding, promise, browserVars>>
\* ad_assign_badges, whose user assigns a badge to the item at most once.
Script(badge) ==
    /\ PathOf(Assignment(0, badge, ProposalItem)) \notin Paths(assignments)
    /\ Turn
    /\ assignments' = assignments \cup {Assignment(0, badge, ProposalItem)}
    /\ Changes({ProposalItem})
    /\ promise' = NoPromise
    /\ UNCHANGED <<board, lastVersion, concealed, funding, browserVars>>

CallGoesOn(m, call) ==
    \/ StoresBadges(m, call) \/ StoresSimple(m, call)
    \/ StoresFunding(m, call) \/ StoresWinner(m, call)
    \/ Reported(m, call) \/ ShowsError(m, call) \/ Moderated(m, call)
    \/ Loses(m, call)
IdeasActs(m) ==
    \/ \E key \in {"badges", "abuse"} : ShowsModal(m, key)
    \/ CancelsModal(m) \/ RemoveAlert(m)
    \/ \E version \in 1 .. lastVersion : GoesTo(m, version)
    \/ ReadsAssignments(m) \/ ReadsBadges(m)
    \/ \E badge \in IdeaBadges : Toggles(m, badge)
    \/ Publishes(m) \/ ReportsAbuse(m) \/ Hides(m)
MercatorActs(m) ==
    \/ OpensForm(m) \/ CancelsForm(m)
    \/ \E name \in Selected : Moderates(m, name)
ModerationNext ==
    \/ \E m \in Moderators :
          \/ board = "ideas" /\ IdeasActs(m)
          \/ board = "mercator" /\ MercatorActs(m)
          \/ \E call \in calls[m] : CallGoesOn(m, call)
          \/ Notified(m)
    \/ NewVersion
    \/ board = "ideas" /\ \E badge \in IdeaBadges : Script(badge)
    \/ board = "mercator" /\ \E name \in WinnerBadges : Script(name)

ModerationSpec == ModerationInit /\ [][ModerationNext]_moderationVars

--------------------------------------------------------------------------------
(* Properties.                                                                  *)

\* The badges that a moderator published are those that the proposal shows, the
\* boxes of the dialog and no others, if the moderator's page had the last version
\* and its browser knew of every change: through whatever happens to the request,
\* to the page and to other dialogs in between, and however many versions are
\* posted after it (badgeAssignment's submit, the validator of badge.py,
\* autoupdate_non_versionable_has_new_version).
PublishedBadgesStay ==
    promise.of = "badges" =>
        BadgesOf(On(assignments, WithItem(lastVersion))) = promise.boxes

\* A moderation that nobody interfered with has both halves: the funding is its
\* own, and so is the description of the badge that the proposal's page shows (of
\* one assignment, if a script has assigned it twice).  The badge is refused only
\* to a proposal that shows its shortlisting: get takes that for a winner's badge,
\* and moderate does not look for it.
ModerationIsWhole ==
    LET shown == FirstOf(ShownOrder, assignments)
    IN  /\ promise.of = "moderation" =>
              /\ funding = promise.n
              /\ \E a \in assignments : a.badge \in shown /\ a.text = promise.n
        /\ promise.of = "refused" => shown = {"shortlist"}
================================================================================
