--------------------------- MODULE ModerationProofs ---------------------------
(***************************************************************************)
(* For any number of moderators, badges, versions and turns: what was      *)
(* published is what the proposal shows, and a moderation has both halves. *)
(* The argument is about the number of changes that a dialog, a form or a  *)
(* request remembers: while it is the present one nothing has changed, and *)
(* what was read is what is there, up to the texts, which nobody compares. *)
(***************************************************************************)
EXTENDS Moderation, FiniteSetTheorems, TLAPS

\* The badges of paths.
SecondOf(paths) == {p[2] : p \in paths}
ShownPaths(A, v) == Paths(On(A, WithItem(v)))
IsAssignment(a, v) == a \in [n : {a.n}, badge : {a.badge}, object : 0 .. v, text : {a.text}]

\* The server's proposal, with v versions after n changes.
GoodServer(b, A, v, n) ==
    /\ n \in Nat \ {0} /\ v \in Nat
    /\ IsFiniteSet(A) /\ \A a \in A : IsAssignment(a, v)
    /\ b = "mercator" => \A a \in A : a.object = ProposalItem

\* A browser's cache: of an object whose changes it has heard of, what the server has.
GoodCache(k, U, A) ==
    /\ k \in [objects : {k.objects}, list : {k.list}]
    /\ IsFiniteSet(k.list)
    /\ \A a \in k.list : a.object \in k.objects
    /\ \A o \in k.objects \ U : Paths(On(k.list, {o})) = Paths(On(A, {o}))

\* A dialog that knows the last change shows what the server has.
IsDialog(d) ==
    /\ d \in [at : {d.at}, boxes : {d.boxes}, known : {d.known}, since : {d.since}]
    /\ IsFiniteSet(d.boxes)
IsScreen(s) ==
    /\ s \in [version : {s.version}, modal : {s.modal}, alert : {s.alert}, dialog : {s.dialog}]
    /\ IsDialog(s.dialog)
GoodScreen(s, A, v, n) ==
    /\ IsScreen(s) /\ s.version \in 0 .. v /\ s.dialog.since \in 0 .. n
    /\ s.dialog.since = n => s.version = v /\ Paths(s.dialog.known) = ShownPaths(A, v)

\* A request that knows the last change asks for what is between that and its aim.
IsBadges(c) ==
    c \in [of : {"badges"}, at : {c.at}, n : {c.n}, object : {c.object}, boxes : {c.boxes},
           since : {c.since}, touched : {c.touched}, posts : {c.posts}, deletes : {c.deletes}]
GoodBadges(c, A, v, n) ==
    /\ IsBadges(c) /\ c.since \in 0 .. n /\ c.object \in 0 .. v /\ IsFiniteSet(c.posts)
    /\ c.at = "sent" /\ c.since = n =>
         /\ c.object = v
         /\ c.posts = c.boxes \ SecondOf(ShownPaths(A, v))
         /\ c.deletes = {p \in ShownPaths(A, v) : p[2] \notin c.boxes}
IsSimple(c) ==
    /\ c.of \in {"hide", "abuse"}
    /\ c \in [of : {c.of}, at : {c.at}, n : {c.n}, touched : {{}}]
\* Both halves, and those that are stored already.
IsModeration(c) ==
    c \in [of : {"moderation"}, n : {c.n}, since : {c.since}, put : {c.put}, badge : {c.badge},
           updates : {c.updates}, names : {c.names}]
Described(A, n) == \E a \in A : a.badge \in FirstOf(ShownOrder, A) /\ a.text = n
GoodModeration(c, A, fund, n) ==
    /\ IsModeration(c) /\ c.since \in 0 .. n
    /\ c.names = {} \/ \E name \in WinnerBadges : c.names = {name}
    /\ c.since = n =>
         /\ c.put = "ok" => fund = c.n
         /\ c.badge = "ok" => Described(A, c.n)
         /\ c.badge = "sent" =>
              /\ c.updates = {p \in Paths(A) : p[2] \in FirstOf(UpdateOrder, A)}
              /\ c.names # {} => FirstOf(UpdateOrder, A) = {}
GoodCall(c, b, A, v, fund, n) ==
    \/ IsSimple(c)
    \/ b = "ideas" /\ GoodBadges(c, A, v, n)
    \/ b = "mercator" /\ GoodModeration(c, A, fund, n)

\* The two properties.
GoodPromise(p, A, v, fund) ==
    /\ p.of = "badges" => BadgesOf(On(A, WithItem(v))) = p.boxes
    /\ p.of = "moderation" => fund = p.n /\ Described(A, p.n)
    /\ p.of = "refused" => FirstOf(ShownOrder, A) = {"shortlist"}

Domains ==
    /\ DOMAIN screens = Moderators /\ DOMAIN calls = Moderators
    /\ DOMAIN cached = Moderators /\ DOMAIN unheard = Moderators
ModerationInv ==
    /\ Domains
    /\ GoodServer(board, assignments, lastVersion, changes)
    /\ \A m \in Moderators :
         /\ GoodCache(cached[m], unheard[m], assignments)
         /\ GoodScreen(screens[m], assignments, lastVersion, changes)
         /\ \A c \in calls[m] : GoodCall(c, board, assignments, lastVersion, funding, changes)
    /\ GoodPromise(promise, assignments, lastVersion, funding)

--------------------------------------------------------------------------------
(* The helpers.                                                                 *)

\* The badges of assignments are those of their paths.
LEMMA BadgesOfPaths ==
    ASSUME NEW S
    PROVE  /\ BadgesOf(S) = SecondOf(Paths(S))
           /\ \A B : Paths({a \in S : a.badge \in B}) = {p \in Paths(S) : p[2] \in B}
           /\ \A B : Paths({a \in S : a.badge \notin B}) = {p \in Paths(S) : p[2] \notin B}
<1>1. \A a : PathOf(a)[2] = a.badge
  BY DEF PathOf
<1> QED
  BY <1>1 DEF BadgesOf, SecondOf, Paths

\* The first of an order depends on the badges.
LEMMA FirstOfBadges ==
    ASSUME NEW S, NEW R, BadgesOf(S) = BadgesOf(R), NEW order
    PROVE  FirstOf(order, S) = FirstOf(order, R)
  BY DEF FirstOf

\* The least number of a set.
LEMMA MinIs ==
    ASSUME NEW S, S \subseteq Nat, NEW x \in S, \A y \in S : x =< y
    PROVE  Min(S) = x
<1>1. \E y \in S : \A z \in S : y =< z
  OBVIOUS
<1>2. Min(S) \in S /\ \A z \in S : Min(S) =< z
  BY <1>1 DEF Min
<1>3. Min(S) =< x /\ x =< Min(S) /\ x \in Nat /\ Min(S) \in Nat
  BY <1>2
<1> QED
  BY <1>3

\* The badge that a moderation updates, and the one that the page shows.
LEMMA FirstBadges ==
    ASSUME NEW S
    PROVE  /\ FirstOf(UpdateOrder, S) = IF "community" \in BadgesOf(S) THEN {"community"}
                                        ELSE IF "winning" \in BadgesOf(S) THEN {"winning"} ELSE {}
           /\ FirstOf(ShownOrder, S) = IF "community" \in BadgesOf(S) THEN {"community"}
                                       ELSE IF "winning" \in BadgesOf(S) THEN {"winning"}
                                       ELSE IF "shortlist" \in BadgesOf(S) THEN {"shortlist"} ELSE {}
<1> DEFINE B == BadgesOf(S)
           two == {i \in DOMAIN UpdateOrder : UpdateOrder[i] \in B}
           three == {i \in DOMAIN ShownOrder : ShownOrder[i] \in B}
<1> HIDE DEF B
<1>1. /\ DOMAIN UpdateOrder = {1, 2} /\ UpdateOrder[1] = "community" /\ UpdateOrder[2] = "winning"
      /\ DOMAIN ShownOrder = {1, 2, 3} /\ ShownOrder[1] = "community"
      /\ ShownOrder[2] = "winning" /\ ShownOrder[3] = "shortlist"
  BY DEF UpdateOrder, ShownOrder
<1>2. two \subseteq Nat /\ three \subseteq Nat
  BY <1>1
<1>3. /\ FirstOf(UpdateOrder, S) = IF two = {} THEN {} ELSE {UpdateOrder[Min(two)]}
      /\ FirstOf(ShownOrder, S) = IF three = {} THEN {} ELSE {ShownOrder[Min(three)]}
  BY DEF FirstOf, B
<1>4. CASE "community" \in B
  <2>1. 1 \in two /\ 1 \in three /\ (\A i \in two : 1 =< i) /\ (\A i \in three : 1 =< i)
    BY <1>1, <1>4
  <2>2. Min(two) = 1 /\ Min(three) = 1
    BY <1>2, <2>1, MinIs
  <2> QED
    BY <1>1, <1>3, <1>4, <2>1, <2>2 DEF B
<1>5. CASE "community" \notin B /\ "winning" \in B
  <2>1. 2 \in two /\ 2 \in three /\ (\A i \in two : 2 =< i) /\ (\A i \in three : 2 =< i)
    BY <1>1, <1>5
  <2>2. Min(two) = 2 /\ Min(three) = 2
    BY <1>2, <2>1, MinIs
  <2> QED
    BY <1>1, <1>3, <1>5, <2>1, <2>2 DEF B
<1>6. CASE "community" \notin B /\ "winning" \notin B /\ "shortlist" \in B
  <2>1. two = {} /\ 3 \in three /\ (\A i \in three : 3 =< i)
    BY <1>1, <1>6
  <2>2. Min(three) = 3
    BY <1>2, <2>1, MinIs
  <2> QED
    BY <1>1, <1>3, <1>6, <2>1, <2>2 DEF B
<1>7. CASE "community" \notin B /\ "winning" \notin B /\ "shortlist" \notin B
  <2>1. two = {} /\ three = {}
    BY <1>1, <1>7
  <2> QED
    BY <1>3, <1>7, <2>1 DEF B
<1> QED
  BY <1>4, <1>5, <1>6, <1>7

\* Assignments on objects, object by object.
LEMMA OnObjects ==
    ASSUME NEW S, NEW objects, NEW R,
           \A o \in objects : Paths(On(S, {o})) = Paths(On(R, {o}))
    PROVE  Paths(On(S, objects)) = Paths(On(R, objects))
<1>1. ASSUME NEW T, NEW p
      PROVE  p \in Paths(On(T, objects)) <=> \E o \in objects : p \in Paths(On(T, {o}))
  BY DEF Paths, On
<1>2. \A p : p \in Paths(On(S, objects)) <=> p \in Paths(On(R, objects))
  BY <1>1
<1> QED
  BY <1>2

\* A browser that has heard of every change gets what the server has.
LEMMA FetchedPaths ==
    ASSUME NEW m, NEW objects, GoodCache(cached[m], {}, assignments)
    PROVE  Paths(Fetched(m, objects)) = Paths(On(assignments, objects))
<1> DEFINE k == cached[m]
           list == Fetched(m, objects)
<1>1. ASSUME NEW o \in objects
      PROVE  Paths(On(list, {o})) = Paths(On(assignments, {o}))
  <2>1. CASE o \in k.objects
    <3>1. On(list, {o}) = On(k.list, {o})
      BY <1>1, <2>1 DEF Fetched, On
    <3> QED
      BY <2>1, <3>1 DEF GoodCache
  <2>2. CASE o \notin k.objects
    <3>1. On(list, {o}) = On(assignments, {o})
      BY <1>1, <2>2 DEF Fetched, On
    <3> QED
      BY <3>1
  <2> QED
    BY <2>1, <2>2
<1>2. On(list, objects) = list
  BY DEF Fetched, On
<1> HIDE DEF list
<1>3. Paths(On(list, objects)) = Paths(On(assignments, objects))
  BY <1>1, OnObjects
<1> QED
  BY <1>2, <1>3 DEF list

\* A part of finite assignments is finite.
LEMMA OnFinite ==
    ASSUME NEW S, IsFiniteSet(S), NEW objects
    PROVE  IsFiniteSet(On(S, objects))
<1>1. On(S, objects) \subseteq S
  BY DEF On
<1> QED
  BY <1>1, FS_Subset

\* Of assignments whose badges all differ, keyBy keeps all.
LEMMA KeyedKeepsAll ==
    ASSUME NEW list, IsFiniteSet(list), Cardinality(list) = Cardinality(BadgesOf(list))
    PROVE  KeyedByBadge(list) = list
<1> DEFINE B == BadgesOf(list)
           f == [a \in list |-> a.badge]
<1>1. f \in Surjection(list, B)
  BY DEF Surjection, BadgesOf
<1>2. IsFiniteSet(B)
  BY <1>1, FS_Surjection
<1>3. f \in Injection(list, B)
  BY <1>1, <1>2, FS_SurjSameCardinalityImpliesInj
<1>4. \A a, b \in list : a.badge = b.badge => a = b
  BY <1>3 DEF Injection, IsInjective
<1> QED
  BY <1>4 DEF KeyedByBadge

--------------------------------------------------------------------------------
(* What the browsers do, while the server stays as it is.                       *)

\* A screen whose dialog is closed, or remembers what it did.
LEMMA ScreenKept ==
    ASSUME NEW s, NEW A, NEW v, NEW n \in Nat \ {0}, GoodScreen(s, A, v, n),
           NEW t, IsScreen(t), t.version \in 0 .. v,
           \/ t.dialog.since = Never
           \/ /\ t.version = s.version
              /\ t.dialog.since = s.dialog.since /\ t.dialog.known = s.dialog.known
    PROVE  GoodScreen(t, A, v, n)
  BY DEF GoodScreen, Never

\* What a browser fetches is in its cache, as the server has it.
LEMMA FetchingKeepsCache ==
    ASSUME NEW k, NEW U, NEW A, GoodCache(k, U, A), IsFiniteSet(A), NEW objects
    PROVE  GoodCache([objects |-> k.objects \cup objects,
                      list |-> k.list \cup On(A, objects \ k.objects)], U, A)
<1> DEFINE more == objects \ k.objects
           new == [objects |-> k.objects \cup objects, list |-> k.list \cup On(A, more)]
<1>1. IsFiniteSet(k.list \cup On(A, more))
  BY OnFinite, FS_Union DEF GoodCache
<1>2. \A a \in new.list : a.object \in new.objects
  BY DEF GoodCache, On
<1>3. ASSUME NEW o \in new.objects \ U
      PROVE  Paths(On(new.list, {o})) = Paths(On(A, {o}))
  <2>1. CASE o \in k.objects
    <3>1. On(new.list, {o}) = On(k.list, {o})
      BY <2>1 DEF On
    <3> QED
      BY <1>3, <2>1, <3>1 DEF GoodCache
  <2>2. CASE o \notin k.objects
    <3>1. On(new.list, {o}) = On(A, {o})
      BY <1>3, <2>2 DEF On, GoodCache
    <3> QED
      BY <3>1
  <2> QED
    BY <2>1, <2>2
<1> QED
  BY <1>1, <1>2, <1>3 DEF GoodCache

\* What a browser forgets it does not know wrongly, and need not hear of.
LEMMA ForgettingKeepsCache ==
    ASSUME NEW k, NEW U, NEW A, GoodCache(k, U, A), NEW objects
    PROVE  LET new == [objects |-> k.objects \ objects,
                       list |-> {a \in k.list : a.object \notin objects}]
           IN  GoodCache(new, U, A) /\ GoodCache(new, U \ objects, A)
<1> DEFINE new == [objects |-> k.objects \ objects,
                   list |-> {a \in k.list : a.object \notin objects}]
<1>1. IsFiniteSet(new.list)
  <2>1. new.list \subseteq k.list
    OBVIOUS
  <2> QED
    BY <2>1, FS_Subset DEF GoodCache
<1>2. \A a \in new.list : a.object \in new.objects
  BY DEF GoodCache
<1>3. ASSUME NEW o \in new.objects \ (U \ objects)
      PROVE  Paths(On(new.list, {o})) = Paths(On(A, {o}))
  <2>1. On(new.list, {o}) = On(k.list, {o}) /\ o \in k.objects \ U
    BY <1>3 DEF On
  <2> QED
    BY <2>1 DEF GoodCache
<1> QED
  BY <1>1, <1>2, <1>3 DEF GoodCache

\* While the server stays as it is, what each browser has must be good.
LEMMA QuietStep ==
    ASSUME ModerationInv, UNCHANGED serverVars, Domains',
           \A m \in Moderators :
             /\ GoodCache(cached'[m], unheard'[m], assignments)
             /\ GoodScreen(screens'[m], assignments, lastVersion, changes)
             /\ \A c \in calls'[m] :
                  GoodCall(c, board, assignments, lastVersion, funding, changes)
    PROVE  ModerationInv'
  BY DEF ModerationInv, serverVars, proposalVars

\* A step of one moderator's screen.
LEMMA ScreenStep ==
    ASSUME ModerationInv, NEW m \in Moderators, NEW s,
           GoodScreen(s, assignments, lastVersion, changes),
           screens' = [screens EXCEPT ![m] = s],
           UNCHANGED <<serverVars, calls, cached, unheard>>
    PROVE  ModerationInv'
<1>1. Domains'
  BY DEF ModerationInv, Domains
<1>2. \A k \in Moderators : screens'[k] = IF k = m THEN s ELSE screens[k]
  BY DEF ModerationInv, Domains
<1> QED
  BY <1>1, <1>2, QuietStep DEF ModerationInv

\* The modals of a menu, and the form without its requests.
LEMMA ModalsKeep ==
    ASSUME ModerationInv, NEW m \in Moderators,
           \/ \E key \in {"badges", "abuse"} : ShowsModal(m, key)
           \/ CancelsModal(m) \/ RemoveAlert(m)
           \/ \E version \in 1 .. lastVersion : GoesTo(m, version)
           \/ ReadsBadges(m) \/ \E badge \in IdeaBadges : Toggles(m, badge)
           \/ CancelsForm(m)
    PROVE  ModerationInv'
<1> DEFINE s == screens[m]
<1>0. /\ GoodScreen(s, assignments, lastVersion, changes) /\ changes \in Nat \ {0}
      /\ IsScreen(s) /\ s.version \in 0 .. lastVersion /\ lastVersion \in Nat
      /\ m \in DOMAIN screens
  BY DEF ModerationInv, Domains, GoodScreen, GoodServer
<1>1. IsDialog(NoDialog) /\ NoDialog.since = Never
  BY FS_EmptySet DEF NoDialog, IsDialog
<1>2. ASSUME NEW t, IsScreen(t), t.version \in 0 .. lastVersion, screens' = [screens EXCEPT ![m] = t],
             UNCHANGED <<serverVars, calls, cached, unheard>>,
             \/ t.dialog.since = Never
             \/ /\ t.version = s.version
                /\ t.dialog.since = s.dialog.since /\ t.dialog.known = s.dialog.known
      PROVE  ModerationInv'
  <2>1. GoodScreen(t, assignments, lastVersion, changes)
    BY <1>0, <1>2, ScreenKept
  <2> QED
    BY <1>2, <2>1, ScreenStep
<1>3. ASSUME NEW key, ShowsModal(m, key)
      PROVE  ModerationInv'
  <2> DEFINE at == IF key = "badges" THEN "reading" ELSE "none"
             t == [s EXCEPT !.modal = key, !.dialog = [@ EXCEPT !.at = at]]
  <2>1. screens' = [screens EXCEPT ![m] = t]
    BY <1>0, <1>3 DEF ShowsModal
  <2>2. /\ IsScreen(t) /\ t.version = s.version /\ t.dialog.since = s.dialog.since
        /\ t.dialog.known = s.dialog.known
    BY <1>0 DEF IsScreen, IsDialog
  <2> HIDE DEF t
  <2> QED
    BY <1>0, <1>2, <1>3, <2>1, <2>2 DEF ShowsModal
<1>4. CASE CancelsModal(m)
  <2> DEFINE t == [s EXCEPT !.modal = "none", !.dialog = NoDialog]
  <2>1. screens' = [screens EXCEPT ![m] = t]
    BY <1>0, <1>4 DEF CancelsModal, HideModal
  <2>2. IsScreen(t) /\ t.version = s.version /\ t.dialog = NoDialog
    BY <1>0, <1>1 DEF IsScreen
  <2> HIDE DEF t
  <2> QED
    BY <1>0, <1>1, <1>2, <1>4, <2>1, <2>2 DEF CancelsModal
<1>5. CASE RemoveAlert(m)
  <2> DEFINE t == [s EXCEPT !.alert = FALSE]
  <2>1. screens' = [screens EXCEPT ![m] = t]
    BY <1>0, <1>5 DEF RemoveAlert
  <2>2. IsScreen(t) /\ t.version = s.version /\ t.dialog = s.dialog
    BY <1>0 DEF IsScreen
  <2> HIDE DEF t
  <2> QED
    BY <1>0, <1>2, <1>5, <2>1, <2>2 DEF RemoveAlert
<1>6. ASSUME NEW version \in 1 .. lastVersion, GoesTo(m, version)
      PROVE  ModerationInv'
  <2> DEFINE t == [Cleared(s) EXCEPT !.version = version]
  <2>1. screens' = [screens EXCEPT ![m] = t]
    BY <1>0, <1>6 DEF GoesTo
  <2>2. IsScreen(t) /\ t.version = version /\ t.dialog = NoDialog
    BY <1>0, <1>1 DEF IsScreen, Cleared
  <2> HIDE DEF t
  <2>3. t.version \in 0 .. lastVersion /\ t.dialog.since = Never
    BY <1>0, <1>1, <1>6, <2>2
  <2>4. UNCHANGED <<serverVars, calls, cached, unheard>>
    BY <1>6 DEF GoesTo
  <2> QED
    BY <1>2, <2>1, <2>2, <2>3, <2>4
<1>7. ASSUME NEW at, screens' = [screens EXCEPT ![m].dialog.at = at],
             UNCHANGED <<serverVars, calls, cached, unheard>>
      PROVE  ModerationInv'
  <2> DEFINE t == [s EXCEPT !.dialog = [@ EXCEPT !.at = at]]
  <2>1. screens' = [screens EXCEPT ![m] = t]
    BY <1>0, <1>7
  <2>2. /\ IsScreen(t) /\ t.version = s.version /\ t.dialog.since = s.dialog.since
        /\ t.dialog.known = s.dialog.known
    BY <1>0 DEF IsScreen, IsDialog
  <2> HIDE DEF t
  <2> QED
    BY <1>0, <1>2, <1>7, <2>1, <2>2
<1>8. CASE ReadsBadges(m)
  BY <1>7, <1>8 DEF ReadsBadges
<1>9. ASSUME NEW badge, Toggles(m, badge)
      PROVE  ModerationInv'
  <2> DEFINE boxes == IF badge \in s.dialog.boxes THEN s.dialog.boxes \ {badge}
                      ELSE s.dialog.boxes \cup {badge}
             t == [s EXCEPT !.dialog = [@ EXCEPT !.boxes = boxes]]
  <2>1. screens' = [screens EXCEPT ![m] = t]
    BY <1>0, <1>9 DEF Toggles
  <2>2. IsFiniteSet(boxes)
    BY <1>0, FS_RemoveElement, FS_AddElement DEF IsScreen, IsDialog
  <2> HIDE DEF boxes
  <2>3. /\ IsScreen(t) /\ t.version = s.version /\ t.dialog.since = s.dialog.since
        /\ t.dialog.known = s.dialog.known
    BY <1>0, <2>2 DEF IsScreen, IsDialog
  <2> HIDE DEF t
  <2> QED
    BY <1>0, <1>2, <1>9, <2>1, <2>3 DEF Toggles
<1>10. CASE CancelsForm(m)
  <2> DEFINE t == [s EXCEPT !.dialog = NoDialog]
  <2>1. screens' = [screens EXCEPT ![m] = t]
    BY <1>0, <1>10 DEF CancelsForm
  <2>2. IsScreen(t) /\ t.version = s.version /\ t.dialog = NoDialog
    BY <1>0, <1>1 DEF IsScreen
  <2> HIDE DEF t
  <2> QED
    BY <1>0, <1>1, <1>2, <1>10, <2>1, <2>2 DEF CancelsForm
<1> QED
  BY <1>3, <1>4, <1>5, <1>6, <1>8, <1>9, <1>10

\* A step of one moderator's requests.
LEMMA CallsKept ==
    ASSUME ModerationInv, NEW m \in Moderators, NEW S,
           \A c \in S : \/ c \in calls[m]
                        \/ GoodCall(c, board, assignments, lastVersion, funding, changes),
           calls' = [calls EXCEPT ![m] = S]
    PROVE  /\ DOMAIN calls' = Moderators
           /\ \A k \in Moderators : \A c \in calls'[k] :
                 GoodCall(c, board, assignments, lastVersion, funding, changes)
<1>1. \A k \in Moderators : calls'[k] = IF k = m THEN S ELSE calls[k]
  BY DEF ModerationInv, Domains
<1> QED
  BY <1>1 DEF ModerationInv, Domains

\* A step in which one browser forgets objects, and may have heard of them.
LEMMA ForgettingKept ==
    ASSUME ModerationInv, NEW m \in Moderators, NEW objects,
           cached' = CachedWithout(m, objects),
           \/ unheard' = unheard
           \/ unheard' = [unheard EXCEPT ![m] = @ \ objects]
    PROVE  /\ DOMAIN cached' = Moderators /\ DOMAIN unheard' = Moderators
           /\ \A k \in Moderators : GoodCache(cached'[k], unheard'[k], assignments)
<1> DEFINE new == [objects |-> cached[m].objects \ objects,
                   list |-> {a \in cached[m].list : a.object \notin objects}]
<1>1. \A k \in Moderators : cached'[k] = IF k = m THEN new ELSE cached[k]
  BY DEF ModerationInv, Domains, CachedWithout
<1>2. \A k \in Moderators \ {m} : unheard'[k] = unheard[k]
  BY DEF ModerationInv, Domains
<1>3. unheard'[m] = unheard[m] \/ unheard'[m] = unheard[m] \ objects
  BY DEF ModerationInv, Domains
<1>4. /\ GoodCache(new, unheard[m], assignments)
      /\ GoodCache(new, unheard[m] \ objects, assignments)
  BY ForgettingKeepsCache DEF ModerationInv
<1> HIDE DEF new
<1>5. \A k \in Moderators : GoodCache(cached'[k], unheard'[k], assignments)
  BY <1>1, <1>2, <1>3, <1>4 DEF ModerationInv
<1> QED
  BY <1>5 DEF ModerationInv, Domains, CachedWithout

\* A step in which one browser fetches objects.
LEMMA FetchingKept ==
    ASSUME ModerationInv, NEW m \in Moderators, NEW objects,
           cached' = CachedWith(m, objects), unheard' = unheard
    PROVE  /\ DOMAIN cached' = Moderators /\ DOMAIN unheard' = Moderators
           /\ \A k \in Moderators : GoodCache(cached'[k], unheard'[k], assignments)
<1> DEFINE new == [objects |-> cached[m].objects \cup objects,
                   list |-> cached[m].list \cup On(assignments, objects \ cached[m].objects)]
<1>1. \A k \in Moderators : cached'[k] = IF k = m THEN new ELSE cached[k]
  BY DEF ModerationInv, Domains, CachedWith
<1>2. GoodCache(new, unheard[m], assignments)
  BY FetchingKeepsCache DEF ModerationInv, GoodServer
<1> HIDE DEF new
<1>3. \A k \in Moderators : GoodCache(cached'[k], unheard'[k], assignments)
  BY <1>1, <1>2 DEF ModerationInv
<1> QED
  BY <1>3 DEF ModerationInv, Domains, CachedWith

\* What is fetched is finite.
LEMMA FetchedFinite ==
    ASSUME ModerationInv, NEW m \in Moderators, NEW objects
    PROVE  /\ IsFiniteSet(Fetched(m, objects)) /\ IsFiniteSet(BadgesOf(Fetched(m, objects)))
<1> DEFINE list == Fetched(m, objects)
           f == [a \in list |-> a.badge]
<1>1. IsFiniteSet(cached[m].list) /\ IsFiniteSet(assignments)
  BY DEF ModerationInv, GoodCache, GoodServer
<1>2. IsFiniteSet(list)
  BY <1>1, OnFinite, FS_Union DEF Fetched
<1>3. f \in Surjection(list, BadgesOf(list))
  BY DEF Surjection, BadgesOf
<1>4. IsFiniteSet(BadgesOf(list))
  BY <1>2, <1>3, FS_Surjection
<1> QED
  BY <1>2, <1>4

\* The dialog of the badges: what it shows and remembers when it has been read.
LEMMA ReadingKeeps ==
    ASSUME ModerationInv, NEW m \in Moderators, ReadsAssignments(m)
    PROVE  ModerationInv'
<1> DEFINE s == screens[m]
           objects == WithItem(s.version)
           list == Fetched(m, objects)
           knows == s.version = lastVersion /\ Cardinality(list) = Cardinality(BadgesOf(list))
           since == IF knows THEN KnownChange(m) ELSE Never
           d == [at |-> "asking", boxes |-> BadgesOf(list), known |-> KeyedByBadge(list),
                 since |-> since]
           t == [s EXCEPT !.dialog = d]
<1>1. /\ GoodScreen(s, assignments, lastVersion, changes) /\ changes \in Nat \ {0}
      /\ IsScreen(s) /\ s.version \in 0 .. lastVersion /\ m \in DOMAIN screens
      /\ GoodCache(cached[m], unheard[m], assignments)
  BY DEF ModerationInv, Domains, GoodScreen, GoodServer
<1>2. UNCHANGED <<serverVars, calls, unheard>>
  BY DEF ReadsAssignments
<1>3. CASE screens' = [screens EXCEPT ![m].dialog = d] /\ cached' = CachedWith(m, objects)
  <2>1. screens' = [screens EXCEPT ![m] = t]
    BY <1>1, <1>3
  <2>2. IsFiniteSet(list) /\ IsFiniteSet(BadgesOf(list))
    BY FetchedFinite
  <2>3. since \in 0 .. changes
    BY <1>1 DEF KnownChange, Never
  <2>4. ASSUME since = changes
        PROVE  s.version = lastVersion /\ Paths(KeyedByBadge(list)) = ShownPaths(assignments, lastVersion)
    <3>1. knows /\ unheard[m] = {}
      BY <1>1, <2>4 DEF KnownChange, Never
    <3>2. KeyedByBadge(list) = list
      BY <2>2, <3>1, KeyedKeepsAll
    <3>3. Paths(list) = Paths(On(assignments, objects))
      BY <1>1, <3>1, FetchedPaths
    <3> QED
      BY <3>1, <3>2, <3>3 DEF ShownPaths
  <2> HIDE DEF list, since
  <2>5. /\ d \in [at : {d.at}, boxes : {d.boxes}, known : {d.known}, since : {d.since}]
        /\ d.boxes = BadgesOf(list) /\ d.known = KeyedByBadge(list) /\ d.since = since
    OBVIOUS
  <2> HIDE DEF d
  <2>6. IsDialog(d)
    BY <2>2, <2>5 DEF IsDialog
  <2>7. IsScreen(t) /\ t.version = s.version /\ t.dialog = d
    BY <1>1, <2>6 DEF IsScreen
  <2> HIDE DEF t
  <2>8. GoodScreen(t, assignments, lastVersion, changes)
    BY <1>1, <2>3, <2>4, <2>5, <2>7 DEF GoodScreen
  <2>9. \A k \in Moderators : screens'[k] = IF k = m THEN t ELSE screens[k]
    BY <2>1 DEF ModerationInv, Domains
  <2>10. /\ DOMAIN cached' = Moderators /\ DOMAIN unheard' = Moderators
         /\ \A k \in Moderators : GoodCache(cached'[k], unheard'[k], assignments)
    BY <1>2, <1>3, FetchingKept
  <2>11. Domains'
    BY <1>2, <2>1, <2>10 DEF ModerationInv, Domains
  <2> QED
    BY <1>2, <2>8, <2>9, <2>10, <2>11, QuietStep DEF ModerationInv
<1>4. CASE screens' = [screens EXCEPT ![m].dialog.at = "empty"] /\ UNCHANGED cached
  <2> DEFINE e == [s EXCEPT !.dialog = [@ EXCEPT !.at = "empty"]]
  <2>1. screens' = [screens EXCEPT ![m] = e]
    BY <1>1, <1>4
  <2>2. /\ IsScreen(e) /\ e.version = s.version /\ e.dialog.since = s.dialog.since
        /\ e.dialog.known = s.dialog.known
    BY <1>1 DEF IsScreen, IsDialog
  <2> HIDE DEF e
  <2>3. GoodScreen(e, assignments, lastVersion, changes)
    BY <1>1, <2>2, ScreenKept
  <2> QED
    BY <1>2, <1>4, <2>1, <2>3, ScreenStep
<1> QED
  BY <1>3, <1>4 DEF ReadsAssignments

\* The form, as it is opened: it remembers no change.
LEMMA OpeningKeeps ==
    ASSUME ModerationInv, NEW m \in Moderators, OpensForm(m)
    PROVE  ModerationInv'
<1> DEFINE s == screens[m]
           name == FirstOf(ShownOrder, Fetched(m, {ProposalItem}))
           d == [NoDialog EXCEPT !.at = IF name = {} THEN "create" ELSE "ready", !.boxes = name]
           t == [s EXCEPT !.dialog = d]
<1>1. /\ GoodScreen(s, assignments, lastVersion, changes) /\ changes \in Nat \ {0}
      /\ IsScreen(s) /\ s.version \in 0 .. lastVersion /\ m \in DOMAIN screens
  BY DEF ModerationInv, Domains, GoodScreen, GoodServer
<1>2. UNCHANGED <<serverVars, calls, unheard>> /\ cached' = CachedWith(m, {ProposalItem})
  BY DEF OpensForm
<1>3. screens' = [screens EXCEPT ![m] = t]
  BY <1>1 DEF OpensForm
<1>4. name = {} \/ \E b : name = {b}
  BY DEF FirstOf
<1>5. IsFiniteSet(name)
  BY <1>4, FS_EmptySet, FS_Singleton
<1> HIDE DEF name
<1>6. d.since = Never /\ IsDialog(d)
  BY <1>5 DEF NoDialog, IsDialog
<1> HIDE DEF d
<1>7. IsScreen(t) /\ t.version = s.version /\ t.dialog = d
  BY <1>1, <1>6 DEF IsScreen
<1> HIDE DEF t
<1>8. GoodScreen(t, assignments, lastVersion, changes)
  BY <1>1, <1>6, <1>7, ScreenKept
<1>9. \A k \in Moderators : screens'[k] = IF k = m THEN t ELSE screens[k]
  BY <1>3 DEF ModerationInv, Domains
<1>10. /\ DOMAIN cached' = Moderators /\ DOMAIN unheard' = Moderators
       /\ \A k \in Moderators : GoodCache(cached'[k], unheard'[k], assignments)
  BY <1>2, FetchingKept
<1>11. Domains'
  BY <1>2, <1>3, <1>10 DEF ModerationInv, Domains
<1> QED
  BY <1>2, <1>8, <1>9, <1>10, <1>11, QuietStep DEF ModerationInv

\* A message tells a browser of the changes.
LEMMA NotifiedKeeps ==
    ASSUME ModerationInv, NEW m \in Moderators, Notified(m)
    PROVE  ModerationInv'
<1>1. /\ DOMAIN cached' = Moderators /\ DOMAIN unheard' = Moderators
      /\ \A k \in Moderators : GoodCache(cached'[k], unheard'[k], assignments)
  BY ForgettingKept DEF Notified, Hears
<1>2. UNCHANGED <<serverVars, screens, calls>>
  BY DEF Notified
<1>3. Domains'
  BY <1>1, <1>2 DEF ModerationInv, Domains
<1> QED
  BY <1>1, <1>2, <1>3, QuietStep DEF ModerationInv

\* A step of one moderator's requests, while the screens stay.
LEMMA CallsStep ==
    ASSUME ModerationInv, NEW m \in Moderators, NEW S,
           \A c \in S : \/ c \in calls[m]
                        \/ GoodCall(c, board, assignments, lastVersion, funding, changes),
           calls' = [calls EXCEPT ![m] = S],
           UNCHANGED <<serverVars, screens, unheard>>,
           \/ UNCHANGED cached
           \/ \E objects : cached' = CachedWithout(m, objects)
    PROVE  ModerationInv'
<1>1. /\ DOMAIN calls' = Moderators
      /\ \A k \in Moderators : \A c \in calls'[k] :
            GoodCall(c, board, assignments, lastVersion, funding, changes)
  BY CallsKept
<1>2. /\ DOMAIN cached' = Moderators /\ DOMAIN unheard' = Moderators
      /\ \A k \in Moderators : GoodCache(cached'[k], unheard'[k], assignments)
  <2>1. CASE UNCHANGED cached
    BY <2>1 DEF ModerationInv, Domains
  <2>2. ASSUME NEW objects, cached' = CachedWithout(m, objects)
        PROVE  /\ DOMAIN cached' = Moderators /\ DOMAIN unheard' = Moderators
               /\ \A k \in Moderators : GoodCache(cached'[k], unheard'[k], assignments)
    BY <2>2, ForgettingKept
  <2> QED
    BY <2>1, <2>2
<1>3. Domains'
  BY <1>1, <1>2 DEF ModerationInv, Domains
<1> QED
  BY <1>1, <1>2, <1>3, QuietStep DEF ModerationInv

\* The transaction of the dialog asks for what is between the boxes and the server.
LEMMA PublishingKeeps ==
    ASSUME ModerationInv, board = "ideas", NEW m \in Moderators, Publishes(m)
    PROVE  ModerationInv'
<1> DEFINE s == screens[m]
           known == s.dialog.known
           c == BadgesTransaction(m)
<1>1. /\ GoodScreen(s, assignments, lastVersion, changes) /\ changes \in Nat \ {0}
      /\ s.version \in 0 .. lastVersion /\ IsFiniteSet(s.dialog.boxes)
      /\ s.dialog.since \in 0 .. changes
  BY DEF ModerationInv, GoodScreen, GoodServer, IsScreen, IsDialog
<1>2. /\ BadgesOf(known) = SecondOf(Paths(known))
      /\ Paths({a \in known : a.badge \notin s.dialog.boxes})
            = {p \in Paths(known) : p[2] \notin s.dialog.boxes}
  BY BadgesOfPaths
<1>3. /\ c.object = s.version /\ c.boxes = s.dialog.boxes /\ c.since = s.dialog.since
      /\ c.posts = s.dialog.boxes \ SecondOf(Paths(known))
      /\ c.deletes = {p \in Paths(known) : p[2] \notin s.dialog.boxes}
  BY <1>2 DEF BadgesTransaction
<1>4. IsBadges(c)
  BY DEF BadgesTransaction, IsBadges
<1>5. IsFiniteSet(c.posts)
  <2>1. c.posts \subseteq s.dialog.boxes
    BY <1>3
  <2> QED
    BY <1>1, <2>1, FS_Subset
<1>6. GoodBadges(c, assignments, lastVersion, changes)
  <2> HIDE DEF c
  <2> QED
    BY <1>1, <1>3, <1>4, <1>5 DEF GoodBadges, GoodScreen
<1> HIDE DEF c
<1>7. calls' = [calls EXCEPT ![m] = calls[m] \cup {c}]
  BY DEF Publishes, Sends, c, ModerationInv, Domains
<1>8. UNCHANGED <<serverVars, screens, cached, unheard>>
  BY DEF Publishes
<1>9. \A d \in calls[m] \cup {c} :
         d \in calls[m] \/ GoodCall(d, board, assignments, lastVersion, funding, changes)
  BY <1>6 DEF GoodCall
<1> QED
  BY <1>7, <1>8, <1>9, CallsStep

\* The simple requests.
LEMMA SimpleKeeps ==
    ASSUME ModerationInv, NEW m \in Moderators, ReportsAbuse(m) \/ Hides(m)
    PROVE  ModerationInv'
<1>1. ASSUME NEW kind \in {"hide", "abuse"}, Sends(m, Simple(kind)),
             UNCHANGED <<serverVars, screens, unheard>>,
             \/ UNCHANGED cached
             \/ \E objects : cached' = CachedWithout(m, objects)
      PROVE  ModerationInv'
  <2> DEFINE c == Simple(kind)
  <2>1. GoodCall(c, board, assignments, lastVersion, funding, changes)
    BY <1>1 DEF Simple, IsSimple, GoodCall
  <2> HIDE DEF c
  <2>2. calls' = [calls EXCEPT ![m] = calls[m] \cup {c}]
    BY <1>1 DEF Sends, c, ModerationInv, Domains
  <2> QED
    BY <1>1, <2>1, <2>2, CallsStep
<1>2. CASE ReportsAbuse(m)
  BY <1>1, <1>2 DEF ReportsAbuse
<1>3. CASE Hides(m)
  <2>1. UNCHANGED <<serverVars, screens, unheard>> /\ Sends(m, Simple("hide"))
    BY <1>3 DEF Hides
  <2>2. cached' = CachedWithout(m, {ProposalItem})
    BY <1>3 DEF Hides
  <2> QED
    BY <1>1, <2>1, <2>2
<1> QED
  BY <1>2, <1>3

\* The requests of the form update what the server has, or assign what it lacks.
LEMMA ModeratingKeeps ==
    ASSUME ModerationInv, board = "mercator", NEW m \in Moderators,
           NEW name \in Selected, Moderates(m, name)
    PROVE  ModerationInv'
<1> DEFINE A == assignments
           list == Fetched(m, {ProposalItem})
           updated == FirstOf(UpdateOrder, list)
           c == [of |-> "moderation", n |-> ThisTurn, since |-> KnownChange(m),
                 put |-> "sent", badge |-> "sent",
                 updates |-> Paths({a \in list : a.badge \in updated}),
                 names |-> IF updated = {} THEN {name} ELSE {}]
<1>1. /\ changes \in Nat \ {0} /\ GoodCache(cached[m], unheard[m], A)
      /\ \A a \in A : a.object = ProposalItem
  BY DEF ModerationInv, GoodServer
<1>2. Sends(m, c) /\ cached' = CachedWithout(m, {ProposalItem})
  BY DEF Moderates
<1>3. UNCHANGED <<serverVars, screens, unheard>>
  BY DEF Moderates
<1>4. /\ c.since \in 0 .. changes /\ (c.since = changes => unheard[m] = {})
      /\ c.put = "sent" /\ c.badge = "sent"
      /\ c.names = IF updated = {} THEN {name} ELSE {}
      /\ c.updates = {p \in Paths(list) : p[2] \in updated}
      /\ IsModeration(c)
  <2>1. Paths({a \in list : a.badge \in updated}) = {p \in Paths(list) : p[2] \in updated}
    BY BadgesOfPaths
  <2>2. KnownChange(m) \in 0 .. changes /\ (KnownChange(m) = changes => unheard[m] = {})
    BY <1>1 DEF KnownChange, Never
  <2> HIDE DEF list, updated
  <2> QED
    BY <2>1, <2>2 DEF IsModeration
<1>5. ASSUME unheard[m] = {}
      PROVE  Paths(list) = Paths(A) /\ updated = FirstOf(UpdateOrder, A)
  <2>1. Paths(list) = Paths(On(A, {ProposalItem}))
    BY <1>1, <1>5, FetchedPaths
  <2>2. On(A, {ProposalItem}) = A
    BY <1>1 DEF On
  <2>3. BadgesOf(list) = BadgesOf(A)
    BY <2>1, <2>2, BadgesOfPaths
  <2> QED
    BY <2>1, <2>2, <2>3, FirstOfBadges
<1>6. name \in WinnerBadges
  BY SelectedAssumption
<1> HIDE DEF c, list, updated, A
<1>7. GoodModeration(c, A, funding, changes)
  BY <1>4, <1>5, <1>6 DEF GoodModeration
<1>8. calls' = [calls EXCEPT ![m] = calls[m] \cup {c}]
  BY <1>2 DEF Sends, ModerationInv, Domains
<1>9. \A d \in calls[m] \cup {c} :
         d \in calls[m] \/ GoodCall(d, board, assignments, lastVersion, funding, changes)
  BY <1>7 DEF GoodCall, A
<1> QED
  BY <1>2, <1>3, <1>8, <1>9, CallsStep

\* The answers: what a browser hears, and what its screen does.
LEMMA AnswersKeep ==
    ASSUME ModerationInv, NEW m \in Moderators, NEW call \in calls[m],
           Reported(m, call) \/ Moderated(m, call)
    PROVE  ModerationInv'
<1> DEFINE s == screens[m]
<1>1. /\ GoodScreen(s, assignments, lastVersion, changes) /\ changes \in Nat \ {0}
      /\ IsScreen(s) /\ s.version \in 0 .. lastVersion /\ lastVersion \in Nat
      /\ m \in DOMAIN screens
  BY DEF ModerationInv, Domains, GoodScreen, GoodServer
<1>2. IsDialog(NoDialog) /\ NoDialog.since = Never
  BY FS_EmptySet DEF NoDialog, IsDialog
<1>3. ASSUME NEW t, GoodScreen(t, assignments, lastVersion, changes), NEW objects,
             screens' = [screens EXCEPT ![m] = t] \/ (screens' = screens /\ t = s), Ends(m, call), Hears(m, objects),
             UNCHANGED serverVars
      PROVE  ModerationInv'
  <2>1. \A c \in calls[m] \ {call} :
           c \in calls[m] \/ GoodCall(c, board, assignments, lastVersion, funding, changes)
    OBVIOUS
  <2>2. calls' = [calls EXCEPT ![m] = calls[m] \ {call}]
    BY <1>3 DEF Ends, ModerationInv, Domains
  <2>3. /\ DOMAIN calls' = Moderators
        /\ \A k \in Moderators : \A c \in calls'[k] :
              GoodCall(c, board, assignments, lastVersion, funding, changes)
    BY <2>1, <2>2, CallsKept
  <2>4. /\ DOMAIN cached' = Moderators /\ DOMAIN unheard' = Moderators
        /\ \A k \in Moderators : GoodCache(cached'[k], unheard'[k], assignments)
    BY <1>3, ForgettingKept DEF Hears
  <2>5. \A k \in Moderators : screens'[k] = IF k = m THEN t ELSE screens[k]
    BY <1>3 DEF ModerationInv, Domains
  <2>6. Domains'
    BY <1>3, <2>3, <2>4 DEF ModerationInv, Domains
  <2> QED
    BY <1>3, <2>3, <2>4, <2>5, <2>6, QuietStep DEF ModerationInv
<1>4. CASE Reported(m, call)
  <2> DEFINE t == IF call.of = "hide" THEN NoScreen ELSE Reports(s, call.of)
  <2>1. GoodScreen(NoScreen, assignments, lastVersion, changes)
    <3>1. IsScreen(NoScreen) /\ NoScreen.version = Away /\ NoScreen.dialog = NoDialog
      BY <1>2 DEF NoScreen, IsScreen
    <3> QED
      BY <1>1, <1>2, <3>1 DEF GoodScreen, Away, Never
  <2>2. GoodScreen(Reports(s, call.of), assignments, lastVersion, changes)
    <3> DEFINE h == [s EXCEPT !.modal = "none", !.dialog = NoDialog, !.alert = TRUE]
               k == [s EXCEPT !.alert = TRUE]
    <3>1. Reports(s, call.of) = s \/ Reports(s, call.of) = h \/ Reports(s, call.of) = k
      BY <1>1 DEF Reports, HideModal, IsScreen
    <3>2. IsScreen(h) /\ h.version = s.version /\ h.dialog = NoDialog
      BY <1>1, <1>2 DEF IsScreen
    <3>3. IsScreen(k) /\ k.version = s.version /\ k.dialog = s.dialog
      BY <1>1 DEF IsScreen
    <3> HIDE DEF h, k
    <3>4. GoodScreen(h, assignments, lastVersion, changes)
      BY <1>1, <1>2, <3>2, ScreenKept
    <3>5. GoodScreen(k, assignments, lastVersion, changes)
      BY <1>1, <3>3, ScreenKept
    <3> QED
      BY <1>1, <3>1, <3>4, <3>5
  <2>3. screens' = [screens EXCEPT ![m] = t]
    BY <1>1, <1>4 DEF Reported
  <2>4. Ends(m, call) /\ Hears(m, call.touched) /\ UNCHANGED serverVars
    BY <1>4 DEF Reported
  <2>5. GoodScreen(t, assignments, lastVersion, changes)
    BY <2>1, <2>2
  <2> HIDE DEF t
  <2> QED
    BY <1>3, <2>3, <2>4, <2>5
<1>5. CASE Moderated(m, call)
  <2> DEFINE t == [s EXCEPT !.dialog = NoDialog]
             objects == IF "ok" \in {call.put, call.badge} THEN {ProposalItem} ELSE {}
  <2>1. IsScreen(t) /\ t.version = s.version /\ t.dialog = NoDialog
    BY <1>1, <1>2 DEF IsScreen
  <2>2. screens' = [screens EXCEPT ![m] = t] \/ screens' = screens
    BY <1>1, <1>5 DEF Moderated
  <2>3. Ends(m, call) /\ Hears(m, objects) /\ UNCHANGED serverVars
    BY <1>5 DEF Moderated
  <2> HIDE DEF t, objects
  <2>4. GoodScreen(t, assignments, lastVersion, changes)
    BY <1>1, <1>2, <2>1, ScreenKept
  <2> QED
    BY <1>1, <1>3, <2>2, <2>3, <2>4
<1> QED
  BY <1>4, <1>5

\* A call that is lost or refused, and a report of abuse that is stored.
LEMMA CallsEndQuietly ==
    ASSUME ModerationInv, NEW m \in Moderators, NEW call \in calls[m],
           \/ ShowsError(m, call) \/ Loses(m, call)
           \/ StoresSimple(m, call) /\ call.of = "abuse"
           \/ /\ call.of = "badges" /\ Proceeds(m, call, [call EXCEPT !.at = "refused"])
              /\ UNCHANGED <<serverVars, screens, cached, unheard>>
    PROVE  ModerationInv'
<1>1. GoodCall(call, board, assignments, lastVersion, funding, changes)
  BY DEF ModerationInv
<1>2. ASSUME Ends(m, call), UNCHANGED <<serverVars, screens, cached, unheard>>
      PROVE  ModerationInv'
  <2>1. calls' = [calls EXCEPT ![m] = calls[m] \ {call}]
    BY <1>2 DEF Ends, ModerationInv, Domains
  <2>2. \A c \in calls[m] \ {call} :
           c \in calls[m] \/ GoodCall(c, board, assignments, lastVersion, funding, changes)
    OBVIOUS
  <2> QED
    BY <1>2, <2>1, <2>2, CallsStep
<1>3. ASSUME NEW c, Proceeds(m, call, c), UNCHANGED <<serverVars, screens, cached, unheard>>,
             GoodCall(c, board, assignments, lastVersion, funding, changes)
      PROVE  ModerationInv'
  <2>1. calls' = [calls EXCEPT ![m] = (calls[m] \ {call}) \cup {c}]
    BY <1>3 DEF Proceeds, ModerationInv, Domains
  <2>2. \A d \in (calls[m] \ {call}) \cup {c} :
           d \in calls[m] \/ GoodCall(d, board, assignments, lastVersion, funding, changes)
    BY <1>3
  <2> QED
    BY <1>3, <2>1, <2>2, CallsStep
<1>4. CASE ShowsError(m, call)
  <2>1. Ends(m, call) /\ UNCHANGED <<serverVars, screens, cached, unheard>>
    BY <1>4 DEF ShowsError
  <2> QED
    BY <1>2, <2>1
<1>5. CASE Loses(m, call)
  <2>0. UNCHANGED <<serverVars, screens, cached, unheard>>
    BY <1>5 DEF Loses
  <2>1. CASE Ends(m, call)
    BY <1>2, <2>0, <2>1
  <2>2. ASSUME call.of = "moderation", NEW half \in {"put", "badge"},
               Proceeds(m, call, [call EXCEPT ![half] = "failed"])
        PROVE  ModerationInv'
    <3> DEFINE c == [call EXCEPT ![half] = "failed"]
    <3>1. GoodModeration(call, assignments, funding, changes) /\ board = "mercator"
      BY <1>1, <2>2 DEF GoodCall, IsSimple, GoodBadges, IsBadges
    <3>2. /\ IsModeration(c) /\ c.n = call.n /\ c.since = call.since
          /\ c.updates = call.updates /\ c.names = call.names
          /\ c.put \in {call.put, "failed"} /\ c.badge \in {call.badge, "failed"}
      BY <2>2, <3>1 DEF GoodModeration, IsModeration
    <3> HIDE DEF c
    <3>3. GoodModeration(c, assignments, funding, changes)
      BY <3>1, <3>2 DEF GoodModeration
    <3>4. GoodCall(c, board, assignments, lastVersion, funding, changes)
      BY <3>1, <3>3 DEF GoodCall
    <3> QED
      BY <1>3, <2>0, <2>2, <3>4 DEF c
  <2> QED
    BY <1>5, <2>1, <2>2 DEF Loses
<1>6. CASE StoresSimple(m, call) /\ call.of = "abuse"
  <2> DEFINE c == [call EXCEPT !.at = "ok"]
  <2>1. IsSimple(call)
    BY <1>1, <1>6 DEF GoodCall, GoodBadges, IsBadges, GoodModeration, IsModeration
  <2>2. IsSimple(c)
    BY <2>1 DEF IsSimple
  <2>3. Proceeds(m, call, c) /\ UNCHANGED <<serverVars, screens, cached, unheard>>
    BY <1>6 DEF StoresSimple, serverVars, proposalVars
  <2> HIDE DEF c
  <2>4. GoodCall(c, board, assignments, lastVersion, funding, changes)
    BY <2>2 DEF GoodCall
  <2> QED
    BY <1>3, <2>3, <2>4
<1>7. CASE /\ call.of = "badges" /\ Proceeds(m, call, [call EXCEPT !.at = "refused"])
           /\ UNCHANGED <<serverVars, screens, cached, unheard>>
  <2> DEFINE c == [call EXCEPT !.at = "refused"]
  <2>1. GoodBadges(call, assignments, lastVersion, changes) /\ board = "ideas"
    BY <1>1, <1>7 DEF GoodCall, IsSimple, GoodModeration, IsModeration
  <2>2. /\ IsBadges(c) /\ c.at = "refused" /\ c.since = call.since
        /\ c.object = call.object /\ c.posts = call.posts
    BY <2>1 DEF GoodBadges, IsBadges
  <2> HIDE DEF c
  <2>3. GoodCall(c, board, assignments, lastVersion, funding, changes)
    BY <2>1, <2>2 DEF GoodBadges, GoodCall
  <2> QED
    BY <1>3, <1>7, <2>3 DEF c
<1> QED
  BY <1>4, <1>5, <1>6, <1>7

--------------------------------------------------------------------------------
(* What changes the server.                                                     *)

\* What knew an earlier change stays as it is.
LEMMA OldOnes ==
    ASSUME NEW b, NEW A, NEW v \in Nat, NEW fund, NEW n \in Nat,
           NEW A2, NEW v2 \in Nat, v =< v2, NEW fund2
    PROVE  /\ \A s : GoodScreen(s, A, v, n) => GoodScreen(s, A2, v2, n + 1)
           /\ \A c : GoodCall(c, b, A, v, fund, n) => GoodCall(c, b, A2, v2, fund2, n + 1)
<1>1. \A i \in 0 .. n : i \in 0 .. (n + 1) /\ i # n + 1
  OBVIOUS
<1>2. \A i \in 0 .. v : i \in 0 .. v2
  OBVIOUS
<1>3. \A s : GoodScreen(s, A, v, n) => GoodScreen(s, A2, v2, n + 1)
  BY <1>1, <1>2 DEF GoodScreen
<1>4. \A c : GoodBadges(c, A, v, n) => GoodBadges(c, A2, v2, n + 1)
  BY <1>1, <1>2 DEF GoodBadges
<1>5. \A c : GoodModeration(c, A, fund, n) => GoodModeration(c, A2, fund2, n + 1)
  BY <1>1 DEF GoodModeration
<1> QED
  BY <1>3, <1>4, <1>5 DEF GoodCall

\* A change leaves what each browser knows of the other objects.
LEMMA ChangingStep ==
    ASSUME ModerationInv, NEW objects, Changes(objects), UNCHANGED <<board, screens, cached>>,
           NEW A2, assignments' = A2, NEW v2, lastVersion' = v2, lastVersion =< v2,
           GoodServer(board, A2, v2, changes + 1),
           \A o : o \notin objects => Paths(On(A2, {o})) = Paths(On(assignments, {o})),
           GoodPromise(promise', A2, v2, funding'),
           \/ UNCHANGED calls
           \/ \E m \in Moderators : \E call, c :
                 /\ Proceeds(m, call, c)
                 /\ GoodCall(c, board, A2, v2, funding', changes + 1)
    PROVE  ModerationInv'
<1>1. changes \in Nat /\ lastVersion \in Nat /\ v2 \in Nat /\ changes' = changes + 1
  BY DEF ModerationInv, GoodServer, Changes
<1>2. /\ \A s : GoodScreen(s, assignments, lastVersion, changes)
                   => GoodScreen(s, A2, v2, changes + 1)
      /\ \A c : GoodCall(c, board, assignments, lastVersion, funding, changes)
                   => GoodCall(c, board, A2, v2, funding', changes + 1)
  BY <1>1, OldOnes
<1>3. DOMAIN unheard' = Moderators
      /\ \A m \in Moderators : unheard'[m] = unheard[m] \cup objects
  BY DEF Changes
<1>4. ASSUME NEW m \in Moderators
      PROVE  GoodCache(cached[m], unheard'[m], A2)
  <2>1. GoodCache(cached[m], unheard[m], assignments)
    BY DEF ModerationInv
  <2>2. \A o \in cached[m].objects \ unheard'[m] :
           Paths(On(cached[m].list, {o})) = Paths(On(A2, {o}))
    BY <1>3, <2>1 DEF GoodCache
  <2> QED
    BY <2>1, <2>2 DEF GoodCache
<1>5. /\ DOMAIN calls' = Moderators
      /\ \A m \in Moderators : \A c \in calls'[m] :
            GoodCall(c, board, A2, v2, funding', changes + 1)
  <2>1. \A m \in Moderators : \A c \in calls[m] :
            GoodCall(c, board, A2, v2, funding', changes + 1)
    BY <1>2 DEF ModerationInv
  <2>2. CASE UNCHANGED calls
    BY <2>1, <2>2 DEF ModerationInv, Domains
  <2>3. ASSUME NEW m \in Moderators, NEW call, NEW c, Proceeds(m, call, c),
               GoodCall(c, board, A2, v2, funding', changes + 1)
        PROVE  /\ DOMAIN calls' = Moderators
               /\ \A k \in Moderators : \A d \in calls'[k] :
                     GoodCall(d, board, A2, v2, funding', changes + 1)
    <3>1. \A k \in Moderators :
             calls'[k] = IF k = m THEN (calls[m] \ {call}) \cup {c} ELSE calls[k]
      BY <2>3 DEF Proceeds, ModerationInv, Domains
    <3> QED
      BY <2>1, <2>3, <3>1 DEF Proceeds, ModerationInv, Domains
  <2> QED
    BY <2>2, <2>3
<1>6. Domains'
  BY <1>3, <1>5 DEF ModerationInv, Domains
<1>7. \A m \in Moderators :
         /\ GoodCache(cached'[m], unheard'[m], A2)
         /\ GoodScreen(screens'[m], A2, v2, changes')
         /\ \A c \in calls'[m] : GoodCall(c, board', A2, v2, funding', changes')
  BY <1>1, <1>2, <1>4, <1>5 DEF ModerationInv
<1>8. GoodServer(board', A2, v2, changes')
  BY <1>1
<1> QED
  BY <1>6, <1>7, <1>8 DEF ModerationInv

\* Assignments of badges to an object, one for each.
Posts(n, badges, object) == {Assignment(n, b, object) : b \in badges}
\* They are on the object, and their badges are these.
LEMMA PostedBadges ==
    ASSUME NEW n, NEW badges, IsFiniteSet(badges), NEW object
    PROVE  /\ IsFiniteSet(Posts(n, badges, object))
           /\ \A a \in Posts(n, badges, object) :
                 a.object = object /\ a.badge \in badges /\ a.text = n
           /\ \A v : object \in 0 .. v => \A a \in Posts(n, badges, object) : IsAssignment(a, v)
           /\ BadgesOf(Posts(n, badges, object)) = badges
<1> DEFINE new == Posts(n, badges, object)
           f == [b \in badges |-> Assignment(n, b, object)]
<1>1. f \in Surjection(badges, new)
  BY DEF Surjection, Posts
<1>2. IsFiniteSet(new)
  BY <1>1, FS_Surjection
<1>3. \A b : /\ Assignment(n, b, object).object = object
             /\ Assignment(n, b, object).badge = b /\ Assignment(n, b, object).text = n
  BY DEF Assignment
<1>4. BadgesOf(new) = badges
  BY <1>3 DEF BadgesOf, Posts
<1>5. \A v : object \in 0 .. v => \A a \in new : IsAssignment(a, v)
  BY DEF Assignment, IsAssignment, Posts
<1>6. \A a \in new : a.object = object /\ a.badge \in badges /\ a.text = n
  BY <1>3 DEF Posts
<1> HIDE DEF new
<1>7. /\ IsFiniteSet(new)
      /\ \A a \in new : a.object = object /\ a.badge \in badges /\ a.text = n
      /\ \A v : object \in 0 .. v => \A a \in new : IsAssignment(a, v)
      /\ BadgesOf(new) = badges
  BY <1>2, <1>4, <1>5, <1>6
<1> QED
  BY <1>7 DEF new

\* The transaction of a dialog, as the server stores it.
LEMMA StoringBadges ==
    ASSUME ModerationInv, NEW m \in Moderators, NEW call \in calls[m], StoresBadges(m, call)
    PROVE  ModerationInv'
<1> DEFINE A == assignments
           new == Posts(call.n, call.posts, call.object)
           left == {a \in A : PathOf(a) \notin call.deletes}
           A2 == left \cup new
           c == [call EXCEPT !.at = "ok", !.touched = Touched(call)]
<1>1. /\ GoodBadges(call, A, lastVersion, changes) /\ board = "ideas" /\ call.of = "badges"
  BY DEF ModerationInv, StoresBadges, GoodCall, IsSimple, GoodModeration, IsModeration
<1>2. CASE ~ Granted(call)
  <2>1. /\ call.of = "badges" /\ Proceeds(m, call, [call EXCEPT !.at = "refused"])
        /\ UNCHANGED <<serverVars, screens, cached, unheard>>
    BY <1>2 DEF StoresBadges, serverVars, proposalVars
  <2> QED
    BY <2>1, CallsEndQuietly
<1>3. CASE Granted(call)
  <2>1. /\ assignments' = A2 /\ Changes(Touched(call)) /\ Proceeds(m, call, c)
        /\ promise' = IF call.since = changes THEN [of |-> "badges", boxes |-> call.boxes]
                                              ELSE NoPromise
        /\ UNCHANGED <<board, lastVersion, screens, cached>> /\ funding' = funding
        /\ call.at = "sent"
    BY <1>3 DEF StoresBadges, Posts
  <2>2. /\ lastVersion \in Nat /\ changes \in Nat \ {0} /\ IsFiniteSet(A)
        /\ (\A a \in A : IsAssignment(a, lastVersion))
        /\ call.object \in 0 .. lastVersion /\ IsFiniteSet(call.posts)
    BY <1>1 DEF ModerationInv, GoodServer, GoodBadges
  <2>3. /\ IsFiniteSet(new) /\ (\A a \in new : IsAssignment(a, lastVersion))
        /\ (\A a \in new : a.object = call.object /\ a.badge \in call.posts)
        /\ BadgesOf(new) = call.posts
    BY <2>2, PostedBadges
  <2>4. IsFiniteSet(A2)
    <3>1. IsFiniteSet(left)
      BY <2>2, FS_Subset
    <3> QED
      BY <2>3, <3>1, FS_Union
  <2>5. GoodServer(board, A2, lastVersion, changes + 1)
    BY <1>1, <2>2, <2>3, <2>4 DEF GoodServer
  <2>6. ASSUME NEW o, o \notin Touched(call)
        PROVE  Paths(On(A2, {o})) = Paths(On(A, {o}))
    <3>1. \A a \in A : a.object = o => PathOf(a) \notin call.deletes
      BY <2>6 DEF Touched, WithItem
    <3>2. \A a \in new : a.object # o
      BY <2>3, <2>6 DEF Touched, WithItem
    <3>3. On(A2, {o}) = On(A, {o})
      BY <3>1, <3>2 DEF On
    <3> QED
      BY <3>3
  <2>7. ASSUME call.since = changes
        PROVE  BadgesOf(On(A2, WithItem(lastVersion))) = call.boxes
    <3> DEFINE v == lastVersion
    <3>1. /\ call.object = v /\ call.posts = call.boxes \ SecondOf(ShownPaths(A, v))
          /\ call.deletes = {p \in ShownPaths(A, v) : p[2] \notin call.boxes}
      BY <1>1, <2>1, <2>7 DEF GoodBadges
    <3>2. \A a : PathOf(a)[2] = a.badge
      BY DEF PathOf
    <3>3. \A a \in On(A, WithItem(v)) : PathOf(a) \in ShownPaths(A, v)
      BY DEF ShownPaths, Paths
    <3>4. ASSUME NEW b \in BadgesOf(On(A2, WithItem(v)))
          PROVE  b \in call.boxes
      <4>1. PICK a \in On(A2, WithItem(v)) : a.badge = b
        BY <3>4 DEF BadgesOf
      <4>2. CASE a \in new
        BY <2>3, <3>1, <4>1, <4>2
      <4>3. CASE a \in left
        <5>1. a \in On(A, WithItem(v)) /\ PathOf(a) \notin call.deletes
          BY <4>1, <4>3 DEF On
        <5> QED
          BY <3>1, <3>2, <3>3, <4>1, <5>1
      <4> QED
        BY <4>1, <4>2, <4>3 DEF On
    <3>5. ASSUME NEW b \in call.boxes
          PROVE  b \in BadgesOf(On(A2, WithItem(v)))
      <4>1. CASE b \in SecondOf(ShownPaths(A, v))
        <5>1. PICK a \in On(A, WithItem(v)) : a.badge = b
          BY <4>1, BadgesOfPaths DEF ShownPaths, BadgesOf
        <5>2. PathOf(a) \notin call.deletes
          BY <3>1, <3>2, <3>5, <5>1
        <5>3. a \in On(A2, WithItem(v))
          BY <5>1, <5>2 DEF On
        <5> QED
          BY <5>1, <5>3 DEF BadgesOf
      <4>2. CASE b \notin SecondOf(ShownPaths(A, v))
        <5>0. b \in BadgesOf(new)
          BY <2>3, <3>1, <3>5, <4>2
        <5>1. PICK a \in new : a.badge = b
          BY <5>0 DEF BadgesOf
        <5>2. a \in On(A2, WithItem(v))
          BY <2>3, <3>1, <5>1 DEF On, WithItem
        <5> QED
          BY <5>1, <5>2 DEF BadgesOf
      <4> QED
        BY <4>1, <4>2
    <3> QED
      BY <3>4, <3>5
  <2> HIDE DEF A2
  <2>8. GoodPromise(promise', A2, lastVersion, funding')
    <3>1. CASE call.since = changes
      <4>1. promise' = [of |-> "badges", boxes |-> call.boxes]
        BY <2>1, <3>1
      <4>2. promise'.of = "badges" /\ promise'.boxes = call.boxes
        BY <4>1
      <4> QED
        BY <2>7, <3>1, <4>2 DEF GoodPromise
    <3>2. CASE call.since # changes
      <4>1. promise'.of = "nothing"
        BY <2>1, <3>2 DEF NoPromise
      <4> QED
        BY <4>1 DEF GoodPromise
    <3> QED
      BY <3>1, <3>2
  <2>9. /\ IsBadges(c) /\ c.at = "ok" /\ c.since = call.since
        /\ c.object = call.object /\ c.posts = call.posts
    BY <1>1 DEF GoodBadges, IsBadges
  <2> HIDE DEF c
  <2>10. call.since \in 0 .. (changes + 1)
    BY <1>1, <2>2 DEF GoodBadges
  <2>11. GoodCall(c, board, A2, lastVersion, funding', changes + 1)
    BY <1>1, <2>2, <2>9, <2>10 DEF GoodBadges, GoodCall
  <2>12. lastVersion =< lastVersion /\ lastVersion' = lastVersion
    BY <2>1, <2>2
  <2>13. \E k \in Moderators : \E d, e :
            Proceeds(k, d, e) /\ GoodCall(e, board, A2, lastVersion, funding', changes + 1)
    BY <2>1, <2>11
  <2> QED
    BY <2>1, <2>5, <2>6, <2>8, <2>12, <2>13, ChangingStep
<1> QED
  BY <1>2, <1>3

\* A hidden proposal keeps its badges.
LEMMA StoringSimple ==
    ASSUME ModerationInv, NEW m \in Moderators, NEW call \in calls[m], StoresSimple(m, call)
    PROVE  ModerationInv'
<1> DEFINE c == [call EXCEPT !.at = "ok"]
<1>1. CASE call.of = "abuse"
  BY <1>1, CallsEndQuietly
<1>2. CASE call.of = "hide"
  <2>1. IsSimple(call)
    BY <1>2 DEF ModerationInv, GoodCall, GoodBadges, IsBadges, GoodModeration, IsModeration
  <2>2. IsSimple(c)
    BY <2>1 DEF IsSimple
  <2>3. /\ Changes(0 .. lastVersion) /\ Proceeds(m, call, c)
        /\ UNCHANGED <<board, screens, cached, assignments, lastVersion, funding, promise>>
    BY <1>2 DEF StoresSimple
  <2> HIDE DEF c
  <2>4. GoodCall(c, board, assignments, lastVersion, funding', changes + 1)
    BY <2>2 DEF GoodCall
  <2>5. /\ lastVersion =< lastVersion /\ changes + 1 \in Nat \ {0}
        /\ GoodServer(board, assignments, lastVersion, changes + 1)
        /\ GoodPromise(promise', assignments, lastVersion, funding')
    BY <2>3 DEF ModerationInv, GoodServer
  <2>6. \E k \in Moderators : \E d, e :
           Proceeds(k, d, e) /\ GoodCall(e, board, assignments, lastVersion, funding', changes + 1)
    BY <2>3, <2>4
  <2> QED
    BY <2>3, <2>5, <2>6, ChangingStep
<1> QED
  BY <1>1, <1>2 DEF StoresSimple

\* A half of a moderation, as it goes on when it is stored.
LEMMA HalfStored ==
    ASSUME NEW c, NEW A, NEW fund, NEW n \in Nat, GoodModeration(c, A, fund, n),
           NEW A2, NEW fund2, NEW d, IsModeration(d),
           d.n = c.n, d.since = (IF c.since = n THEN n + 1 ELSE c.since),
           d.updates = c.updates, d.names = c.names, d.badge = "sent" => c.badge = "sent",
           c.since = n =>
             /\ d.put = "ok" => fund2 = c.n
             /\ d.badge = "ok" => Described(A2, c.n)
             /\ d.badge = "sent" => A2 = A
    PROVE  GoodModeration(d, A2, fund2, n + 1)
<1>2. d.since \in 0 .. (n + 1) /\ (d.since = n + 1 => c.since = n)
  BY DEF GoodModeration
<1>3. ASSUME c.since = n, d.badge = "sent"
      PROVE  /\ d.updates = {p \in Paths(A2) : p[2] \in FirstOf(UpdateOrder, A2)}
             /\ d.names # {} => FirstOf(UpdateOrder, A2) = {}
  <2>1. c.badge = "sent" /\ A2 = A
    BY <1>3
  <2> QED
    BY <1>3, <2>1 DEF GoodModeration
<1> QED
  BY <1>2, <1>3 DEF GoodModeration

\* What a stored half promises.
LEMMA HalfPromised ==
    ASSUME NEW call, NEW other, NEW A, NEW v, NEW fund,
           other = "ok" /\ call.since = changes => fund = call.n /\ Described(A, call.n)
    PROVE  GoodPromise(Kept(call, other), A, v, fund)
<1> DEFINE kept == [of |-> "moderation", n |-> call.n]
<1>1. CASE other = "ok" /\ call.since = changes
  <2>1. Kept(call, other) = kept
    BY <1>1 DEF Kept
  <2>2. kept.of = "moderation" /\ kept.n = call.n
    OBVIOUS
  <2> QED
    BY <1>1, <2>1, <2>2 DEF GoodPromise
<1>2. CASE ~ (other = "ok" /\ call.since = changes)
  <2>1. Kept(call, other).of = "nothing"
    BY <1>2 DEF Kept, NoPromise
  <2> QED
    BY <2>1 DEF GoodPromise
<1> QED
  BY <1>1, <1>2

\* The funding of a moderation.
LEMMA StoringFunding ==
    ASSUME ModerationInv, NEW m \in Moderators, NEW call \in calls[m], StoresFunding(m, call)
    PROVE  ModerationInv'
<1> DEFINE A == assignments
           c == [After(call) EXCEPT !.put = "ok"]
<1>1. GoodModeration(call, A, funding, changes) /\ board = "mercator"
  BY DEF ModerationInv, GoodCall, StoresFunding, GoodBadges, IsBadges, IsSimple
<1>2. /\ funding' = call.n /\ Changes({ProposalItem}) /\ promise' = Kept(call, call.badge)
      /\ Proceeds(m, call, c)
      /\ UNCHANGED <<board, screens, cached, assignments, lastVersion>>
  BY DEF StoresFunding
<1>3. /\ changes \in Nat /\ lastVersion =< lastVersion
      /\ GoodServer(board, A, lastVersion, changes + 1)
  BY DEF ModerationInv, GoodServer
<1>4. GoodPromise(promise', A, lastVersion, funding')
  BY <1>1, <1>2, HalfPromised DEF GoodModeration
<1>5. /\ IsModeration(c) /\ c.n = call.n
      /\ c.since = (IF call.since = changes THEN changes + 1 ELSE call.since)
      /\ c.updates = call.updates /\ c.names = call.names /\ c.badge = call.badge
  BY <1>1 DEF GoodModeration, IsModeration, After
<1> HIDE DEF c
<1>7. GoodModeration(c, A, call.n, changes + 1)
  BY <1>1, <1>3, <1>5, HalfStored DEF GoodModeration
<1>8. GoodCall(c, board, A, lastVersion, funding', changes + 1)
  BY <1>1, <1>2, <1>7 DEF GoodCall
<1>9. \E k \in Moderators : \E d, e :
         Proceeds(k, d, e) /\ GoodCall(e, board, A, lastVersion, funding', changes + 1)
  BY <1>2, <1>8
<1> QED
  BY <1>2, <1>3, <1>4, <1>9, ChangingStep

\* The server's badge of a moderation, described or assigned.
LEMMA WinnerStored ==
    ASSUME ModerationInv, NEW m \in Moderators, NEW call \in calls[m],
           call.of = "moderation", call.badge = "sent", NEW A2, NEW objects,
           assignments' = A2, Changes(objects),
           promise' = Kept(call, call.put),
           Proceeds(m, call, [After(call) EXCEPT !.badge = "ok"]),
           UNCHANGED <<board, lastVersion, funding, screens, cached>>,
           IsFiniteSet(A2), \A a \in A2 : IsAssignment(a, lastVersion) /\ a.object = ProposalItem,
           \A o : o \notin objects => Paths(On(A2, {o})) = Paths(On(assignments, {o})),
           call.since = changes => Described(A2, call.n)
    PROVE  ModerationInv'
<1> DEFINE c == [After(call) EXCEPT !.badge = "ok"]
<1>1. GoodModeration(call, assignments, funding, changes) /\ board = "mercator"
  BY DEF ModerationInv, GoodCall, GoodBadges, IsBadges, IsSimple
<1>2. /\ changes \in Nat /\ changes + 1 \in Nat \ {0} /\ lastVersion \in Nat
      /\ lastVersion =< lastVersion
  BY DEF ModerationInv, GoodServer
<1>3. GoodServer(board, A2, lastVersion, changes + 1)
  BY <1>2 DEF GoodServer
<1>4. GoodPromise(promise', A2, lastVersion, funding')
  BY <1>1, HalfPromised DEF GoodModeration
<1>5. /\ IsModeration(c) /\ c.n = call.n
      /\ c.since = (IF call.since = changes THEN changes + 1 ELSE call.since)
      /\ c.updates = call.updates /\ c.names = call.names
      /\ c.badge = "ok" /\ c.put = call.put
  BY <1>1 DEF GoodModeration, IsModeration, After
<1> HIDE DEF c
<1>7. GoodModeration(c, A2, funding, changes + 1)
  BY <1>1, <1>2, <1>5, HalfStored DEF GoodModeration
<1>8. GoodCall(c, board, A2, lastVersion, funding', changes + 1)
  BY <1>1, <1>7 DEF GoodCall
<1>9. \E k \in Moderators : \E d, e :
         Proceeds(k, d, e) /\ GoodCall(e, board, A2, lastVersion, funding', changes + 1)
  BY <1>8 DEF c
<1> QED
  BY <1>2, <1>3, <1>4, <1>9, ChangingStep

\* The winner's badge.
LEMMA StoringWinner ==
    ASSUME ModerationInv, NEW m \in Moderators, NEW call \in calls[m], StoresWinner(m, call)
    PROVE  ModerationInv'
<1> DEFINE A == assignments
<1>1. /\ GoodModeration(call, A, funding, changes) /\ board = "mercator"
      /\ call.of = "moderation" /\ call.badge = "sent"
      /\ UNCHANGED <<board, lastVersion, funding, screens, cached>>
  BY DEF ModerationInv, GoodCall, StoresWinner, GoodBadges, IsBadges, IsSimple
<1>2. /\ changes \in Nat /\ IsFiniteSet(A) /\ lastVersion \in Nat
      /\ \A a \in A : IsAssignment(a, lastVersion) /\ a.object = ProposalItem
  BY <1>1 DEF ModerationInv, GoodServer
<1>3. ASSUME call.since = changes
      PROVE  /\ call.updates = {p \in Paths(A) : p[2] \in FirstOf(UpdateOrder, A)}
             /\ call.names # {} => FirstOf(UpdateOrder, A) = {}
  BY <1>1, <1>3 DEF GoodModeration
<1>4. ASSUME NEW a \in A, PathOf(a) \in call.updates,
             assignments' = (A \ {a}) \cup {[a EXCEPT !.text = call.n]},
             Changes({}), promise' = Kept(call, call.put),
             Proceeds(m, call, [After(call) EXCEPT !.badge = "ok"])
      PROVE  ModerationInv'
  <2> DEFINE new == [a EXCEPT !.text = call.n]
             A2 == (A \ {a}) \cup {new}
  <2>1. /\ IsAssignment(new, lastVersion) /\ new.badge = a.badge /\ new.object = a.object
        /\ new.text = call.n /\ PathOf(new) = PathOf(a)
    BY <1>2, <1>4 DEF IsAssignment, PathOf
  <2> HIDE DEF new
  <2>2. IsFiniteSet(A2)
    BY <1>2, FS_RemoveElement, FS_AddElement
  <2>3. \A x \in A2 : IsAssignment(x, lastVersion) /\ x.object = ProposalItem
    BY <1>2, <1>4, <2>1
  <2>4. ASSUME NEW o
        PROVE  Paths(On(A2, {o})) = Paths(On(A, {o}))
    BY <1>4, <2>1 DEF Paths, On
  <2>5. BadgesOf(A2) = BadgesOf(A)
    BY <1>4, <2>1 DEF BadgesOf
  <2>6. ASSUME call.since = changes
        PROVE  Described(A2, call.n)
    <3>1. a.badge \in FirstOf(UpdateOrder, A)
      <4>1. PathOf(a)[2] \in FirstOf(UpdateOrder, A)
        BY <1>3, <1>4, <2>6
      <4> QED
        BY <4>1 DEF PathOf
    <3>2. a.badge \in FirstOf(ShownOrder, A)
      BY <3>1, FirstBadges
    <3>3. new.badge \in FirstOf(ShownOrder, A2)
      BY <2>1, <2>5, <3>2, FirstOfBadges
    <3> QED
      BY <2>1, <3>3 DEF Described
  <2>7. assignments' = A2
    BY <1>4 DEF new
  <2> HIDE DEF A2
  <2> QED
    BY <1>1, <1>4, <2>2, <2>3, <2>4, <2>6, <2>7, WinnerStored
<1>5. ASSUME call.names # {}, call.names \cap BadgesOf(A) = {},
             assignments' = A \cup {Assignment(call.n, name, ProposalItem) : name \in call.names},
             Changes({ProposalItem}), promise' = Kept(call, call.put),
             Proceeds(m, call, [After(call) EXCEPT !.badge = "ok"])
      PROVE  ModerationInv'
  <2>1. PICK name \in WinnerBadges : call.names = {name}
    BY <1>1, <1>5 DEF GoodModeration
  <2> DEFINE new == Assignment(call.n, name, ProposalItem)
             A2 == A \cup {new}
  <2>2. /\ IsAssignment(new, lastVersion) /\ new.badge = name /\ new.object = ProposalItem
        /\ new.text = call.n
    BY <1>2 DEF IsAssignment, Assignment, ProposalItem
  <2>3. assignments' = A2
    BY <1>5, <2>1
  <2> HIDE DEF new
  <2>4. IsFiniteSet(A2)
    BY <1>2, FS_AddElement
  <2>5. \A x \in A2 : IsAssignment(x, lastVersion) /\ x.object = ProposalItem
    BY <1>2, <2>2
  <2>6. ASSUME NEW o, o \notin {ProposalItem}
        PROVE  Paths(On(A2, {o})) = Paths(On(A, {o}))
    <3>1. On(A2, {o}) = On(A, {o})
      BY <2>2, <2>6 DEF On
    <3> QED
      BY <3>1
  <2>7. BadgesOf(A2) = BadgesOf(A) \cup {name}
    BY <2>2 DEF BadgesOf
  <2>8. ASSUME call.since = changes
        PROVE  Described(A2, call.n)
    <3>1. "community" \notin BadgesOf(A) /\ "winning" \notin BadgesOf(A)
      <4>1. FirstOf(UpdateOrder, A) = {}
        BY <1>3, <1>5, <2>8
      <4> QED
        BY <4>1, FirstBadges
    <3>2. name \in FirstOf(ShownOrder, A2)
      BY <2>1, <2>7, <3>1, FirstBadges DEF WinnerBadges
    <3> QED
      BY <2>2, <3>2 DEF Described
  <2> HIDE DEF A2
  <2> QED
    BY <1>1, <1>5, <2>3, <2>4, <2>5, <2>6, <2>8, WinnerStored
<1>6. ASSUME call.names \cap BadgesOf(A) # {},
             promise' = IF call.since = changes THEN [of |-> "refused"] ELSE promise,
             Proceeds(m, call, [call EXCEPT !.badge = "refused"]),
             UNCHANGED <<assignments, changes, unheard>>
      PROVE  ModerationInv'
  <2> DEFINE c == [call EXCEPT !.badge = "refused"]
  <2>1. /\ IsModeration(c) /\ c.n = call.n /\ c.since = call.since /\ c.put = call.put
        /\ c.badge = "refused" /\ c.updates = call.updates /\ c.names = call.names
    BY <1>1 DEF GoodModeration, IsModeration
  <2> HIDE DEF c
  <2>2. GoodCall(c, board, A, lastVersion, funding, changes)
    BY <1>1, <2>1 DEF GoodModeration, GoodCall
  <2>3. calls' = [calls EXCEPT ![m] = (calls[m] \ {call}) \cup {c}]
    BY <1>6 DEF Proceeds, c, ModerationInv, Domains
  <2>4. \A d \in (calls[m] \ {call}) \cup {c} :
           d \in calls[m] \/ GoodCall(d, board, A, lastVersion, funding, changes)
    BY <2>2
  <2>5. /\ DOMAIN calls' = Moderators
        /\ \A k \in Moderators : \A d \in calls'[k] :
              GoodCall(d, board, A, lastVersion, funding, changes)
    BY <2>3, <2>4, CallsKept
  <2>6. GoodPromise(promise', A, lastVersion, funding)
    <3>1. CASE call.since = changes
      <4>1. "community" \notin BadgesOf(A) /\ "winning" \notin BadgesOf(A)
        <5>1. FirstOf(UpdateOrder, A) = {}
          BY <1>3, <1>6, <3>1
        <5> QED
          BY <5>1, FirstBadges
      <4>2. "shortlist" \in BadgesOf(A)
        <5>1. PICK name \in WinnerBadges : call.names = {name}
          BY <1>1, <1>6 DEF GoodModeration
        <5> QED
          BY <1>6, <4>1, <5>1 DEF WinnerBadges
      <4>3. FirstOf(ShownOrder, A) = {"shortlist"}
        BY <4>1, <4>2, FirstBadges
      <4>4. promise'.of = "refused"
        BY <1>6, <3>1
      <4> QED
        BY <4>3, <4>4 DEF GoodPromise
    <3>2. CASE call.since # changes
      BY <1>6, <3>2 DEF ModerationInv
    <3> QED
      BY <3>1, <3>2
  <2>7. Domains'
    BY <1>1, <1>6, <2>5 DEF ModerationInv, Domains
  <2> QED
    BY <1>1, <1>6, <2>5, <2>6, <2>7 DEF ModerationInv
<1> QED
  BY <1>4, <1>5, <1>6 DEF StoresWinner

\* A new version, to which the assignments of the last one refer from now on.
LEMMA VersionsKeep ==
    ASSUME ModerationInv, NewVersion
    PROVE  ModerationInv'
<1> DEFINE A == assignments
           v == lastVersion
           moved == [a \in A |-> IF a.object = v THEN [a EXCEPT !.object = v + 1] ELSE a]
           A2 == {moved[a] : a \in A}
<1>1. /\ board = "ideas" /\ lastVersion' = v + 1 /\ Changes({ProposalItem, v, v + 1})
      /\ assignments' = AutoUpdated(v + 1)
      /\ UNCHANGED <<board, screens, cached, calls, funding, promise>>
  BY DEF NewVersion, browserVars
<1>2. /\ v \in Nat /\ changes \in Nat \ {0} /\ IsFiniteSet(A)
      /\ \A a \in A : IsAssignment(a, v)
  BY DEF ModerationInv, GoodServer
<1>3. AutoUpdated(v + 1) = A2
  BY DEF AutoUpdated
<1>4. moved \in Surjection(A, A2)
  BY DEF Surjection
<1>5. IsFiniteSet(A2)
  BY <1>2, <1>4, FS_Surjection
<1>6. ASSUME NEW a \in A
      PROVE  /\ IsAssignment(moved[a], v + 1)
             /\ moved[a].badge = a.badge /\ moved[a].text = a.text
             /\ a.object \in 0 .. v
             /\ moved[a].object = IF a.object = v THEN v + 1 ELSE a.object
             /\ a.object # v => moved[a] = a
  <2>1. CASE a.object = v
    <3> DEFINE new == [a EXCEPT !.object = v + 1]
    <3>1. moved[a] = new
      BY <1>6, <2>1
    <3>2. /\ IsAssignment(new, v + 1) /\ new.badge = a.badge /\ new.text = a.text
          /\ new.object = v + 1
      BY <1>2, <1>6 DEF IsAssignment
    <3> HIDE DEF moved, new
    <3> QED
      BY <1>2, <2>1, <3>1, <3>2
  <2>2. CASE a.object # v
    <3>1. moved[a] = a
      BY <1>6, <2>2
    <3>2. IsAssignment(a, v + 1) /\ a.object \in 0 .. v
      BY <1>2, <1>6 DEF IsAssignment
    <3> HIDE DEF moved
    <3> QED
      BY <2>2, <3>1, <3>2
  <2> QED
    BY <2>1, <2>2
<1> HIDE DEF moved
<1>7. GoodServer(board, A2, v + 1, changes + 1)
  BY <1>1, <1>2, <1>5, <1>6 DEF GoodServer
<1>8. ASSUME NEW o, o \notin {ProposalItem, v, v + 1}
      PROVE  Paths(On(A2, {o})) = Paths(On(A, {o}))
  <2>1. On(A2, {o}) = On(A, {o})
    BY <1>6, <1>8 DEF On
  <2> QED
    BY <2>1
<1>9. BadgesOf(A2) = BadgesOf(A)
  BY <1>6 DEF BadgesOf
<1>10. BadgesOf(On(A2, WithItem(v + 1))) = BadgesOf(On(A, WithItem(v)))
  <2>1. \A a \in A : moved[a].object \in WithItem(v + 1) <=> a.object \in WithItem(v)
    BY <1>2, <1>6 DEF WithItem, ProposalItem
  <2> QED
    BY <1>6, <2>1 DEF BadgesOf, On
<1>11. \A n : Described(A, n) => Described(A2, n)
  <2>1. FirstOf(ShownOrder, A2) = FirstOf(ShownOrder, A)
    BY <1>9, FirstOfBadges
  <2> QED
    BY <1>6, <2>1 DEF Described
<1>12. GoodPromise(promise', A2, v + 1, funding')
  <2>1. FirstOf(ShownOrder, A2) = FirstOf(ShownOrder, A)
    BY <1>9, FirstOfBadges
  <2> QED
    BY <1>1, <1>10, <1>11, <2>1 DEF ModerationInv, GoodPromise
<1>13. assignments' = A2
  BY <1>1, <1>3
<1>14. v =< v + 1
  BY <1>2
<1> HIDE DEF A2
<1> QED
  BY <1>1, <1>7, <1>8, <1>12, <1>13, <1>14, ChangingStep

\* The script's assignment.
LEMMA ScriptKeeps ==
    ASSUME ModerationInv, NEW badge, Script(badge)
    PROVE  ModerationInv'
<1> DEFINE A == assignments
           new == Assignment(0, badge, ProposalItem)
           A2 == A \cup {new}
<1>1. /\ assignments' = A2 /\ Changes({ProposalItem}) /\ promise' = NoPromise
      /\ UNCHANGED <<board, lastVersion, funding, screens, calls, cached>>
  BY DEF Script, browserVars
<1>2. /\ lastVersion \in Nat /\ lastVersion =< lastVersion /\ changes \in Nat \ {0}
      /\ IsFiniteSet(A)
  BY DEF ModerationInv, GoodServer
<1>3. IsAssignment(new, lastVersion) /\ new.object = ProposalItem
  BY <1>2 DEF IsAssignment, Assignment, ProposalItem
<1> HIDE DEF new
<1>4. IsFiniteSet(A2)
  BY <1>2, FS_AddElement
<1>5. GoodServer(board, A2, lastVersion, changes + 1)
  BY <1>2, <1>3, <1>4 DEF ModerationInv, GoodServer
<1>6. ASSUME NEW o, o \notin {ProposalItem}
      PROVE  Paths(On(A2, {o})) = Paths(On(A, {o}))
  <2>1. On(A2, {o}) = On(A, {o})
    BY <1>3, <1>6 DEF On
  <2> QED
    BY <2>1
<1>7. GoodPromise(promise', A2, lastVersion, funding')
  <2>1. promise'.of = "nothing"
    BY <1>1 DEF NoPromise
  <2> QED
    BY <2>1 DEF GoodPromise
<1> HIDE DEF A2
<1> QED
  BY <1>1, <1>2, <1>5, <1>6, <1>7, ChangingStep

--------------------------------------------------------------------------------
(* The theorems.                                                                *)

\* The invariant holds at first: nothing is assigned, and no page has a dialog.
LEMMA InitIsGood == ModerationInit => ModerationInv
<1> SUFFICES ASSUME ModerationInit
             PROVE  ModerationInv
  OBVIOUS
<1>1. IsFiniteSet({}) /\ changes = 1 /\ lastVersion \in {0, 1} /\ assignments = {}
  BY FS_EmptySet DEF ModerationInit, Untouched, ProposalItem
<1>2. GoodServer(board, assignments, lastVersion, changes)
  BY <1>1 DEF GoodServer
<1>3. \A m \in Moderators : GoodCache(cached[m], unheard[m], assignments)
  BY <1>1 DEF ModerationInit, Untouched, NotCached, GoodCache
<1>4. ASSUME NEW m \in Moderators
      PROVE  GoodScreen(screens[m], assignments, lastVersion, changes)
  <2> DEFINE t == [NoScreen EXCEPT !.version = lastVersion]
  <2>1. screens[m] = t
    BY DEF ModerationInit
  <2>2. IsDialog(NoDialog) /\ NoDialog.since = 0
    BY <1>1 DEF IsDialog, NoDialog, Never
  <2>3. IsScreen(t) /\ t.version = lastVersion /\ t.dialog = NoDialog
    BY <2>2 DEF IsScreen, NoScreen
  <2> HIDE DEF t
  <2> QED
    BY <1>1, <2>1, <2>2, <2>3 DEF GoodScreen
<1>5. GoodPromise(promise, assignments, lastVersion, funding)
  <2>1. promise.of = "nothing"
    BY DEF ModerationInit, Untouched, NoPromise
  <2> QED
    BY <2>1 DEF GoodPromise
<1>6. Domains /\ \A m \in Moderators : calls[m] = {}
  BY DEF ModerationInit, Untouched, Domains
<1> QED
  BY <1>2, <1>3, <1>4, <1>5, <1>6 DEF ModerationInv

\* Every step keeps it.
LEMMA StepsAreGood == ModerationInv /\ [ModerationNext]_moderationVars => ModerationInv'
<1> SUFFICES ASSUME ModerationInv, [ModerationNext]_moderationVars
             PROVE  ModerationInv'
  OBVIOUS
<1>1. CASE UNCHANGED moderationVars
  BY <1>1 DEF moderationVars, ModerationInv, Domains
<1>2. CASE ModerationNext
  <2>1. ASSUME NEW m \in Moderators, board = "ideas", IdeasActs(m)
        PROVE  ModerationInv'
    <3>1. CASE ReadsAssignments(m)
      BY <3>1, ReadingKeeps
    <3>2. CASE Publishes(m)
      BY <2>1, <3>2, PublishingKeeps
    <3>3. CASE ReportsAbuse(m) \/ Hides(m)
      BY <3>3, SimpleKeeps
    <3>4. CASE \/ \E key \in {"badges", "abuse"} : ShowsModal(m, key)
               \/ CancelsModal(m) \/ RemoveAlert(m)
               \/ \E version \in 1 .. lastVersion : GoesTo(m, version)
               \/ ReadsBadges(m) \/ \E badge \in IdeaBadges : Toggles(m, badge)
               \/ CancelsForm(m)
      BY <3>4, ModalsKeep
    <3> QED
      BY <2>1, <3>1, <3>2, <3>3, <3>4 DEF IdeasActs
  <2>2. ASSUME NEW m \in Moderators, board = "mercator", MercatorActs(m)
        PROVE  ModerationInv'
    <3>1. CASE OpensForm(m)
      BY <3>1, OpeningKeeps
    <3>2. CASE CancelsForm(m)
      BY <3>2, ModalsKeep
    <3>3. CASE \E name \in Selected : Moderates(m, name)
      BY <2>2, <3>3, ModeratingKeeps
    <3> QED
      BY <2>2, <3>1, <3>2, <3>3 DEF MercatorActs
  <2>3. ASSUME NEW m \in Moderators, NEW call \in calls[m], CallGoesOn(m, call)
        PROVE  ModerationInv'
    BY <2>3, StoringBadges, StoringSimple, StoringFunding, StoringWinner, AnswersKeep,
       CallsEndQuietly DEF CallGoesOn
  <2>4. ASSUME NEW m \in Moderators, Notified(m)
        PROVE  ModerationInv'
    BY <2>4, NotifiedKeeps
  <2>5. CASE NewVersion
    BY <2>5, VersionsKeep
  <2>6. ASSUME NEW badge, Script(badge)
        PROVE  ModerationInv'
    BY <2>6, ScriptKeeps
  <2> QED
    BY <1>2, <2>1, <2>2, <2>3, <2>4, <2>5, <2>6 DEF ModerationNext
<1> QED
  BY <1>1, <1>2

\* Whatever any number of moderators, scripts and authors do: a dialog or a request
\* that remembers the present change knows what the server has.
THEOREM ModerationInvariance == ModerationSpec => []ModerationInv
<1>1. ModerationInit => ModerationInv
  BY InitIsGood
<1>2. ModerationInv /\ [ModerationNext]_moderationVars => ModerationInv'
  BY StepsAreGood
<1> QED
  BY <1>1, <1>2, PTL DEF ModerationSpec

\* What the properties say follows from the invariant.
LEMMA ModerationFollows == ModerationInv => PublishedBadgesStay /\ ModerationIsWhole
<1>1. ModerationInv => PublishedBadgesStay
  BY DEF ModerationInv, GoodPromise, PublishedBadgesStay
<1>2. ModerationInv => ModerationIsWhole
  BY DEF ModerationInv, GoodPromise, ModerationIsWhole, Described
<1> QED
  BY <1>1, <1>2

\* What a moderator who knew everything has published is what the proposal shows.
THEOREM PublishedAlwaysStay == ModerationSpec => []PublishedBadgesStay
BY ModerationFollows, ModerationInvariance, PTL

\* A moderation with which nobody interfered has both halves, and is refused its
\* badge only where the proposal shows its shortlisting.
THEOREM ModerationsAreWhole == ModerationSpec => []ModerationIsWhole
BY ModerationFollows, ModerationInvariance, PTL

================================================================================
