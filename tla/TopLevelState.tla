----------------------------- MODULE TopLevelState -----------------------------
(***************************************************************************)
(* The single page and its URL.  A change of the location is routed by the *)
(* area of its first segment to the data of a page; the data are set, and  *)
(* written back to the location in their normal form.  Routes of resources *)
(* wait for the server, and while one waits a lock keeps the next changes  *)
(* of the location from being routed.  A method is an operator from the    *)
(* state `p` of the page (a record) to the next one.                       *)
(***************************************************************************)
EXTENDS Routes, TLC

NoPage == <<"", "">>
Missing == <<"missing", "">>    \* a path of no resource
BadPath == <<"bad", "">>        \* "/r" without a slash

\* old: of a version that is not the last one.  embed: the prefix is that of an
\* embedding context, and what is here is its initialUrl.
Location(area, page, search) ==
    [area |-> area, page |-> page, search |-> search, old |-> FALSE, embed |-> FALSE]
Prefix(location) == IF location.embed THEN "embed" ELSE location.area
Resource(page) == Location("r", page, {})
Area(area) == Location(area, NoPage, {})
NoLocation == Area("nothing yet")
HomePage == Resource(Home)

PageAt(app, location) == PageTable[app][location.page]

\* ------------------------------------------------------------------- location
\* Where a user gets to who asks for a location, if nothing keeps him from it.
Target(p, location) ==
    LET to == IF location.area = "" THEN p.initial ELSE location
        known == to.area = "r" /\ Has(p.app, to.page)
    IN  Location(to.area, to.page,
                 IF known THEN to.search \cap PageAt(p.app, to).search ELSE to.search)

Go(p, location) == [p EXCEPT !.location = location, !.wanted = Target(p, location),
                             !.diverted = FALSE]

\* What `when` was called with.  "" and an embedding context only change the
\* location when they are entered; login and unknown prefixes are routed at once.
Redirects == {"", "embed"}
DefaultRoutes == {"login", "elsewhere"}

\* The initialUrl as a path: a search becomes a part of it.
Initial(location) ==
    IF location.search = {} THEN [location EXCEPT !.embed = FALSE] ELSE Resource(Missing)
SkipTo(p) == IF p.location.embed THEN [p.location EXCEPT !.embed = FALSE] ELSE p.initial

GetArea(p) == IF p.area = Prefix(p.location) THEN p
              ELSE [p EXCEPT !.area = Prefix(p.location), !.blockTemplate = TRUE]

Reverse(p) ==
    IF "resourceUrl" \notin DOMAIN p.data THEN p.location
    ELSE LET source == p.data["resourceUrl"]
         IN  [source EXCEPT !.search = p.given \cap PageAt(p.app, source).search]

ToLocation(p) == [GetArea(p) EXCEPT !.location = Reverse(p)]

\* Mutant: the keys of the page before stay.
SetKeepingKeys(p, data, given) == [p EXCEPT !.data = data @@ p.data, !.given = given]

\* Keys that the new page does not have are removed.
SetData(p, data, given) == [p EXCEPT !.data = data, !.given = given]

Unlock(p) == [p EXCEPT !.lock = FALSE, !.pending = NoLocation]

Routed(p, data, given) ==
    [ToLocation(SetData(Unlock(p), data, given)) EXCEPT !.blockTemplate = FALSE]

\* An error is shown under the location it belongs to, without entering its area:
\* if the view has entered another one meanwhile, the page stays blank.
RoutedToError(p) ==
    [SetData(Unlock(p), [space |-> p.location], {}) EXCEPT
        !.blockTemplate = FALSE, !.stranded = p.area # Prefix(p.location)]

Route(p) ==
    LET locked == [p EXCEPT !.lock = TRUE]
    IN  IF p.location.area \in DefaultRoutes
        THEN Routed(p, [_path |-> p.location], p.location.search)
        ELSE IF p.location.page = BadPath THEN locked
        ELSE [locked EXCEPT !.pending = p.location, !.phase = "resource"]

Skipped(p) == [GetArea(p) EXCEPT !.location = SkipTo(p), !.seen = SkipTo(p)]

\* An initialUrl of "/" leads to itself, and nothing is shown.
FromLocation(o) ==
    LET p == [o EXCEPT !.stranded = FALSE]
        q == GetArea(Skipped(p))
    IN  IF Prefix(p.location) \notin Redirects THEN Route(GetArea(p))
        ELSE IF Prefix(q.location) = "" THEN [q EXCEPT !.stranded = TRUE]
        ELSE Route(q)

\* The view asks for its template, and enters a new area before its route.
WatchTemplate(p) ==
    IF p.blockTemplate THEN p
    ELSE IF Prefix(p.location) \in Redirects
    THEN Skipped(p)
    ELSE GetArea(p)

\* The watches on the URL and on the template, in every digest.  What changes under
\* the lock is seen, and left to the route that holds it.
WatchLocation(p) ==
    IF p.location = p.seen THEN WatchTemplate(p)
    ELSE LET q == [p EXCEPT !.seen = p.location]
         IN  IF q.lock THEN WatchTemplate(q) ELSE FromLocation(q)

\* -------------------------------------------------------------------- answers
\* Mutant: what comes for an earlier location is dropped.
AnswerIfCurrent(p, done) == IF p.location = p.pending THEN done ELSE p

\* A route has its data: they are taken if the URL is still the one it began
\* with.  In this round nothing catches the failure of a bad path.
Answer(p, done) ==
    IF p.location = p.pending THEN done
    ELSE IF p.location.page = BadPath THEN [GetArea(Unlock(p)) EXCEPT !.stranded = TRUE]
    ELSE FromLocation([Unlock(p) EXCEPT !.seen = p.location])

CameFromAllowed(location) == location.area \notin {"login", "register"} \/ location.search # {}
SetCameFrom(p) == IF CameFromAllowed(p.location) THEN [p EXCEPT !.cameFrom = p.location] ELSE p

\* Mutant: the way back is forgotten.
GoOnly(p, location) == [p EXCEPT !.location = location]

SetCameFromAndGo(p, location) == [SetCameFrom(p) EXCEPT !.location = location]

GoToCameFrom(p, default) == Go(p, IF p.cameFrom = NoLocation THEN default ELSE p.cameFrom)

\* What a route that is not of the present location does to the location.
Divert(p) == [p EXCEPT !.diverted = @ \/ p.location # p.pending]

\* Not found, forbidden, or, without a session, to the login from wherever the
\* user is now; the data stay as they were.
HandleRoutingError(p, code, loggedIn) ==
    IF code = 401 /\ ~loggedIn
    THEN [SetCameFromAndGo(Unlock(Divert(p)), Area("login")) EXCEPT
             !.stranded = p.location = Area("login")]
    ELSE Answer(p, RoutedToError(p))

PageData(p) ==
    [key \in Meta \cup PageAt(p.app, p.pending).keys \cup p.pending.search |-> p.pending]

Take(p) == Answer(p, Routed(p, PageData(p), p.pending.search))

\* The resource and those above it are there: an old version is left for the
\* last one, whatever the location is now; a page that needs a permission asks.
OnResource(p) ==
    IF p.pending.old
    THEN LET q == [Divert(p) EXCEPT !.location = [Resource(p.pending.page) EXCEPT
                                              !.search = p.location.search]]
         IN  FromLocation([Unlock(q) EXCEPT !.seen = q.location])
    ELSE IF p.pending.area = "register" THEN Answer(p,
            Routed(p, [_path |-> p.pending], p.pending.search))
    ELSE IF ~Has(p.app, p.pending.page)
    THEN HandleRoutingError(p, 404, TRUE)
    ELSE IF PageAt(p.app, p.pending).needs = "" THEN Take(p)
    ELSE [p EXCEPT !.phase = "options"]

OnOptions(p, permitted, loggedIn) ==
    IF permitted THEN Take(p) ELSE HandleRoutingError(p, 401, loggedIn)

OnForbidden(p, loggedIn) == HandleRoutingError(p, IF loggedIn THEN 403 ELSE 401, loggedIn)

\* -------------------------------------------------------------------- widgets
\* A column takes the focus; under the lock this takes a location back that is
\* about to be routed.
SetFocus(p) ==
    ToLocation([p EXCEPT !.data = [key \in DOMAIN @ \cup {"focus"} |->
                                     p.data[IF key = "focus" THEN "resourceUrl" ELSE key]],
                         !.given = @ \cup {"focus"}, !.diverted = @ \/ p.lock \/ p.stranded])

\* initial: the initialUrl.  wanted, diverted: for a property, where the user asked
\* to go last, and whether he was taken elsewhere since; stranded: its location is
\* routed no more, because the watch has seen it under the lock.
NewPage(app, location) ==
    [app |-> app, initial |-> Initial(location), location |-> location, seen |-> NoLocation, lock |-> FALSE,
     pending |-> NoLocation, phase |-> "resource", area |-> "none", blockTemplate |-> FALSE,
     data |-> <<>>, given |-> {}, cameFrom |-> NoLocation,
     wanted |-> Target([app |-> app, initial |-> Initial(location)], location), diverted |-> FALSE, stranded |-> FALSE]
================================================================================
