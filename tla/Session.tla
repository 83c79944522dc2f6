-------------------------------- MODULE Session --------------------------------
(***************************************************************************)
(* A user at one tab, `This`: its session and that of the other tabs, the  *)
(* user's data, the page it shows, and the page that embeds it.  Requests  *)
(* are answered in any order, or lost; a task of the tab ends in a digest, *)
(* in which the watches run, unless a message of the embedder started it.  *)
(***************************************************************************)
EXTENDS Credentials, TopLevelState

CONSTANTS This,         \* the tab with the page
          Moderator,    \* the token that may do what pages ask permission for
          Visited,      \* the pages a user visits by their URL, for each workbench
          MaxMoves,     \* changes of the location by the user, for each workbench
          MaxIncidents  \* log-ins, log-outs, failures, for each workbench

ASSUME SessionAssumption ==
    This \in Tab /\ Moderator \in Token /\ "nothing" \notin Token \cup {NoToken}

VARIABLES session,      \* stored and tab, see Credentials
          user,         \* the user's data, and requests for them; the posted log-in
          page,         \* see TopLevelState
          embedder,     \* what it was told
          moves, incidents

vars == <<session, user, page, embedder, moves, incidents>>

Guest == [token |-> NoToken]

\* ---------------------------------------------------------------- user service
\* seen: by the watch on the user's path.  watched: the loads it has asked for.
\* mistaken: the data are of another user, by an answer that came too late, or failed.
NewUser == [seen |-> "nothing", data |-> NoToken, loads |-> {}, watched |-> {},
            ready |-> FALSE, login |-> NoToken, mistaken |-> FALSE]

LoadWatched(u, token) ==
    [u EXCEPT !.seen = token, !.loads = @ \cup {token}, !.watched = @ \cup {token},
              !.mistaken = FALSE]

\* Mutant: the data stay after a log-out.
WatchUserPathKeeping(s, u) ==
    LET token == s.tab[This].token
    IN  IF ~Ready(s, This) \/ u.seen = token THEN u
        ELSE IF token = NoToken THEN [u EXCEPT !.seen = token, !.ready = TRUE]
        ELSE LoadWatched(u, token)

WatchUserPath(s, u) ==
    LET token == s.tab[This].token
    IN  IF ~Ready(s, This) \/ u.seen = token THEN u
        ELSE IF token = NoToken
        THEN [u EXCEPT !.seen = token, !.data = NoToken, !.ready = TRUE, !.mistaken = FALSE]
        ELSE LoadWatched(u, token)

\* Only what the watch has asked for makes the data ready.
Loaded(s, u, who) ==
    [u EXCEPT !.loads = @ \ {who}, !.watched = @ \ {who}, !.data = who,
              !.ready = @ \/ who \in u.watched, !.mistaken = who # s.tab[This].token]

NotLoaded(u, who) ==
    [u EXCEPT !.loads = @ \ {who}, !.watched = @ \ {who}, !.mistaken = TRUE]

\* -------------------------------------------------------------------- embedder
\* After its setup: what it was last told of the session and the URL.  passed:
\* the user's data changed without being missing in between, or were not those of
\* the session when it was told.
NewEmbedder(url) == [setup |-> FALSE, last |-> "unknown", user |-> Guest, passed |-> FALSE,
                     url |-> url]

\* Mutant: the embedder is told once.
SendLoginStateOnce(e, s, u) ==
    IF ~e.setup \/ ~u.ready \/ e.last # "unknown" THEN e
    ELSE [e EXCEPT !.last = IF u.data # NoToken THEN "yes" ELSE "no",
                   !.user = IF u.data = NoToken THEN Guest
                            ELSE [token |-> s.tab[This].token, data |-> u.data]]

SendLoginState(e, s, u) ==
    LET loggedIn == IF u.data # NoToken THEN "yes" ELSE "no"
    IN  IF ~e.setup \/ ~u.ready THEN e
        ELSE IF loggedIn # e.last
        THEN [e EXCEPT !.last = loggedIn, !.passed = u.data # s.tab[This].token,
                       !.user = IF loggedIn = "no" THEN Guest
                                ELSE [token |-> s.tab[This].token, data |-> u.data]]
        ELSE [e EXCEPT !.passed = @ \/ u.data # user.data]

\* The URL in the hash of the embedding page: from there it starts again.
UrlChange(e, p) == IF e.setup THEN [e EXCEPT !.url = p.location] ELSE e

\* ---------------------------------------------------------------------- digest
Digest(s, u, p) ==
    /\ session' = s
    /\ user' = WatchUserPath(s, u)
    /\ page' = WatchLocation(p)
    /\ embedder' = UrlChange(SendLoginState(embedder, s, user'), page')

\* A task of another tab, or one without a digest.
NoDigest(s) == session' = s /\ UNCHANGED <<user, page, embedder>>

InTab(t, s) == IF t = This THEN Digest(s, user, page) ELSE NoDigest(s)

Move == moves > 0 /\ moves' = moves - 1 /\ UNCHANGED incidents
Incident == incidents > 0 /\ incidents' = incidents - 1 /\ UNCHANGED moves
Expected == UNCHANGED <<moves, incidents>>

\* ---------------------------------------------------------------------- session
Check(t, token, answer) ==
    /\ token \in session.tab[t].heads
    /\ InTab(t, Checked(session, t, token, answer))

HeadAnswers(t, token) == Expected /\ Check(t, token, "ok")
HeadFails(t, token) == Incident /\ \E answer \in {"refused", "lost"} : Check(t, token, answer)

Clear(t) ==
    /\ Expected
    /\ session.tab[t].clear
    /\ InTab(t, OnTimeout(session, t))

StorageEvent(t) ==
    /\ Expected
    /\ session.tab[t].events # <<>>
    /\ InTab(t, OnStorage(session, t))

LogOut(t) ==
    /\ Incident
    /\ session.tab[t].loggedIn = "yes"
    /\ InTab(t, DeleteToken(session, t))

\* Other tabs only log in and out.
OtherLogsIn(t, token) ==
    /\ Incident
    /\ t # This /\ Ready(session, t)
    /\ NoDigest(StoreAndEnableToken(session, t, token))

\* ------------------------------------------------------------------------ log-in
SubmitLogIn(token) ==
    /\ Incident
    /\ page.location = Area("login") /\ ~page.lock /\ user.login = NoToken
    /\ user' = [user EXCEPT !.login = token]
    /\ UNCHANGED <<session, page, embedder>>

\* Wherever the user is when the answer comes, he goes back to where he came from, or
\* to "/".
LogInAnswers ==
    /\ Expected
    /\ user.login # NoToken /\ Ready(session, This)
    /\ Digest(StoreAndEnableToken(session, This, user.login),
              [user EXCEPT !.login = NoToken], GoToCameFrom(page, Area("")))

LogInFails ==
    /\ Expected
    /\ user.login # NoToken /\ Ready(session, This)
    /\ Digest(session, [user EXCEPT !.login = NoToken], page)

\* --------------------------------------------------------------------- user data
UserAnswers(who) ==
    /\ Expected
    /\ who \in user.loads /\ Ready(session, This)
    /\ Digest(session, Loaded(session, user, who), page)

UserRefused(who) ==
    /\ Incident
    /\ who \in user.loads /\ Ready(session, This)
    /\ Digest(DeleteToken(session, This), NotLoaded(user, who), page)

UserLost(who) ==
    /\ Incident
    /\ who \in user.loads
    /\ Digest(session, NotLoaded(user, who), page)

\* The form that edits a user, which may be another one, loads that user then.
SaveUser(who) ==
    /\ Incident
    /\ page.location = Resource(<<"user", "edit">>) /\ ~page.lock
    /\ session.tab[This].token \in {who, Moderator}
    /\ Digest(session, [user EXCEPT !.loads = @ \cup {who}],
              Go(page, Resource(<<"user", "">>)))

\* --------------------------------------------------------------------- navigation
Showing(area) == ~page.blockTemplate /\ page.area = area
ShowingPage == Showing("r") /\ "resourceUrl" \in DOMAIN page.data

\* A link of a column that is shown.
Shown == PageAt(page.app, page.data["resourceUrl"])
ShownColumns == Columns(page.app, Shown)
VisibleLinks == UNION {ShownColumns[i].links : i \in Visible(Shown)}
Click ==
    /\ Move
    /\ ShowingPage
    /\ \E link \in VisibleLinks : Digest(session, user, Go(page, Resource(link)))

\* The address bar, a bookmark, a link from elsewhere.
Visit(location) ==
    /\ Move
    /\ location # page.location
    /\ Digest(session, user, Go(page, location))

\* The user indicator, on every page.
GoToLogIn(area) ==
    /\ Move
    /\ page.location.area # area /\ session.tab[This].loggedIn = "no"
    /\ Digest(session, user, Go(SetCameFrom(page), Area(area)))

Cancel ==
    /\ Move
    /\ Showing("login") \/ Showing("register")
    /\ Digest(session, user, GoToCameFrom(page, Area("")))

FocusColumn ==
    /\ Move
    /\ ShowingPage
    /\ Digest(session, user, SetFocus(page))

\* ------------------------------------------------------------------------- routes
LoggedIn == session.tab[This].loggedIn = "yes"
Waiting(phase) == page.pending # NoLocation /\ page.phase = phase /\ Ready(session, This)

ResourceAnswers ==
    /\ Expected
    /\ Waiting("resource") /\ page.pending.page # Missing
    /\ Digest(session, user, OnResource(page))

ResourceMissing ==
    /\ Expected
    /\ Waiting("resource") /\ page.pending.page = Missing
    /\ Digest(session, user, HandleRoutingError(page, 404, LoggedIn))

ResourceForbidden ==
    /\ Incident
    /\ Waiting("resource") /\ page.pending.area = "r"
    /\ Digest(session, user, OnForbidden(page, LoggedIn))

OptionsAnswer ==
    /\ Expected
    /\ Waiting("options")
    /\ Digest(session, user, OnOptions(page, session.tab[This].token = Moderator, LoggedIn))

\* ----------------------------------------------------------------------- embedder
Setup ==
    /\ Expected
    /\ ~embedder.setup
    /\ embedder' = UrlChange(SendLoginState([embedder EXCEPT !.setup = TRUE], session, user), page)
    /\ UNCHANGED <<session, user, page>>

SetToken(token) ==
    /\ Incident
    /\ embedder.setup
    /\ NoDigest(StoreAndEnableToken(session, This, token))

EmbedderDeletesToken ==
    /\ Incident
    /\ embedder.setup
    /\ NoDigest(DeleteToken(session, This))

\* The embedding page is loaded again, and begins with the URL in its hash.
Reload ==
    /\ Incident
    /\ session' = Start(session, This)
    /\ user' = NewUser
    /\ page' = WatchLocation(NewPage(page.app, [embedder.url EXCEPT !.embed = TRUE]))
    /\ embedder' = NewEmbedder(embedder.url)

\* -------------------------------------------------------------------------- steps
Init ==
    \E app \in Apps, stored \in Token \cup {NoToken} :
      /\ session = Start([stored |-> stored, tab |-> [t \in Tab |-> OpenTab(stored)]], This)
      /\ user = NewUser
      /\ page = WatchLocation(NewPage(app, [HomePage EXCEPT !.embed = TRUE]))
      /\ embedder = NewEmbedder(HomePage)
      /\ moves = MaxMoves[app] /\ incidents = MaxIncidents[app]

\* What of the resource area a user may ask for: pages, old versions, with keys that
\* the page has or not, and some that are no pages.
BookmarksOf(app) ==
    LET pages == {pg \in Pages(app) : Key(pg) \in Visited[app]}
    IN  {Resource(Key(pg)) : pg \in pages}
        \cup {[Resource(Key(pg)) EXCEPT !.old = TRUE] : pg \in {v \in pages : v.versions}}
        \cup {[Resource(Key(pg)) EXCEPT !.search = pg.search \cup {"junk"}] :
                 pg \in {v \in pages : v.search # {}}}
        \cup {Resource(Missing), Resource(BadPath)}
Bookmarks == [app \in Apps |-> BookmarksOf(app)]
Bookmark(mark) ==
    LET last == Location("r", mark.page, mark.search)
    IN  IF mark.old THEN [last EXCEPT !.old = TRUE] ELSE last

\* A bad path is no page's, and no version's.
ASSUME RoutesAssumption ==
    \A app \in Apps :
      ~Has(app, BadPath) /\ \A mark \in Bookmarks[app] : mark.page = BadPath => ~mark.old

Sessions ==
    \/ \E t \in Tab : Clear(t) \/ StorageEvent(t) \/ LogOut(t)
    \/ \E t \in Tab, token \in Token :
         HeadAnswers(t, token) \/ HeadFails(t, token) \/ OtherLogsIn(t, token)
    \/ \E token \in Token :
         \/ SubmitLogIn(token) \/ SetToken(token)
         \/ UserAnswers(token) \/ UserRefused(token) \/ UserLost(token) \/ SaveUser(token)
    \/ LogInAnswers \/ LogInFails \/ Setup \/ EmbedderDeletesToken \/ Reload

Navigation ==
    \/ Click
    \/ \E mark \in Bookmarks[page.app] : Visit(Bookmark(mark))
    \/ \E area \in {"", "elsewhere"} : Visit(Area(area))
    \/ \E area \in {"login", "register"} : GoToLogIn(area)
    \/ Cancel \/ FocusColumn

Routing == ResourceAnswers \/ ResourceMissing \/ ResourceForbidden \/ OptionsAnswer

Next == Sessions \/ Navigation \/ Routing

\* Requests are answered or fail, timeouts run; nothing is assumed of the user, the
\* embedder and the other tabs.
Fairness ==
    /\ WF_vars(ResourceAnswers \/ ResourceMissing \/ OptionsAnswer)
    /\ WF_vars(Clear(This) \/ \E token \in Token : HeadAnswers(This, token))

Spec == Init /\ [][Next]_vars /\ Fairness

\* --------------------------------------------------------------------- properties
\* A tab that waits for nothing has the session that is stored, unless the check of
\* an older one ended after the newer was stored, or never.
SessionsAgree ==
    \A t \in Tab : Settled(session, t) /\ ~session.tab[t].strayed
                    => session.tab[t].token = session.stored

\* The data of the user are those of the session, unless an older request was
\* answered last, one failed, or another user was edited.
UserDataMatches ==
    user.seen = session.tab[This].token /\ user.loads = {} /\ ~user.mistaken
      => user.data = session.tab[This].token

\* The embedder knows of the session and the URL, but not of one user's following
\* another directly.
EmbedderKnows ==
    embedder.setup =>
      /\ embedder.url = page.location
      /\ user.seen = session.tab[This].token /\ user.loads = {} /\ ~user.mistaken
           /\ user.ready /\ ~embedder.passed
           => embedder.user = IF user.data = NoToken THEN Guest
                              ELSE [token |-> user.data, data |-> user.data]

\* Without the lock, all data belong to the location of the page; it is stranded if
\* a route ended in an error while the user went to the login, or to a bad path, or
\* after he went to another area and came back; or if it was embedded with "/".
PageFollowsLocation ==
    ~page.lock /\ ~page.stranded =>
      /\ page.area = Prefix(page.location) /\ ~page.blockTemplate
      /\ \A key \in DOMAIN page.data \ {"focus"} : page.data[key] = page.location

Unfocused(location) == [location EXCEPT !.search = @ \ {"focus"}]

\* The user is where he asked to go, or at the login with a way back, unless a
\* route of an earlier location or a column took him elsewhere.
UserGetsThere ==
    ~page.lock /\ ~page.diverted =>
      \/ Unfocused(page.location) = Unfocused(page.wanted)
      \/ "space" \in DOMAIN page.data
      \/ page.location = Area("login") /\ Unfocused(Target(page, page.cameFrom)) = Unfocused(page.wanted)

\* A page gives its columns the keys they need, but for the meeting of S1's comments.
ColumnsHaveTheirKeys ==
    ~page.lock /\ ShowingPage =>
      \A i \in Visible(Shown) :
        ShownColumns[i].keys \subseteq
          DOMAIN page.data \cup (IF page.app = "s1" /\ Shown.type = "comment" THEN {"meeting"} ELSE {})

\* The links of a page go to pages; that of the comments of Mercator's first year
\* goes to an item, which has none.
LinksAreRouted ==
    ShowingPage => \A link \in VisibleLinks :
      Has(page.app, link) \/ (page.app = "mercator2015" /\ link[1] = "item")

\* Whether there is a session becomes known, and with it every route ends, but for
\* that of the bad path.
RoutingSettles ==
    page.lock ~> \/ ~page.lock \/ page.pending = NoLocation
                 \/ ~Ready(session, This) /\ session.tab[This].strayed
================================================================================
