------------------------------ MODULE SessionProofs ------------------------------
(***************************************************************************)
(* What holds of a user's tabs for every number of tabs and users, every   *)
(* set of pages and any number of moves and incidents: tabs that wait for  *)
(* nothing have the stored session, the user's data are those of the       *)
(* session, the embedding page knows of both, the data of the page belong  *)
(* to its location, its columns have what they show, and its links lead to *)
(* pages.                                                                  *)
(***************************************************************************)
EXTENDS Session, SequenceTheorems, TLAPS

--------------------------------------------------------------------------------
(* The tabs.                                                                    *)

Sessions0 == Token \cup {NoToken}
TabRecord ==
    [loggedIn : {"unknown", "yes", "no"}, token : Sessions0, heads : SUBSET Token,
     clear : BOOLEAN, events : Seq(Sessions0), strayed : BOOLEAN]
SessionTypes(s) == s \in [stored : Sessions0, tab : [Tab -> TabRecord]]

\* SessionsAgree of any state of the tabs.
TabAgrees(s, t) ==
    Settled(s, t) /\ ~s.tab[t].strayed => s.tab[t].token = s.stored
Agree(s) == \A t \in Tab : TabAgrees(s, t)
GoodSession(s) == SessionTypes(s) /\ Agree(s)
\* A tab that is in the middle of something.
GoodButFor(s, t) == SessionTypes(s) /\ \A u \in Tab \ {t} : TabAgrees(s, u)

\* A session that is good is good but for any tab.
LEMMA GoodIsGood ==
    ASSUME NEW s, GoodSession(s), NEW t \in Tab
    PROVE  GoodButFor(s, t)
  BY DEF GoodSession, GoodButFor, Agree

\* Credentials.ts, persist: the tabs that are told have something to wait for.
LEMMA PersistIsGood ==
    ASSUME NEW s, NEW t \in Tab, GoodButFor(s, t), NEW value \in Sessions0
    PROVE  /\ GoodButFor(Persist(s, t, value), t)
           /\ Persist(s, t, value).stored = value
<1> DEFINE r == Persist(s, t, value)
<1>1. CASE s.stored = value
  BY <1>1 DEF Persist
<1>2. CASE s.stored # value
  <2> DEFINE tabs == [u \in Tab |-> IF u = t THEN s.tab[u]
                                    ELSE [s.tab[u] EXCEPT !.events = Append(@, value)]]
  <2>1. r = [stored |-> value, tab |-> tabs]
    BY <1>2 DEF Persist
  <2>2. ASSUME NEW u \in Tab, u # t
        PROVE  /\ tabs[u] \in TabRecord
               /\ tabs[u].events # <<>>
    <3>1. s.tab[u] \in TabRecord
      BY DEF GoodButFor, SessionTypes
    <3>2. s.tab[u].events \in Seq(Sessions0)
      BY <3>1 DEF TabRecord
    <3>3. /\ Append(s.tab[u].events, value) \in Seq(Sessions0)
          /\ Append(s.tab[u].events, value) # <<>>
      BY <3>2, AppendProperties
    <3>4. tabs[u] = [s.tab[u] EXCEPT !.events = Append(s.tab[u].events, value)]
      BY <2>2
    <3> QED
      BY <3>1, <3>3, <3>4 DEF TabRecord
  <2>3. tabs[t] = s.tab[t] /\ tabs[t] \in TabRecord
    BY DEF GoodButFor, SessionTypes
  <2>4. tabs \in [Tab -> TabRecord]
    BY <2>2, <2>3
  <2>5. SessionTypes(r)
    BY <2>1, <2>4 DEF SessionTypes
  <2>6. ASSUME NEW u \in Tab \ {t}
        PROVE  TabAgrees(r, u)
    <3>0. r.tab = tabs
      BY <2>1
    <3> HIDE DEF r, tabs
    <3>1. r.tab[u].events # <<>>
      BY <2>2, <3>0
    <3> QED
      BY <3>1 DEF TabAgrees, Settled
  <2> QED
    BY <2>1, <2>5, <2>6 DEF GoodButFor
<1> QED
  BY <1>1, <1>2

\* A tab that is changed alone, and agrees after it.
LEMMA OneTab ==
    ASSUME NEW s, NEW t \in Tab, GoodButFor(s, t), NEW record \in TabRecord,
           TabAgrees([s EXCEPT !.tab[t] = record], t)
    PROVE  GoodSession([s EXCEPT !.tab[t] = record])
<1> DEFINE r == [s EXCEPT !.tab[t] = record]
<1>1. /\ r.stored = s.stored
      /\ r.tab = [s.tab EXCEPT ![t] = record]
  BY DEF SessionTypes, GoodButFor
<1>2. SessionTypes(r)
  BY <1>1 DEF SessionTypes, GoodButFor
<1>3. ASSUME NEW u \in Tab \ {t}
      PROVE  TabAgrees(r, u)
  <2>1. r.tab[u] = s.tab[u]
    BY <1>1 DEF SessionTypes, GoodButFor
  <2> QED
    BY <1>1, <2>1 DEF TabAgrees, Settled, GoodButFor
<1> QED
  BY <1>2, <1>3 DEF GoodSession, Agree

\* enableToken: the tab strays if the storage has something else by now.
LEMMA EnableIsGood ==
    ASSUME NEW s, NEW t \in Tab, GoodButFor(s, t), NEW token \in Token
    PROVE  /\ GoodSession(EnableToken(s, t, token))
           /\ Ready(EnableToken(s, t, token), t)
           /\ EnableToken(s, t, token).tab[t].token = token
<1> DEFINE record == [s.tab[t] EXCEPT !.token = token, !.loggedIn = "yes",
                                      !.strayed = s.stored # token]
<1>0. s.tab[t] \in TabRecord
  BY DEF SessionTypes, GoodButFor
<1>1. EnableToken(s, t, token) = [s EXCEPT !.tab[t] = record]
  BY <1>0 DEF EnableToken, SessionTypes, GoodButFor, TabRecord
<1>2. /\ record \in TabRecord /\ record.token = token /\ record.loggedIn = "yes"
      /\ record.strayed = (s.stored # token)
  BY <1>0 DEF TabRecord, Sessions0
<1>3. [s EXCEPT !.tab[t] = record].tab[t] = record /\ [s EXCEPT !.tab[t] = record].stored = s.stored
  BY DEF SessionTypes, GoodButFor
<1>4. TabAgrees([s EXCEPT !.tab[t] = record], t)
  BY <1>2, <1>3 DEF TabAgrees
<1>5. GoodSession([s EXCEPT !.tab[t] = record])
  BY <1>2, <1>4, OneTab
<1> QED
  BY <1>1, <1>2, <1>3, <1>5 DEF Ready

\* deleteToken: the storage and the tab are without a session.
LEMMA DeleteIsGood ==
    ASSUME NEW s, NEW t \in Tab, GoodButFor(s, t)
    PROVE  /\ GoodSession(DeleteToken(s, t))
           /\ Ready(DeleteToken(s, t), t)
<1> DEFINE q == Persist(s, t, NoToken)
           record == [q.tab[t] EXCEPT !.token = NoToken, !.loggedIn = "no", !.strayed = FALSE]
<1>0. GoodButFor(q, t) /\ SessionTypes(q) /\ q.stored = NoToken
  BY PersistIsGood DEF Sessions0, GoodButFor
<1>1. q.tab[t] \in TabRecord
  BY <1>0 DEF SessionTypes
<1>2. /\ record \in TabRecord /\ record.token = NoToken /\ record.loggedIn = "no"
  BY <1>1 DEF TabRecord, Sessions0
<1> HIDE DEF q
<1>3. DeleteToken(s, t) = [q EXCEPT !.tab[t] = record]
  BY <1>0, <1>1 DEF DeleteToken, q, SessionTypes, TabRecord
<1> HIDE DEF record
<1>4. [q EXCEPT !.tab[t] = record].tab[t] = record /\ [q EXCEPT !.tab[t] = record].stored = q.stored
  BY <1>0 DEF SessionTypes
<1>5. TabAgrees([q EXCEPT !.tab[t] = record], t)
  BY <1>0, <1>2, <1>4 DEF TabAgrees
<1>6. GoodSession([q EXCEPT !.tab[t] = record])
  BY <1>0, <1>2, <1>5, OneTab
<1> QED
  BY <1>2, <1>3, <1>4, <1>6 DEF Ready

\* storeAndEnableToken.
LEMMA StoreIsGood ==
    ASSUME NEW s, GoodSession(s), NEW t \in Tab, NEW token \in Token
    PROVE  /\ GoodSession(StoreAndEnableToken(s, t, token))
           /\ Ready(StoreAndEnableToken(s, t, token), t)
<1>1. GoodButFor(Persist(s, t, token), t)
  BY PersistIsGood, GoodIsGood DEF Sessions0
<1> QED
  BY <1>1, EnableIsGood DEF StoreAndEnableToken

\* updateSessionFromStorage: the tab then has something to wait for.
LEMMA UpdateIsGood ==
    ASSUME NEW s, NEW t \in Tab, GoodButFor(s, t), NEW value \in Sessions0
    PROVE  GoodSession(UpdateSessionFromStorage(s, t, value))
<1>0. s.tab[t] \in TabRecord
  BY DEF SessionTypes, GoodButFor
<1>1. CASE value = NoToken
  <2> DEFINE record == [s.tab[t] EXCEPT !.clear = TRUE]
  <2>1. record \in TabRecord /\ record.clear
    BY <1>0 DEF TabRecord
  <2>2. UpdateSessionFromStorage(s, t, value) = [s EXCEPT !.tab[t] = record]
    BY <1>1 DEF UpdateSessionFromStorage, SessionTypes, GoodButFor
  <2>3. [s EXCEPT !.tab[t] = record].tab[t] = record
    BY DEF SessionTypes, GoodButFor
  <2>4. TabAgrees([s EXCEPT !.tab[t] = record], t)
    BY <2>1, <2>3 DEF TabAgrees, Settled
  <2> HIDE DEF record
  <2> QED
    BY <2>1, <2>2, <2>4, OneTab
<1>2. CASE value # NoToken
  <2> DEFINE record == [s.tab[t] EXCEPT !.heads = @ \cup {value}]
  <2>1. record \in TabRecord /\ record.heads # {}
    BY <1>0, <1>2 DEF TabRecord, Sessions0
  <2>2. UpdateSessionFromStorage(s, t, value) = [s EXCEPT !.tab[t] = record]
    BY <1>2 DEF UpdateSessionFromStorage, SessionTypes, GoodButFor
  <2>3. [s EXCEPT !.tab[t] = record].tab[t] = record
    BY DEF SessionTypes, GoodButFor
  <2>4. TabAgrees([s EXCEPT !.tab[t] = record], t)
    BY <2>1, <2>3 DEF TabAgrees, Settled
  <2> HIDE DEF record
  <2> QED
    BY <2>1, <2>2, <2>4, OneTab
<1> QED
  BY <1>1, <1>2

\* The other tabs, when one changes.
LEMMA OthersAgree ==
    ASSUME NEW s, GoodSession(s), NEW t \in Tab, NEW record \in TabRecord
    PROVE  GoodButFor([s EXCEPT !.tab[t] = record], t)
<1> DEFINE r == [s EXCEPT !.tab[t] = record]
<1>1. SessionTypes(r) /\ r.stored = s.stored /\ r.tab[t] = record
  BY DEF SessionTypes, GoodSession
<1>2. ASSUME NEW u \in Tab \ {t}
      PROVE  TabAgrees(r, u)
  <2>1. r.tab[u] = s.tab[u] /\ TabAgrees(s, u)
    BY DEF SessionTypes, GoodSession, Agree
  <2> QED
    BY <1>1, <2>1 DEF TabAgrees, Settled
<1> QED
  BY <1>1, <1>2 DEF GoodButFor

\* A tab is loaded again.
LEMMA StartIsGood ==
    ASSUME NEW s, GoodSession(s), NEW t \in Tab
    PROVE  GoodSession(Start(s, t))
<1>1. NewTab \in TabRecord
  BY DEF NewTab, TabRecord, Sessions0
<1> DEFINE r == [s EXCEPT !.tab[t] = NewTab]
<1>2. GoodButFor(r, t)
  BY <1>1, OthersAgree
<1>3. s.stored \in Sessions0
  BY DEF GoodSession, SessionTypes
<1>4. GoodSession(UpdateSessionFromStorage(r, t, s.stored))
  BY <1>2, <1>3, UpdateIsGood
<1> QED
  BY <1>4 DEF Start

\* The storage event.
LEMMA EventIsGood ==
    ASSUME NEW s, GoodSession(s), NEW t \in Tab, s.tab[t].events # <<>>
    PROVE  GoodSession(OnStorage(s, t))
<1>0. s.tab[t] \in TabRecord /\ s.tab[t].events \in Seq(Sessions0)
  BY DEF GoodSession, SessionTypes, TabRecord
<1>1. Tail(s.tab[t].events) \in Seq(Sessions0) /\ Head(s.tab[t].events) \in Sessions0
  BY <1>0, HeadTailProperties
<1> DEFINE record == [s.tab[t] EXCEPT !.events = Tail(@)]
           r == [s EXCEPT !.tab[t] = record]
<1>2. record \in TabRecord
  BY <1>0, <1>1 DEF TabRecord
<1>3. GoodButFor(r, t)
  BY <1>2, OthersAgree
<1>4. r = [s EXCEPT !.tab[t].events = Tail(@)]
  BY <1>0 DEF GoodSession, SessionTypes
<1>5. GoodSession(UpdateSessionFromStorage(r, t, Head(s.tab[t].events)))
  BY <1>1, <1>3, UpdateIsGood
<1> QED
  BY <1>4, <1>5 DEF OnStorage

\* The timeout that deletes the session.
LEMMA TimeoutIsGood ==
    ASSUME NEW s, GoodSession(s), NEW t \in Tab, s.tab[t].clear
    PROVE  GoodSession(OnTimeout(s, t))
<1>0. s.tab[t] \in TabRecord
  BY DEF GoodSession, SessionTypes
<1> DEFINE record == [s.tab[t] EXCEPT !.clear = FALSE]
           r == [s EXCEPT !.tab[t] = record]
<1>1. record \in TabRecord
  BY <1>0 DEF TabRecord
<1>2. GoodButFor(r, t)
  BY <1>1, OthersAgree
<1>3. r = [s EXCEPT !.tab[t].clear = FALSE]
  BY DEF GoodSession, SessionTypes
<1> QED
  BY <1>2, <1>3, DeleteIsGood DEF OnTimeout

\* The answer to the check of a token.
LEMMA CheckIsGood ==
    ASSUME NEW s, GoodSession(s), NEW t \in Tab, NEW token \in Token,
           NEW answer \in {"ok", "refused", "lost"}
    PROVE  GoodSession(Checked(s, t, token, answer))
<1>0. s.tab[t] \in TabRecord
  BY DEF GoodSession, SessionTypes
<1> DEFINE record == [s.tab[t] EXCEPT !.heads = @ \ {token}]
           r == [s EXCEPT !.tab[t] = record]
<1>1. record \in TabRecord
  BY <1>0 DEF TabRecord
<1>2. GoodButFor(r, t)
  BY <1>1, OthersAgree
<1>3. r = [s EXCEPT !.tab[t].heads = @ \ {token}]
  BY DEF GoodSession, SessionTypes
<1>4. CASE answer = "ok"
  <2>1. Checked(s, t, token, answer) = EnableToken(r, t, token)
    BY <1>3, <1>4 DEF Checked
  <2> QED
    BY <1>2, <2>1, EnableIsGood
<1>5. CASE answer = "refused"
  <2>1. Checked(s, t, token, answer) = DeleteToken(r, t)
    BY <1>3, <1>5 DEF Checked
  <2> QED
    BY <1>2, <2>1, DeleteIsGood
<1>6. CASE answer = "lost"
  <2> DEFINE strayed == [r.tab[t] EXCEPT !.strayed = TRUE]
  <2>1. r.tab[t] \in TabRecord
    BY <1>2 DEF GoodButFor, SessionTypes
  <2>2. strayed \in TabRecord /\ strayed.strayed
    BY <2>1 DEF TabRecord
  <2>3. Checked(s, t, token, answer) = [r EXCEPT !.tab[t] = strayed]
    BY <1>2, <1>3, <1>6 DEF Checked, GoodButFor, SessionTypes
  <2> HIDE DEF strayed, r
  <2>4. TabAgrees([r EXCEPT !.tab[t] = strayed], t)
    BY <1>2, <2>2 DEF TabAgrees, GoodButFor, SessionTypes
  <2> QED
    BY <1>2, <2>2, <2>3, <2>4, OneTab
<1> QED
  BY <1>4, <1>5, <1>6

--------------------------------------------------------------------------------
(* The user's data, and what the embedding page is told.                        *)

UserRecord ==
    [seen : Sessions0 \cup {"nothing"}, data : Sessions0, loads : SUBSET Token,
     watched : SUBSET Token, ready : BOOLEAN, login : Sessions0, mistaken : BOOLEAN]
\* With nothing under way the data are of the user whose path the watch has seen.
DataFollow(u) ==
    u.loads = {} /\ ~u.mistaken /\ u.seen # "nothing" => u.data = u.seen
GoodUser(u) == u \in UserRecord /\ DataFollow(u)

\* The watch on the user's path.
LEMMA WatchIsGood ==
    ASSUME NEW s, SessionTypes(s), NEW u, GoodUser(u)
    PROVE  GoodUser(WatchUserPath(s, u)) /\ (u.ready => WatchUserPath(s, u).ready)
<1> DEFINE token == s.tab[This].token
<1>0. token \in Sessions0
  BY SessionAssumption DEF SessionTypes, TabRecord
<1> HIDE DEF token
<1>1. u \in UserRecord /\ DataFollow(u)
  BY DEF GoodUser
<1>2. CASE ~Ready(s, This) \/ u.seen = token
  BY <1>1, <1>2 DEF WatchUserPath, GoodUser, token
<1>3. CASE ~(~Ready(s, This) \/ u.seen = token) /\ token = NoToken
  <2> DEFINE r == [u EXCEPT !.seen = token, !.data = NoToken, !.ready = TRUE, !.mistaken = FALSE]
  <2>1. WatchUserPath(s, u) = r
    BY <1>3 DEF WatchUserPath, token
  <2>2. r \in UserRecord /\ r.ready /\ r.data = r.seen
    BY <1>0, <1>1, <1>3 DEF UserRecord, Sessions0
  <2> QED
    BY <2>1, <2>2 DEF GoodUser, DataFollow
<1>4. CASE ~(~Ready(s, This) \/ u.seen = token) /\ token # NoToken
  <2> DEFINE r == LoadWatched(u, token)
  <2>1. WatchUserPath(s, u) = r
    BY <1>4 DEF WatchUserPath, token
  <2>2. r \in UserRecord /\ r.ready = u.ready /\ r.loads # {}
    BY <1>0, <1>1, <1>4 DEF LoadWatched, UserRecord, Sessions0
  <2> QED
    BY <2>1, <2>2 DEF GoodUser, DataFollow
<1> QED
  BY <1>2, <1>3, <1>4

\* The data of a user have come: they are of the session's, or mistaken, and the
\* watch then sees the path of the session.
LEMMA LoadedIsGood ==
    ASSUME NEW s, SessionTypes(s), Ready(s, This), NEW u, GoodUser(u), NEW who \in Token
    PROVE  /\ GoodUser(WatchUserPath(s, Loaded(s, u, who)))
           /\ u.ready => WatchUserPath(s, Loaded(s, u, who)).ready
<1> DEFINE token == s.tab[This].token
           l == Loaded(s, u, who)
<1>0. token \in Sessions0
  BY SessionAssumption DEF SessionTypes, TabRecord
<1>1. u \in UserRecord
  BY DEF GoodUser
<1>2. /\ l \in UserRecord /\ l.seen = u.seen /\ l.data = who /\ (u.ready => l.ready)
      /\ l.mistaken = (who # token)
  BY <1>1 DEF Loaded, UserRecord, Sessions0
<1> HIDE DEF l, token
<1>3. CASE l.seen = token
  <2>1. GoodUser(l)
    BY <1>2, <1>3 DEF GoodUser, DataFollow
  <2> QED
    BY <1>2, <2>1, WatchIsGood DEF l
<1>4. CASE l.seen # token /\ token = NoToken
  <2> DEFINE r == [l EXCEPT !.seen = token, !.data = NoToken, !.ready = TRUE, !.mistaken = FALSE]
  <2>1. WatchUserPath(s, l) = r
    BY <1>4 DEF WatchUserPath, token
  <2>2. r \in UserRecord /\ r.ready /\ r.data = r.seen
    BY <1>0, <1>2, <1>4 DEF UserRecord, Sessions0
  <2> QED
    BY <2>1, <2>2 DEF GoodUser, DataFollow, l
<1>5. CASE l.seen # token /\ token # NoToken
  <2> DEFINE r == LoadWatched(l, token)
  <2>1. WatchUserPath(s, l) = r
    BY <1>5 DEF WatchUserPath, token
  <2>2. r \in UserRecord /\ r.ready = l.ready /\ r.loads # {}
    BY <1>0, <1>2, <1>5 DEF LoadWatched, UserRecord, Sessions0
  <2> QED
    BY <1>2, <2>1, <2>2 DEF GoodUser, DataFollow, l
<1> QED
  BY <1>3, <1>4, <1>5

\* What is known of the embedding page as a record.
EmbedderTypes(e) ==
    e \in [setup : BOOLEAN, last : {"unknown", "yes", "no"}, user : {e.user},
           passed : BOOLEAN, url : {e.url}]
\* It knows of a session once it is set up and the user is known; and of whose,
\* unless one user's following another has passed it by.
Told(e, u) ==
    /\ e.last = (IF e.setup /\ u.ready THEN IF u.data # NoToken THEN "yes" ELSE "no"
                                       ELSE "unknown")
    /\ e.last = "no" => e.user = Guest
    /\ e.last = "yes" /\ ~e.passed => e.user = [token |-> u.data, data |-> u.data]
UrlKnown(e, p) == e.setup => e.url = p.location

\* sendLoginState, from the user's data to the next ones.
LEMMA SentIsTold ==
    ASSUME NEW e, EmbedderTypes(e), e.last = "unknown" \/ Told(e, user),
           user \in UserRecord, NEW s, NEW u \in UserRecord, user.ready => u.ready
    PROVE  /\ EmbedderTypes(SendLoginState(e, s, u))
           /\ Told(SendLoginState(e, s, u), u)
           /\ SendLoginState(e, s, u).setup = e.setup
<1> DEFINE loggedIn == IF u.data # NoToken THEN "yes" ELSE "no"
           token == s.tab[This].token
           r == SendLoginState(e, s, u)
<1>0. /\ e.setup \in BOOLEAN /\ e.passed \in BOOLEAN
      /\ e.last \in {"unknown", "yes", "no"}
      /\ u.ready \in BOOLEAN
  BY DEF EmbedderTypes, UserRecord
<1>1. CASE ~e.setup \/ ~u.ready
  <2>1. r = e
    BY <1>1 DEF SendLoginState
  <2>2. e.last = "unknown"
    BY <1>1 DEF Told
  <2> QED
    BY <1>1, <2>1, <2>2 DEF Told
<1>2. CASE e.setup /\ u.ready /\ loggedIn # e.last
  <2> DEFINE whom == IF loggedIn = "no" THEN Guest ELSE [token |-> token, data |-> u.data]
             q == [e EXCEPT !.last = loggedIn, !.passed = u.data # token, !.user = whom]
  <2>1. r = q
    BY <1>2 DEF SendLoginState
  <2>2. /\ EmbedderTypes(q) /\ q.setup = e.setup /\ q.last = loggedIn
        /\ q.passed = (u.data # token) /\ q.user = whom
    BY DEF EmbedderTypes
  <2> HIDE DEF q
  <2>3. Told(q, u)
    BY <1>2, <2>2 DEF Told
  <2> QED
    BY <2>1, <2>2, <2>3
<1>3. CASE e.setup /\ u.ready /\ loggedIn = e.last
  <2> DEFINE q == [e EXCEPT !.passed = @ \/ u.data # user.data]
  <2>1. r = q
    BY <1>3 DEF SendLoginState
  <2>2. /\ EmbedderTypes(q) /\ q.setup = e.setup /\ q.last = e.last
        /\ q.passed = (e.passed \/ u.data # user.data) /\ q.user = e.user
    BY <1>0 DEF EmbedderTypes
  <2> HIDE DEF q
  <2>3. Told(e, user) /\ e.last # "unknown"
    BY <1>3
  <2>4. Told(q, u)
    BY <1>3, <2>2, <2>3 DEF Told
  <2> QED
    BY <2>1, <2>2, <2>4
<1> QED
  BY <1>0, <1>1, <1>2, <1>3

\* The URL is told with every digest.
LEMMA UrlIsTold ==
    ASSUME NEW e, EmbedderTypes(e), NEW u, Told(e, u), NEW p
    PROVE  /\ EmbedderTypes(UrlChange(e, p)) /\ Told(UrlChange(e, p), u)
           /\ UrlKnown(UrlChange(e, p), p)
<1>1. CASE e.setup
  <2> DEFINE q == [e EXCEPT !.url = p.location]
  <2>1. UrlChange(e, p) = q
    BY <1>1 DEF UrlChange
  <2>2. /\ EmbedderTypes(q) /\ q.url = p.location /\ q.setup = e.setup /\ q.last = e.last
        /\ q.passed = e.passed /\ q.user = e.user
    BY DEF EmbedderTypes
  <2> QED
    BY <2>1, <2>2 DEF Told, UrlKnown
<1>2. CASE ~e.setup
  BY <1>2 DEF UrlChange, UrlKnown
<1> QED
  BY <1>1, <1>2

--------------------------------------------------------------------------------
(* The invariant of the sessions, and its steps.                                *)

SessionInv ==
    /\ GoodSession(session)
    /\ GoodUser(user)
    /\ EmbedderTypes(embedder) /\ Told(embedder, user) /\ UrlKnown(embedder, page)

\* A digest runs the watch on the user's path, tells the embedding page, and ends.
LEMMA DigestKeepsSession ==
    ASSUME SessionInv, NEW s, GoodSession(s), NEW u, NEW p, Digest(s, u, p),
           GoodUser(WatchUserPath(s, u)), user.ready => WatchUserPath(s, u).ready
    PROVE  SessionInv'
<1>1. /\ session' = s /\ user' = WatchUserPath(s, u)
      /\ embedder' = UrlChange(SendLoginState(embedder, s, user'), page')
  BY DEF Digest
<1>2. GoodSession(session') /\ GoodUser(user') /\ user' \in UserRecord
  BY <1>1 DEF GoodUser
<1>3. /\ EmbedderTypes(SendLoginState(embedder, s, user'))
      /\ Told(SendLoginState(embedder, s, user'), user')
  BY <1>1, <1>2, SentIsTold DEF SessionInv, GoodUser
<1>4. /\ EmbedderTypes(embedder') /\ Told(embedder', user') /\ UrlKnown(embedder', page')
  BY <1>1, <1>3, UrlIsTold
<1> QED
  BY <1>2, <1>4 DEF SessionInv

\* A digest that leaves the user's data to the watch.
LEMMA PlainDigestKeepsSession ==
    ASSUME SessionInv, NEW s, GoodSession(s), NEW p, Digest(s, user, p)
    PROVE  SessionInv'
<1>1. GoodUser(WatchUserPath(s, user)) /\ (user.ready => WatchUserPath(s, user).ready)
  BY WatchIsGood DEF SessionInv, GoodSession
<1> QED
  BY <1>1, DigestKeepsSession

\* A task without a digest.
LEMMA NoDigestKeepsSession ==
    ASSUME SessionInv, NEW s, GoodSession(s), NoDigest(s)
    PROVE  SessionInv'
  BY DEF NoDigest, SessionInv, UrlKnown

\* A task of any tab.
LEMMA InTabKeepsSession ==
    ASSUME SessionInv, NEW s, GoodSession(s), NEW t \in Tab, InTab(t, s)
    PROVE  SessionInv'
  BY PlainDigestKeepsSession, NoDigestKeepsSession DEF InTab

\* The tabs' own steps: answers to checks, timeouts, storage events, sessions that
\* begin and end.
LEMMA TabsKeepSession ==
    ASSUME SessionInv, NEW t \in Tab,
           \/ Clear(t) \/ StorageEvent(t) \/ LogOut(t)
           \/ \E token \in Token :
                 HeadAnswers(t, token) \/ HeadFails(t, token) \/ OtherLogsIn(t, token)
    PROVE  SessionInv'
<1>0. GoodSession(session) /\ GoodButFor(session, t)
  BY GoodIsGood DEF SessionInv
<1>1. CASE Clear(t)
  BY <1>0, <1>1, TimeoutIsGood, InTabKeepsSession DEF Clear
<1>2. CASE StorageEvent(t)
  BY <1>0, <1>2, EventIsGood, InTabKeepsSession DEF StorageEvent
<1>3. CASE LogOut(t)
  BY <1>0, <1>3, DeleteIsGood, InTabKeepsSession DEF LogOut
<1>4. ASSUME NEW token \in Token, HeadAnswers(t, token) \/ HeadFails(t, token)
      PROVE  SessionInv'
  <2>1. PICK answer \in {"ok", "refused", "lost"} : Check(t, token, answer)
    BY <1>4 DEF HeadAnswers, HeadFails
  <2>2. GoodSession(Checked(session, t, token, answer))
    BY <1>0, <2>1, CheckIsGood
  <2> QED
    BY <2>1, <2>2, InTabKeepsSession DEF Check
<1>5. ASSUME NEW token \in Token, OtherLogsIn(t, token)
      PROVE  SessionInv'
  <2>1. GoodSession(StoreAndEnableToken(session, t, token))
    BY <1>0, StoreIsGood
  <2> QED
    BY <1>5, <2>1, NoDigestKeepsSession DEF OtherLogsIn
<1> QED
  BY <1>1, <1>2, <1>3, <1>4, <1>5

\* The log-in, from the form to the answer.
LEMMA LogInKeepsSession ==
    ASSUME SessionInv,
           (\E token \in Token : SubmitLogIn(token)) \/ LogInAnswers \/ LogInFails
    PROVE  SessionInv'
<1>0. /\ GoodSession(session) /\ GoodUser(user) /\ user \in UserRecord
      /\ GoodButFor(session, This)
  BY GoodIsGood, SessionAssumption DEF SessionInv, GoodUser
<1>1. ASSUME NEW login \in Sessions0
      PROVE  LET u == [user EXCEPT !.login = login]
             IN  GoodUser(u) /\ u.ready = user.ready /\ u.data = user.data
  BY <1>0 DEF GoodUser, UserRecord, DataFollow
<1> DEFINE out == [user EXCEPT !.login = NoToken]
<1>2. GoodUser(out) /\ out.ready = user.ready
  BY <1>1 DEF Sessions0
<1> HIDE DEF out
<1>3. ASSUME NEW token \in Token, SubmitLogIn(token)
      PROVE  SessionInv'
  <2> DEFINE u == [user EXCEPT !.login = token]
  <2>1. GoodUser(u) /\ u.ready = user.ready /\ u.data = user.data
    BY <1>1 DEF Sessions0
  <2>2. user' = u /\ UNCHANGED <<session, page, embedder>>
    BY <1>3 DEF SubmitLogIn
  <2> HIDE DEF u
  <2> QED
    BY <2>1, <2>2 DEF SessionInv, Told, UrlKnown
<1>4. CASE LogInAnswers
  <2> DEFINE s == StoreAndEnableToken(session, This, user.login)
  <2>1. user.login \in Token
    BY <1>0, <1>4 DEF LogInAnswers, UserRecord, Sessions0
  <2>2. GoodSession(s)
    BY <1>0, <2>1, StoreIsGood, SessionAssumption
  <2>3. Digest(s, out, GoToCameFrom(page, Area("")))
    BY <1>4 DEF LogInAnswers, out
  <2> HIDE DEF s
  <2>4. GoodUser(WatchUserPath(s, out)) /\ (out.ready => WatchUserPath(s, out).ready)
    BY <1>2, <2>2, WatchIsGood DEF GoodSession
  <2> QED
    BY <1>2, <2>2, <2>3, <2>4, DigestKeepsSession
<1>5. CASE LogInFails
  <2>1. Digest(session, out, page)
    BY <1>5 DEF LogInFails, out
  <2>2. GoodUser(WatchUserPath(session, out)) /\ (out.ready => WatchUserPath(session, out).ready)
    BY <1>0, <1>2, WatchIsGood DEF GoodSession
  <2> QED
    BY <1>0, <1>2, <2>1, <2>2, DigestKeepsSession
<1> QED
  BY <1>3, <1>4, <1>5

\* The user's data: they come, are refused or lost, or another user's are loaded.
LEMMA UserKeepsSession ==
    ASSUME SessionInv, NEW who \in Token,
           UserAnswers(who) \/ UserRefused(who) \/ UserLost(who) \/ SaveUser(who)
    PROVE  SessionInv'
<1>0. /\ GoodSession(session) /\ SessionTypes(session) /\ GoodUser(user) /\ user \in UserRecord
      /\ GoodButFor(session, This)
  BY GoodIsGood, SessionAssumption DEF SessionInv, GoodUser, GoodSession
<1>1. CASE UserAnswers(who)
  <2>1. /\ GoodUser(WatchUserPath(session, Loaded(session, user, who)))
        /\ user.ready => WatchUserPath(session, Loaded(session, user, who)).ready
    BY <1>0, <1>1, LoadedIsGood DEF UserAnswers
  <2>2. Digest(session, Loaded(session, user, who), page)
    BY <1>1 DEF UserAnswers
  <2> QED
    BY <1>0, <2>1, <2>2, DigestKeepsSession
<1> DEFINE u == NotLoaded(user, who)
<1>2. GoodUser(u) /\ u.ready = user.ready
  BY <1>0 DEF NotLoaded, GoodUser, UserRecord, DataFollow
<1> HIDE DEF u
<1>3. CASE UserRefused(who)
  <2> DEFINE s == DeleteToken(session, This)
  <2>1. GoodSession(s) /\ Digest(s, u, page)
    BY <1>0, <1>3, DeleteIsGood, SessionAssumption DEF UserRefused, u
  <2> HIDE DEF s
  <2>2. GoodUser(WatchUserPath(s, u)) /\ (u.ready => WatchUserPath(s, u).ready)
    BY <1>2, <2>1, WatchIsGood DEF GoodSession
  <2> QED
    BY <1>2, <2>1, <2>2, DigestKeepsSession
<1>4. CASE UserLost(who)
  <2>1. Digest(session, u, page)
    BY <1>4 DEF UserLost, u
  <2>2. GoodUser(WatchUserPath(session, u)) /\ (u.ready => WatchUserPath(session, u).ready)
    BY <1>0, <1>2, WatchIsGood DEF GoodSession
  <2> QED
    BY <1>0, <1>2, <2>1, <2>2, DigestKeepsSession
<1>5. CASE SaveUser(who)
  <2> DEFINE v == [user EXCEPT !.loads = @ \cup {who}]
  <2>1. GoodUser(v) /\ v.ready = user.ready
    <3>1. v \in UserRecord /\ v.loads # {} /\ v.ready = user.ready
      BY <1>0 DEF UserRecord
    <3> QED
      BY <3>1 DEF GoodUser, DataFollow
  <2>2. Digest(session, v, Go(page, Resource(<<"user", "">>)))
    BY <1>5 DEF SaveUser
  <2> HIDE DEF v
  <2>3. GoodUser(WatchUserPath(session, v)) /\ (v.ready => WatchUserPath(session, v).ready)
    BY <1>0, <2>1, WatchIsGood
  <2> QED
    BY <1>0, <2>1, <2>2, <2>3, DigestKeepsSession
<1> QED
  BY <1>1, <1>3, <1>4, <1>5

\* A tab without anything.
LEMMA FreshIsGood == GoodUser(NewUser)
  BY DEF NewUser, GoodUser, UserRecord, DataFollow, Sessions0

\* What the embedding page was told when it starts is nothing.
LEMMA FreshEmbedder ==
    ASSUME NEW url, NEW p
    PROVE  /\ EmbedderTypes(NewEmbedder(url)) /\ Told(NewEmbedder(url), NewUser)
           /\ UrlKnown(NewEmbedder(url), p)
  BY DEF NewEmbedder, EmbedderTypes, Told, UrlKnown, NewUser

\* The embedding page: it is set up, sets or deletes the session, or is reloaded.
LEMMA EmbedderKeepsSession ==
    ASSUME SessionInv,
           \/ Setup \/ EmbedderDeletesToken \/ Reload
           \/ \E token \in Token : SetToken(token)
    PROVE  SessionInv'
<1>0. /\ GoodSession(session) /\ GoodUser(user) /\ user \in UserRecord
      /\ GoodButFor(session, This) /\ This \in Tab
  BY GoodIsGood, SessionAssumption DEF SessionInv, GoodUser
<1>1. CASE Setup
  <2> DEFINE e == [embedder EXCEPT !.setup = TRUE]
  <2>1. embedder.last = "unknown" /\ EmbedderTypes(embedder)
    BY <1>1 DEF Setup, SessionInv, Told
  <2>2. EmbedderTypes(e) /\ e.last = "unknown"
    BY <2>1 DEF EmbedderTypes
  <2>3. embedder' = UrlChange(SendLoginState(e, session, user), page)
    BY <1>1 DEF Setup
  <2> HIDE DEF e
  <2>4. /\ EmbedderTypes(SendLoginState(e, session, user))
        /\ Told(SendLoginState(e, session, user), user)
    BY <1>0, <2>2, SentIsTold
  <2>5. /\ EmbedderTypes(embedder') /\ Told(embedder', user) /\ UrlKnown(embedder', page)
    BY <2>3, <2>4, UrlIsTold
  <2> QED
    BY <1>0, <1>1, <2>5 DEF Setup, SessionInv
<1>2. CASE EmbedderDeletesToken
  BY <1>0, <1>2, DeleteIsGood, NoDigestKeepsSession DEF EmbedderDeletesToken
<1>3. CASE Reload
  <2>1. GoodSession(session')
    BY <1>0, <1>3, StartIsGood DEF Reload
  <2>2. user' = NewUser /\ embedder' = NewEmbedder(embedder.url)
    BY <1>3 DEF Reload
  <2> QED
    BY <2>1, <2>2, FreshIsGood, FreshEmbedder DEF SessionInv
<1>4. ASSUME NEW token \in Token, SetToken(token)
      PROVE  SessionInv'
  BY <1>0, <1>4, StoreIsGood, NoDigestKeepsSession DEF SetToken
<1> QED
  BY <1>1, <1>2, <1>3, <1>4

\* What the user does on the page, and the answers to its routes, are digests.
LEMMA PageKeepsSession ==
    ASSUME SessionInv, Navigation \/ Routing
    PROVE  SessionInv'
<1>0. GoodSession(session)
  BY DEF SessionInv
<1>1. \E p : Digest(session, user, p)
  <2>1. CASE Click
    BY <2>1 DEF Click
  <2>2. CASE \E mark \in Bookmarks[page.app] : Visit(Bookmark(mark))
    BY <2>2 DEF Visit
  <2>3. CASE \E area \in {"", "elsewhere"} : Visit(Area(area))
    BY <2>3 DEF Visit
  <2>4. CASE \E area \in {"login", "register"} : GoToLogIn(area)
    BY <2>4 DEF GoToLogIn
  <2>5. CASE Cancel \/ FocusColumn
    BY <2>5 DEF Cancel, FocusColumn
  <2>6. CASE Routing
    BY <2>6 DEF Routing, ResourceAnswers, ResourceMissing, ResourceForbidden, OptionsAnswer
  <2> QED
    BY <2>1, <2>2, <2>3, <2>4, <2>5, <2>6 DEF Navigation
<1> QED
  BY <1>0, <1>1, PlainDigestKeepsSession

\* The tabs that are open at the start have the stored session.
LEMMA InitIsGood ==
    ASSUME Init
    PROVE  SessionInv
<1>1. PICK app \in Apps, stored \in Token \cup {NoToken} :
          /\ session = Start([stored |-> stored, tab |-> [t \in Tab |-> OpenTab(stored)]], This)
          /\ user = NewUser
          /\ embedder = NewEmbedder(HomePage)
  BY DEF Init
<1> DEFINE s == [stored |-> stored, tab |-> [t \in Tab |-> OpenTab(stored)]]
<1>2. OpenTab(stored) \in TabRecord /\ OpenTab(stored).token = stored
  <2>1. <<>> \in Seq(Sessions0)
    OBVIOUS
  <2> QED
    BY <1>1, <2>1 DEF OpenTab, NewTab, TabRecord, Sessions0
<1>3. GoodSession(s)
  <2>1. SessionTypes(s)
    BY <1>1, <1>2 DEF SessionTypes, Sessions0
  <2>2. ASSUME NEW t \in Tab
        PROVE  s.tab[t].token = s.stored
    BY <1>2
  <2> QED
    BY <2>1, <2>2 DEF GoodSession, Agree, TabAgrees
<1>4. GoodSession(session)
  BY <1>1, <1>3, StartIsGood, SessionAssumption
<1> QED
  BY <1>1, <1>4, FreshIsGood, FreshEmbedder DEF SessionInv

\* Every step keeps the invariant.
LEMMA NextKeepsSession ==
    ASSUME SessionInv, [Next]_vars
    PROVE  SessionInv'
<1>1. CASE Sessions
  <2>1. CASE \E t \in Tab : Clear(t) \/ StorageEvent(t) \/ LogOut(t)
    BY <2>1, TabsKeepSession
  <2>2. CASE \E t \in Tab, token \in Token :
                 HeadAnswers(t, token) \/ HeadFails(t, token) \/ OtherLogsIn(t, token)
    BY <2>2, TabsKeepSession
  <2>3. CASE \E token \in Token :
                 \/ SubmitLogIn(token) \/ SetToken(token)
                 \/ UserAnswers(token) \/ UserRefused(token) \/ UserLost(token) \/ SaveUser(token)
    BY <2>3, LogInKeepsSession, EmbedderKeepsSession, UserKeepsSession
  <2>4. CASE LogInAnswers \/ LogInFails
    BY <2>4, LogInKeepsSession
  <2>5. CASE Setup \/ EmbedderDeletesToken \/ Reload
    BY <2>5, EmbedderKeepsSession
  <2> QED
    BY <1>1, <2>1, <2>2, <2>3, <2>4, <2>5 DEF Sessions
<1>2. CASE Navigation \/ Routing
  BY <1>2, PageKeepsSession
<1>3. CASE UNCHANGED vars
  BY <1>3 DEF vars, SessionInv, UrlKnown
<1> QED
  BY <1>1, <1>2, <1>3 DEF Next

\* The invariant of the sessions of all tabs holds: Credentials.ts, User.ts and
\* CrossWindowMessaging.ts together.
THEOREM SessionInvariance == Spec => []SessionInv
<1>1. Init => SessionInv
  BY InitIsGood
<1>2. SessionInv /\ [Next]_vars => SessionInv'
  BY NextKeepsSession
<1> QED
  BY <1>1, <1>2, PTL DEF Spec

\* A tab that waits for nothing has the stored session, unless it strayed
\* (Credentials.ts): for every number of tabs and of users.
THEOREM TabsAlwaysAgree == Spec => []SessionsAgree
<1>1. SessionInv => SessionsAgree
  BY DEF SessionInv, GoodSession, Agree, TabAgrees, SessionsAgree
<1> QED
  BY <1>1, SessionInvariance, PTL

\* The user's data are those of the session, unless mistaken (User.ts).
THEOREM DataAlwaysMatch == Spec => []UserDataMatches
<1>1. ASSUME SessionInv
      PROVE  UserDataMatches
  <2>1. session.tab[This].token \in Sessions0
    BY <1>1, SessionAssumption DEF SessionInv, GoodSession, SessionTypes, TabRecord
  <2>2. session.tab[This].token # "nothing"
    BY <2>1, SessionAssumption DEF Sessions0
  <2> QED
    BY <1>1, <2>2 DEF SessionInv, GoodUser, DataFollow, UserDataMatches
<1> QED
  BY <1>1, SessionInvariance, PTL

\* The embedding page knows of the session and of the URL (CrossWindowMessaging.ts).
THEOREM EmbedderAlwaysKnows == Spec => []EmbedderKnows
<1>1. ASSUME SessionInv, embedder.setup, user.ready, ~embedder.passed
      PROVE  embedder.user = IF user.data = NoToken THEN Guest
                             ELSE [token |-> user.data, data |-> user.data]
  BY <1>1 DEF SessionInv, Told
<1>2. SessionInv => EmbedderKnows
  BY <1>1 DEF EmbedderKnows, SessionInv, UrlKnown
<1> QED
  BY <1>2, SessionInvariance, PTL

--------------------------------------------------------------------------------
(* The page and its location.                                                   *)

Areas == {"", "r", "login", "register", "elsewhere", "nothing yet"}
\* A location, of any page and with any search.
IsLocation(l) ==
    l \in [area : Areas, page : {l.page}, search : {l.search}, old : BOOLEAN, embed : BOOLEAN]
\* One that leads to no other one.
IsPlain(l) == IsLocation(l) /\ Prefix(l) \notin Redirects

PageRecord(p) ==
    [app : {p.app}, initial : {p.initial}, location : {p.location}, seen : {p.seen},
     lock : BOOLEAN, pending : {p.pending}, phase : {p.phase}, area : {p.area},
     blockTemplate : BOOLEAN, data : {p.data}, given : {p.given}, cameFrom : {p.cameFrom},
     wanted : {p.wanted}, diverted : {p.diverted}, stranded : BOOLEAN]
PageTypes(p) ==
    /\ p \in PageRecord(p)
    /\ IsLocation(p.location) /\ IsLocation(p.cameFrom)
    /\ IsLocation(p.initial) /\ ~p.initial.embed
    /\ IsPlain(p.pending) /\ (p.pending # NoLocation => p.lock)
    /\ "resourceUrl" \in DOMAIN p.data => IsPlain(p.data["resourceUrl"])

\* PageFollowsLocation of any state of the page.
DataAreOf(data, location) == \A key \in DOMAIN data \ {"focus"} : data[key] = location
Following(p) ==
    p.area = Prefix(p.location) /\ ~p.blockTemplate /\ DataAreOf(p.data, p.location)
IsFine(p) == p.lock \/ p.stranded \/ Following(p)

\* After a digest: the watch has seen the location, and what is shown is an area's
\* that redirects to no other.
PageInv(p) ==
    /\ PageTypes(p)
    /\ p.seen = p.location
    /\ p.blockTemplate \/ (p.area = Prefix(p.location) /\ p.area \notin Redirects)
    /\ IsFine(p)
\* Before the watches of a digest.
Unwatched(p) ==
    /\ PageTypes(p)
    /\ p.blockTemplate \/ IF p.location = p.seen THEN Prefix(p.location) \notin Redirects
                                               ELSE p.area \notin Redirects
    /\ p.location = p.seen => IsFine(p)
\* Before a location is routed.
Unrouted(p) ==
    /\ PageTypes(p) /\ ~p.lock /\ p.seen = p.location
    /\ p.blockTemplate \/ p.area \notin Redirects \/ Prefix(p.location) \notin Redirects

\* A page that is settled can be watched again.
LEMMA SettledIsUnwatched ==
    ASSUME NEW p, PageInv(p)
    PROVE  Unwatched(p)
  BY DEF PageInv, Unwatched

\* The helpers change what they change, and the rest is as it was.
LEMMA GetAreaIs ==
    ASSUME NEW p, PageTypes(p)
    PROVE  GetArea(p) = [p EXCEPT !.area = Prefix(p.location),
                             !.blockTemplate = p.blockTemplate \/ p.area # Prefix(p.location)]
  BY DEF GetArea, PageTypes, PageRecord

\* Entering an area.
LEMMA GetAreaTypes ==
    ASSUME NEW p, PageTypes(p)
    PROVE  LET q == GetArea(p)
           IN  /\ PageTypes(q) /\ q.area = Prefix(q.location)
               /\ q.blockTemplate = (p.blockTemplate \/ p.area # Prefix(p.location))
               /\ q.location = p.location /\ q.seen = p.seen /\ q.lock = p.lock
               /\ q.pending = p.pending /\ q.data = p.data /\ q.given = p.given
               /\ q.stranded = p.stranded /\ q.initial = p.initial /\ q.app = p.app
<1> DEFINE q == [p EXCEPT !.area = Prefix(p.location),
                     !.blockTemplate = p.blockTemplate \/ p.area # Prefix(p.location)]
<1>1. /\ q \in PageRecord(q) /\ q.area = Prefix(p.location)
      /\ q.blockTemplate = (p.blockTemplate \/ p.area # Prefix(p.location))
      /\ q.location = p.location /\ q.seen = p.seen /\ q.lock = p.lock
      /\ q.pending = p.pending /\ q.data = p.data /\ q.given = p.given
      /\ q.stranded = p.stranded /\ q.initial = p.initial /\ q.app = p.app
      /\ q.cameFrom = p.cameFrom
  BY DEF PageTypes, PageRecord
<1> HIDE DEF q
<1>2. PageTypes(q)
  BY <1>1 DEF PageTypes
<1> QED
  BY <1>1, <1>2, GetAreaIs DEF q

\* Data of one location, under it: a page that follows, or one whose search is
\* about to be routed again.
LEMMA RoutedIsUnwatched ==
    ASSUME NEW p, PageTypes(p), p.seen = p.location, IsPlain(p.location),
           NEW data, NEW given, DataAreOf(data, p.location)
    PROVE  LET q == Routed(p, data, given)
           IN  /\ Unwatched(q) /\ ~q.lock /\ ~q.blockTemplate /\ q.seen = p.seen
               /\ q.area = Prefix(q.location) /\ q.area \notin Redirects
               /\ "resourceUrl" \notin DOMAIN data => q.location = p.location
<1> DEFINE d == SetData(Unlock(p), data, given)
           g == GetArea(d)
           q == Routed(p, data, given)
<1>1. /\ d \in PageRecord(d) /\ d.location = p.location /\ d.seen = p.seen
      /\ d.initial = p.initial /\ d.cameFrom = p.cameFrom /\ d.app = p.app
      /\ ~d.lock /\ d.pending = NoLocation /\ d.data = data /\ d.given = given
  BY DEF SetData, Unlock, PageTypes, PageRecord
<1>2. IsPlain(NoLocation)
  BY DEF NoLocation, Area, Location, IsPlain, IsLocation, Areas, Prefix, Redirects
<1>3. "resourceUrl" \in DOMAIN data => data["resourceUrl"] = p.location
  BY DEF DataAreOf
<1> HIDE DEF d
<1>4. PageTypes(d)
  BY <1>1, <1>2, <1>3 DEF PageTypes
<1>5. /\ PageTypes(g) /\ g.area = Prefix(p.location) /\ g.location = p.location
      /\ g.seen = p.seen /\ ~g.lock /\ g.data = data /\ g.given = given /\ g.pending = NoLocation
  BY <1>1, <1>4, GetAreaTypes
<1> DEFINE l == Reverse(d)
<1>6. q = [[g EXCEPT !.location = l] EXCEPT !.blockTemplate = FALSE]
  BY DEF Routed, ToLocation, d
<1>7. /\ IsLocation(l) /\ Prefix(l) = Prefix(p.location)
      /\ "resourceUrl" \notin DOMAIN data => l = p.location
  <2>1. CASE "resourceUrl" \notin DOMAIN data
    BY <1>1, <2>1 DEF Reverse, IsPlain
  <2>2. CASE "resourceUrl" \in DOMAIN data
    <3> DEFINE search == given \cap PageAt(p.app, p.location).search
    <3>1. l = [p.location EXCEPT !.search = search]
      BY <1>1, <1>3, <2>2 DEF Reverse
    <3> HIDE DEF search, l
    <3>2. IsLocation(p.location)
      BY DEF IsPlain
    <3>3. l.area = p.location.area /\ l.embed = p.location.embed /\ IsLocation(l)
      BY <3>1, <3>2 DEF IsLocation
    <3> QED
      BY <2>2, <3>3 DEF Prefix
  <2> QED
    BY <2>1, <2>2
<1> HIDE DEF g, l, q
<1>8. /\ q \in PageRecord(q) /\ q.location = l /\ q.seen = p.seen /\ q.area = g.area
      /\ q.initial = g.initial /\ q.cameFrom = g.cameFrom
      /\ ~q.lock /\ q.pending = NoLocation /\ q.data = data /\ ~q.blockTemplate
  BY <1>5, <1>6 DEF PageTypes, PageRecord
<1>9. PageTypes(q)
  BY <1>2, <1>3, <1>5, <1>7, <1>8 DEF PageTypes
<1>10. q.area = Prefix(q.location) /\ q.area \notin Redirects
  BY <1>5, <1>7, <1>8 DEF IsPlain
<1>11. q.location = q.seen => Following(q)
  BY <1>8, <1>10 DEF Following
<1> QED
  BY <1>7, <1>8, <1>9, <1>10, <1>11 DEF Unwatched, IsFine, q

\* Routing a location whose area is entered.
LEMMA RouteSettles ==
    ASSUME NEW p, PageTypes(p), ~p.lock, p.seen = p.location, p.area = Prefix(p.location),
           p.area \notin Redirects
    PROVE  PageInv(Route(p))
<1>0. IsPlain(p.location)
  BY DEF IsPlain, PageTypes
<1>1. CASE p.location.area \in DefaultRoutes
  <2> DEFINE data == [_path |-> p.location]
             q == Routed(p, data, p.location.search)
  <2>1. Route(p) = q
    BY <1>1 DEF Route
  <2>2. DOMAIN data = {"_path"} /\ DataAreOf(data, p.location)
    BY DEF DataAreOf
  <2> HIDE DEF data
  <2>3. /\ Unwatched(q) /\ q.seen = p.seen /\ q.location = p.location
        /\ q.area = Prefix(q.location) /\ q.area \notin Redirects
    BY <1>0, <2>2, RoutedIsUnwatched
  <2> QED
    BY <2>1, <2>3 DEF PageInv, Unwatched
<1>2. CASE p.location.area \notin DefaultRoutes /\ p.location.page = BadPath
  <2> DEFINE q == [p EXCEPT !.lock = TRUE]
  <2>1. Route(p) = q
    BY <1>2 DEF Route
  <2>2. /\ q \in PageRecord(q) /\ q.lock /\ q.location = p.location /\ q.seen = p.seen
        /\ q.cameFrom = p.cameFrom /\ q.initial = p.initial /\ q.pending = p.pending
        /\ q.data = p.data /\ q.area = p.area /\ q.blockTemplate = p.blockTemplate
    BY DEF PageTypes, PageRecord
  <2> HIDE DEF q
  <2> QED
    BY <2>1, <2>2 DEF PageTypes, PageInv, IsFine
<1>3. CASE p.location.area \notin DefaultRoutes /\ p.location.page # BadPath
  <2> DEFINE q == [[p EXCEPT !.lock = TRUE] EXCEPT !.pending = p.location, !.phase = "resource"]
  <2>1. Route(p) = q
    BY <1>3 DEF Route
  <2>2. /\ q \in PageRecord(q) /\ q.lock /\ q.location = p.location /\ q.seen = p.seen
        /\ q.cameFrom = p.cameFrom /\ q.initial = p.initial /\ q.pending = p.location
        /\ q.data = p.data /\ q.area = p.area /\ q.blockTemplate = p.blockTemplate
    BY DEF PageTypes, PageRecord
  <2> HIDE DEF q
  <2> QED
    BY <1>0, <2>1, <2>2 DEF PageTypes, PageInv, IsFine
<1> QED
  BY <1>1, <1>2, <1>3

\* An area that redirects.
LEMMA SkippedTypes ==
    ASSUME NEW p, PageTypes(p)
    PROVE  LET q == Skipped(p)
           IN  /\ PageTypes(q) /\ q.seen = q.location /\ ~q.location.embed
               /\ q.lock = p.lock /\ q.stranded = p.stranded
               /\ q.blockTemplate = (p.blockTemplate \/ p.area # Prefix(p.location))
<1> DEFINE g == GetArea(p)
           l == SkipTo(p)
           q == [g EXCEPT !.location = l, !.seen = l]
<1>1. /\ PageTypes(g) /\ g.lock = p.lock /\ g.stranded = p.stranded
      /\ g.blockTemplate = (p.blockTemplate \/ p.area # Prefix(p.location))
  BY GetAreaTypes
<1>2. IsLocation(l) /\ ~l.embed
  <2>1. CASE p.location.embed
    <3>1. IsLocation(p.location) /\ l = [p.location EXCEPT !.embed = FALSE]
      BY <2>1 DEF SkipTo, PageTypes
    <3> HIDE DEF l
    <3> QED
      BY <3>1 DEF IsLocation
  <2>2. CASE ~p.location.embed
    BY <2>2 DEF SkipTo, PageTypes
  <2> QED
    BY <2>1, <2>2
<1> HIDE DEF l, g
<1>3. /\ q \in PageRecord(q) /\ q.location = l /\ q.seen = l /\ q.lock = g.lock
      /\ q.stranded = g.stranded /\ q.blockTemplate = g.blockTemplate /\ q.data = g.data
      /\ q.cameFrom = g.cameFrom /\ q.initial = g.initial /\ q.pending = g.pending
  BY <1>1 DEF PageTypes, PageRecord
<1>4. q = Skipped(p)
  BY DEF Skipped, l, g
<1> HIDE DEF q
<1>5. PageTypes(q)
  BY <1>1, <1>2, <1>3 DEF PageTypes
<1> QED
  BY <1>1, <1>2, <1>3, <1>4, <1>5

\* fromLocation.
LEMMA FromLocationSettles ==
    ASSUME NEW o, Unrouted(o)
    PROVE  PageInv(FromLocation(o))
<1> DEFINE p == [o EXCEPT !.stranded = FALSE]
           k == Skipped(p)
           q == GetArea(k)
<1>1. /\ p \in PageRecord(p) /\ p.location = o.location /\ p.seen = o.seen /\ p.lock = o.lock
      /\ p.area = o.area /\ p.blockTemplate = o.blockTemplate /\ p.data = o.data
      /\ p.cameFrom = o.cameFrom /\ p.initial = o.initial /\ p.pending = o.pending
  BY DEF Unrouted, PageTypes, PageRecord
<1>2. FromLocation(o) =
          IF Prefix(p.location) \notin Redirects THEN Route(GetArea(p))
          ELSE IF Prefix(q.location) = "" THEN [q EXCEPT !.stranded = TRUE] ELSE Route(q)
  BY DEF FromLocation
<1> HIDE DEF p
<1>3. PageTypes(p) /\ p.seen = p.location /\ ~p.lock
  BY <1>1 DEF Unrouted, PageTypes
<1>4. /\ PageTypes(k) /\ k.seen = k.location /\ ~k.location.embed /\ ~k.lock
      /\ k.blockTemplate = (p.blockTemplate \/ p.area # Prefix(p.location))
  BY <1>3, SkippedTypes
<1> HIDE DEF k
<1>5. /\ PageTypes(q) /\ q.seen = q.location /\ ~q.location.embed /\ ~q.lock
      /\ q.area = Prefix(q.location)
      /\ q.blockTemplate = (k.blockTemplate \/ k.area # Prefix(k.location))
  BY <1>4, GetAreaTypes
<1> HIDE DEF q
<1>6. CASE Prefix(p.location) \notin Redirects
  <2> DEFINE g == GetArea(p)
  <2>1. /\ PageTypes(g) /\ ~g.lock /\ g.seen = g.location /\ g.area = Prefix(g.location)
        /\ g.location = p.location
    BY <1>3, GetAreaTypes
  <2> QED
    BY <1>2, <1>6, <2>1, RouteSettles
<1>7. CASE Prefix(p.location) \in Redirects /\ Prefix(q.location) = ""
  <2> DEFINE r == [q EXCEPT !.stranded = TRUE]
  <2>1. k.blockTemplate
    BY <1>1, <1>4, <1>7 DEF Unrouted
  <2>2. q.blockTemplate
    BY <1>5, <2>1
  <2>3. /\ r \in PageRecord(r) /\ r.location = q.location /\ r.seen = q.seen /\ r.lock = q.lock
        /\ r.stranded /\ r.blockTemplate = q.blockTemplate /\ r.data = q.data
        /\ r.cameFrom = q.cameFrom /\ r.initial = q.initial /\ r.pending = q.pending
    BY <1>5 DEF PageTypes, PageRecord
  <2>4. FromLocation(o) = r
    BY <1>2, <1>7
  <2> HIDE DEF r
  <2>5. PageTypes(r)
    BY <1>5, <2>3 DEF PageTypes
  <2> QED
    BY <1>5, <2>2, <2>3, <2>4, <2>5 DEF PageInv, IsFine
<1>8. CASE Prefix(p.location) \in Redirects /\ Prefix(q.location) # ""
  <2>1. q.area \notin Redirects
    <3>1. q.area = q.location.area /\ q.location.area \in Areas
      BY <1>5 DEF Prefix, PageTypes, IsLocation
    <3> QED
      BY <1>5, <1>8, <3>1 DEF Areas, Redirects
  <2> QED
    BY <1>2, <1>5, <1>8, <2>1, RouteSettles
<1> QED
  BY <1>6, <1>7, <1>8

\* The watches of a digest, on the location and on the template.
LEMMA WatchSettles ==
    ASSUME NEW p, Unwatched(p)
    PROVE  PageInv(WatchLocation(p))
<1>0. PageTypes(p)
  BY DEF Unwatched
<1>1. CASE p.location = p.seen /\ p.blockTemplate
  BY <1>1 DEF WatchLocation, WatchTemplate, Unwatched, PageInv
<1>2. CASE p.location = p.seen /\ ~p.blockTemplate
  <2> DEFINE g == GetArea(p)
  <2>1. Prefix(p.location) \notin Redirects /\ IsFine(p)
    BY <1>2 DEF Unwatched
  <2>2. WatchLocation(p) = g
    BY <1>2, <2>1 DEF WatchLocation, WatchTemplate
  <2>3. /\ PageTypes(g) /\ g.area = Prefix(g.location) /\ g.location = p.location
        /\ g.blockTemplate = (p.blockTemplate \/ p.area # Prefix(p.location))
        /\ g.seen = p.seen /\ g.lock = p.lock /\ g.stranded = p.stranded /\ g.data = p.data
    BY <1>0, GetAreaTypes
  <2> HIDE DEF g
  <2>4. IsFine(g)
    BY <2>1, <2>3 DEF IsFine, Following
  <2> QED
    BY <1>2, <2>1, <2>2, <2>3, <2>4 DEF PageInv
<1>3. CASE p.location # p.seen
  <2> DEFINE q == [p EXCEPT !.seen = p.location]
  <2>1. /\ q \in PageRecord(q) /\ q.location = p.location /\ q.seen = p.location /\ q.lock = p.lock
        /\ q.area = p.area /\ q.blockTemplate = p.blockTemplate /\ q.data = p.data
        /\ q.cameFrom = p.cameFrom /\ q.initial = p.initial /\ q.pending = p.pending
    BY <1>0 DEF PageTypes, PageRecord
  <2>2. WatchLocation(p) = IF q.lock THEN WatchTemplate(q) ELSE FromLocation(q)
    BY <1>3 DEF WatchLocation
  <2> HIDE DEF q
  <2>3. PageTypes(q)
    BY <1>0, <2>1 DEF PageTypes
  <2>4. q.blockTemplate \/ q.area \notin Redirects
    BY <1>3, <2>1 DEF Unwatched
  <2>5. CASE ~q.lock
    BY <2>1, <2>2, <2>3, <2>4, <2>5, FromLocationSettles DEF Unrouted
  <2>6. CASE q.lock /\ q.blockTemplate
    BY <2>1, <2>2, <2>3, <2>6 DEF WatchTemplate, PageInv, IsFine
  <2>7. CASE q.lock /\ ~q.blockTemplate /\ Prefix(q.location) \in Redirects
    <3> DEFINE k == Skipped(q)
    <3>1. WatchLocation(p) = k
      BY <2>2, <2>7 DEF WatchTemplate
    <3>2. /\ PageTypes(k) /\ k.seen = k.location /\ k.lock
          /\ k.blockTemplate = (q.blockTemplate \/ q.area # Prefix(q.location))
      BY <2>3, <2>7, SkippedTypes
    <3> HIDE DEF k
    <3>3. k.blockTemplate
      BY <2>4, <2>7, <3>2
    <3> QED
      BY <3>1, <3>2, <3>3 DEF PageInv, IsFine
  <2>8. CASE q.lock /\ ~q.blockTemplate /\ Prefix(q.location) \notin Redirects
    <3> DEFINE g == GetArea(q)
    <3>1. WatchLocation(p) = g
      BY <2>2, <2>8 DEF WatchTemplate
    <3>2. /\ PageTypes(g) /\ g.area = Prefix(g.location) /\ g.location = q.location
          /\ g.seen = q.seen /\ g.lock
      BY <2>3, <2>8, GetAreaTypes
    <3> HIDE DEF g
    <3> QED
      BY <2>1, <2>8, <3>1, <3>2 DEF PageInv, IsFine
  <2> QED
    BY <2>5, <2>6, <2>7, <2>8
<1> QED
  BY <1>1, <1>2, <1>3

\* A page whose location was changed, and what a property remembers of it.
LEMMA MovedIsUnwatched ==
    ASSUME NEW p, PageInv(p), NEW q, q \in PageRecord(q),
           IsLocation(q.location), IsLocation(q.cameFrom), q.initial = p.initial,
           q.seen = p.seen, q.lock = p.lock, q.pending = p.pending, q.area = p.area,
           q.blockTemplate = p.blockTemplate, q.data = p.data, q.stranded = p.stranded
    PROVE  Unwatched(q)
<1>1. PageTypes(q)
  BY DEF PageInv, PageTypes
<1>2. q.location = q.seen => IsFine(q)
  BY DEF PageInv, IsFine, Following
<1> QED
  BY <1>1, <1>2 DEF PageInv, Unwatched

\* Locations that are made here.
LEMMA MadeLocations ==
    ASSUME NEW x
    PROVE  /\ IsPlain(Resource(x)) /\ IsLocation(Resource(x))
           /\ \A area \in Areas : IsLocation(Area(area)) /\ Prefix(Area(area)) = area
           /\ IsPlain(NoLocation) /\ IsLocation(NoLocation) /\ IsLocation(HomePage)
           /\ IsLocation(Bookmark(x))
  BY DEF Resource, Area, Location, NoLocation, HomePage, Bookmark, IsPlain, IsLocation,
         Areas, Prefix, Redirects

\* The user goes somewhere, and the way he came may be kept.
LEMMA GoIsUnwatched ==
    ASSUME NEW p, PageInv(p), NEW location, IsLocation(location)
    PROVE  Unwatched(Go(p, location))
<1> DEFINE q == Go(p, location)
<1>1. /\ q \in PageRecord(q) /\ q.location = location /\ q.cameFrom = p.cameFrom
      /\ q.initial = p.initial /\ q.seen = p.seen /\ q.lock = p.lock /\ q.pending = p.pending
      /\ q.area = p.area /\ q.blockTemplate = p.blockTemplate /\ q.data = p.data
      /\ q.stranded = p.stranded
  BY DEF Go, PageInv, PageTypes, PageRecord
<1>2. IsLocation(p.cameFrom)
  BY DEF PageInv, PageTypes
<1> HIDE DEF q
<1> QED
  BY <1>1, <1>2, MovedIsUnwatched DEF q

\* To where he came from.
LEMMA GoBackIsUnwatched ==
    ASSUME NEW p, PageInv(p)
    PROVE  Unwatched(GoToCameFrom(p, Area("")))
<1>1. IsLocation(p.cameFrom) /\ IsLocation(Area(""))
  BY MadeLocations DEF PageInv, PageTypes, Areas
<1> QED
  BY <1>1, GoIsUnwatched DEF GoToCameFrom

\* setCameFrom changes nothing else.
LEMMA SetCameFromSettles ==
    ASSUME NEW p, PageInv(p)
    PROVE  PageInv(SetCameFrom(p))
<1> DEFINE q == [p EXCEPT !.cameFrom = p.location]
<1>1. /\ q \in PageRecord(q) /\ q.location = p.location /\ q.cameFrom = p.location
      /\ q.initial = p.initial /\ q.seen = p.seen /\ q.lock = p.lock /\ q.pending = p.pending
      /\ q.area = p.area /\ q.blockTemplate = p.blockTemplate /\ q.data = p.data
      /\ q.stranded = p.stranded
  BY DEF PageInv, PageTypes, PageRecord
<1>2. SetCameFrom(p) \in {p, q}
  BY DEF SetCameFrom
<1> HIDE DEF q
<1>3. PageInv(q)
  BY <1>1 DEF PageInv, PageTypes, IsFine, Following
<1> QED
  BY <1>2, <1>3

\* The lock is given up.
LEMMA UnlockTypes ==
    ASSUME NEW p, PageTypes(p)
    PROVE  LET q == Unlock(p)
           IN  /\ PageTypes(q) /\ ~q.lock /\ q.location = p.location /\ q.seen = p.seen
               /\ q.area = p.area /\ q.blockTemplate = p.blockTemplate
               /\ q.data = p.data /\ q.stranded = p.stranded /\ q.cameFrom = p.cameFrom
               /\ q.initial = p.initial /\ q.pending = NoLocation
<1> DEFINE q == Unlock(p)
<1>1. /\ q \in PageRecord(q) /\ ~q.lock /\ q.location = p.location /\ q.seen = p.seen
      /\ q.area = p.area /\ q.blockTemplate = p.blockTemplate
      /\ q.data = p.data /\ q.stranded = p.stranded /\ q.cameFrom = p.cameFrom
      /\ q.initial = p.initial /\ q.pending = NoLocation
  BY DEF Unlock, PageTypes, PageRecord
<1> HIDE DEF q
<1>2. PageTypes(q)
  BY <1>1, MadeLocations DEF PageTypes
<1> QED
  BY <1>1, <1>2 DEF q

\* A route that was waited for: its answer, or the location that is there now.
LEMMA AnswerIsUnwatched ==
    ASSUME NEW p, PageInv(p), NEW done, p.location = p.pending => Unwatched(done)
    PROVE  Unwatched(Answer(p, done))
<1> DEFINE u == Unlock(p)
<1>0. /\ PageTypes(u) /\ ~u.lock /\ u.location = p.location /\ u.seen = p.location
      /\ u.area = p.area /\ u.blockTemplate = p.blockTemplate
  BY UnlockTypes DEF PageInv
<1>1. CASE p.location = p.pending
  BY <1>1 DEF Answer
<1>2. CASE p.location # p.pending /\ p.location.page = BadPath
  <2> DEFINE g == GetArea(u)
             q == [g EXCEPT !.stranded = TRUE]
  <2>1. /\ PageTypes(g) /\ g.area = Prefix(g.location) /\ ~g.lock
        /\ g.blockTemplate = (u.blockTemplate \/ u.area # Prefix(u.location))
        /\ g.location = u.location /\ g.seen = u.seen
    BY <1>0, GetAreaTypes
  <2>2. Answer(p, done) = q
    BY <1>2 DEF Answer
  <2> HIDE DEF g, u
  <2>3. /\ q \in PageRecord(q) /\ q.stranded /\ q.lock = g.lock /\ q.location = g.location
        /\ q.seen = g.seen /\ q.area = g.area /\ q.blockTemplate = g.blockTemplate
        /\ q.data = g.data /\ q.cameFrom = g.cameFrom /\ q.initial = g.initial
        /\ q.pending = g.pending
    BY <2>1 DEF PageTypes, PageRecord
  <2> HIDE DEF q
  <2>4. PageTypes(q)
    BY <2>1, <2>3 DEF PageTypes
  <2>5. q.blockTemplate \/ q.area \notin Redirects
    BY <1>0, <2>1, <2>3 DEF PageInv
  <2> QED
    BY <1>0, <2>1, <2>2, <2>3, <2>4, <2>5 DEF Unwatched, IsFine
<1>3. CASE p.location # p.pending /\ p.location.page # BadPath
  <2> DEFINE q == [u EXCEPT !.seen = p.location]
  <2>1. Answer(p, done) = FromLocation(q)
    BY <1>3 DEF Answer
  <2> HIDE DEF u
  <2>2. q = u
    BY <1>0 DEF PageTypes, PageRecord
  <2>3. Unrouted(u)
    BY <1>0 DEF Unrouted, PageInv
  <2> QED
    BY <2>1, <2>2, <2>3, FromLocationSettles, SettledIsUnwatched
<1> QED
  BY <1>1, <1>2, <1>3

\* An error under the location of the route.
LEMMA ErrorIsUnwatched ==
    ASSUME NEW p, PageInv(p), p.location = p.pending
    PROVE  Unwatched(RoutedToError(p))
<1> DEFINE u == Unlock(p)
           q == RoutedToError(p)
<1>0. /\ PageTypes(u) /\ ~u.lock /\ u.location = p.location /\ u.seen = p.location
      /\ u.area = p.area /\ u.blockTemplate = p.blockTemplate
  BY UnlockTypes DEF PageInv
<1>1. q = [[u EXCEPT !.data = [space |-> p.location], !.given = {}] EXCEPT
               !.blockTemplate = FALSE, !.stranded = p.area # Prefix(p.location)]
  BY DEF RoutedToError, SetData
<1> HIDE DEF u, q
<1>2. /\ q \in PageRecord(q) /\ q.location = p.location /\ q.seen = p.location /\ ~q.lock
      /\ q.pending = u.pending /\ q.initial = u.initial /\ q.cameFrom = u.cameFrom
      /\ q.area = p.area /\ ~q.blockTemplate /\ q.data = [space |-> p.location]
      /\ q.stranded = (p.area # Prefix(p.location))
  BY <1>0, <1>1 DEF PageTypes, PageRecord
<1>3. PageTypes(q)
  BY <1>0, <1>2 DEF PageTypes
<1>4. IsFine(q)
  <2>1. DataAreOf(q.data, p.location)
    BY <1>2 DEF DataAreOf
  <2> QED
    BY <1>2, <2>1 DEF IsFine, Following
<1>5. Prefix(q.location) \notin Redirects
  BY <1>2 DEF PageInv, PageTypes, IsPlain
<1> QED
  BY <1>2, <1>3, <1>4, <1>5 DEF Unwatched, q

\* A route that failed.
LEMMA FailureIsUnwatched ==
    ASSUME NEW p, PageInv(p), NEW code, NEW loggedIn
    PROVE  Unwatched(HandleRoutingError(p, code, loggedIn))
<1>1. CASE code = 401 /\ ~loggedIn
  <2> DEFINE d == Divert(p)
             u == Unlock(d)
             c == SetCameFrom(u)
             q == [[c EXCEPT !.location = Area("login")] EXCEPT
                      !.stranded = p.location = Area("login")]
  <2>1. HandleRoutingError(p, code, loggedIn) = q
    BY <1>1 DEF HandleRoutingError, SetCameFromAndGo
  <2>2. /\ d \in PageRecord(d) /\ d.location = p.location /\ d.seen = p.seen /\ d.lock = p.lock
        /\ d.pending = p.pending /\ d.initial = p.initial /\ d.cameFrom = p.cameFrom
        /\ d.area = p.area /\ d.blockTemplate = p.blockTemplate /\ d.data = p.data
    BY DEF Divert, PageInv, PageTypes, PageRecord
  <2> HIDE DEF d
  <2>3. PageTypes(d)
    BY <2>2 DEF PageInv, PageTypes
  <2>4. /\ PageTypes(u) /\ ~u.lock /\ u.location = p.location /\ u.seen = p.seen
        /\ u.area = p.area /\ u.blockTemplate = p.blockTemplate /\ u.pending = NoLocation
    BY <2>2, <2>3, UnlockTypes
  <2> HIDE DEF u
  <2>5. /\ c \in PageRecord(c) /\ IsLocation(c.cameFrom) /\ c.seen = u.seen /\ c.lock = u.lock
        /\ c.pending = u.pending /\ c.initial = u.initial
        /\ c.area = u.area /\ c.blockTemplate = u.blockTemplate /\ c.data = u.data
    BY <2>4 DEF SetCameFrom, PageTypes, PageRecord
  <2> HIDE DEF c
  <2>6. /\ q \in PageRecord(q) /\ q.location = Area("login") /\ q.seen = c.seen
        /\ q.lock = c.lock /\ q.pending = c.pending /\ q.initial = c.initial
        /\ q.area = c.area /\ q.blockTemplate = c.blockTemplate /\ q.data = c.data
        /\ q.cameFrom = c.cameFrom /\ q.stranded = (p.location = Area("login"))
    BY <2>5 DEF PageRecord
  <2> HIDE DEF q
  <2>7. IsLocation(Area("login")) /\ Prefix(Area("login")) = "login"
    BY MadeLocations DEF Areas
  <2>8. PageTypes(q)
    BY <2>4, <2>5, <2>6, <2>7 DEF PageTypes
  <2>9. q.location = q.seen => q.stranded /\ Prefix(q.location) \notin Redirects
    BY <2>4, <2>5, <2>6, <2>7 DEF PageInv, Redirects
  <2>10. q.blockTemplate \/ q.area \notin Redirects
    BY <2>4, <2>5, <2>6 DEF PageInv
  <2> QED
    BY <2>1, <2>8, <2>9, <2>10 DEF Unwatched, IsFine
<1>2. CASE ~(code = 401 /\ ~loggedIn)
  BY <1>2, ErrorIsUnwatched, AnswerIsUnwatched DEF HandleRoutingError
<1> QED
  BY <1>1, <1>2

\* A route that has its data.
LEMMA TakeIsUnwatched ==
    ASSUME NEW p, PageInv(p)
    PROVE  /\ Unwatched(Take(p))
           /\ Unwatched(Answer(p, Routed(p, [_path |-> p.pending], p.pending.search)))
<1>1. ASSUME NEW data, DataAreOf(data, p.pending), p.location = p.pending
      PROVE  Unwatched(Routed(p, data, p.pending.search))
  BY <1>1, RoutedIsUnwatched DEF PageInv, PageTypes
<1>2. DataAreOf(PageData(p), p.pending)
  BY DEF PageData, DataAreOf
<1>3. DataAreOf([_path |-> p.pending], p.pending)
  BY DEF DataAreOf
<1> QED
  BY <1>1, <1>2, <1>3, AnswerIsUnwatched DEF Take

\* The resource of a route is there.
LEMMA ResourceIsUnwatched ==
    ASSUME NEW p, PageInv(p)
    PROVE  Unwatched(OnResource(p))
<1>1. CASE p.pending.old
  <2> DEFINE d == Divert(p)
             l == [Resource(p.pending.page) EXCEPT !.search = p.location.search]
             q == [d EXCEPT !.location = l]
             u == Unlock(q)
             f == [u EXCEPT !.seen = q.location]
  <2>1. OnResource(p) = FromLocation(f)
    BY <1>1 DEF OnResource
  <2>2. IsPlain(l)
    BY DEF Resource, Location, IsPlain, IsLocation, Areas, Prefix, Redirects
  <2> HIDE DEF l
  <2>3. /\ d \in PageRecord(d) /\ d.lock = p.lock
        /\ d.pending = p.pending /\ d.initial = p.initial /\ d.cameFrom = p.cameFrom
        /\ d.data = p.data
    BY DEF Divert, PageInv, PageTypes, PageRecord
  <2> HIDE DEF d
  <2>4. /\ q \in PageRecord(q) /\ q.location = l /\ q.lock = p.lock
        /\ q.pending = p.pending /\ q.initial = p.initial /\ q.cameFrom = p.cameFrom
        /\ q.data = p.data
    BY <2>3 DEF PageRecord
  <2> HIDE DEF q
  <2>5. PageTypes(q)
    BY <2>2, <2>4 DEF PageInv, PageTypes, IsPlain
  <2>6. PageTypes(u) /\ ~u.lock /\ u.location = l
    BY <2>4, <2>5, UnlockTypes
  <2> HIDE DEF u
  <2>7. /\ f \in PageRecord(f) /\ f.location = l /\ f.seen = l /\ f.lock = u.lock
        /\ f.pending = u.pending /\ f.initial = u.initial /\ f.cameFrom = u.cameFrom
        /\ f.data = u.data
    BY <2>4, <2>6 DEF PageTypes, PageRecord
  <2> HIDE DEF f
  <2>8. PageTypes(f)
    BY <2>6, <2>7 DEF PageTypes
  <2>9. Unrouted(f)
    BY <2>2, <2>6, <2>7, <2>8 DEF Unrouted, IsPlain
  <2> QED
    BY <2>1, <2>9, FromLocationSettles, SettledIsUnwatched
<1>2. CASE ~p.pending.old
  <2> DEFINE q == [p EXCEPT !.phase = "options"]
  <2>1. /\ q \in PageRecord(q) /\ q.location = p.location /\ q.cameFrom = p.cameFrom
        /\ q.initial = p.initial /\ q.seen = p.seen /\ q.lock = p.lock /\ q.pending = p.pending
        /\ q.area = p.area /\ q.blockTemplate = p.blockTemplate /\ q.data = p.data
        /\ q.stranded = p.stranded
    BY DEF PageInv, PageTypes, PageRecord
  <2> HIDE DEF q
  <2>2. Unwatched(q)
    BY <2>1, MovedIsUnwatched DEF PageInv, PageTypes
  <2>3. \/ OnResource(p) = Answer(p, Routed(p, [_path |-> p.pending], p.pending.search))
        \/ OnResource(p) = HandleRoutingError(p, 404, TRUE)
        \/ OnResource(p) = Take(p)
        \/ OnResource(p) = q
    BY <1>2 DEF OnResource, q
  <2> QED
    BY <2>2, <2>3, TakeIsUnwatched, FailureIsUnwatched
<1> QED
  BY <1>1, <1>2

\* A column takes the focus of the page that is shown.
LEMMA FocusIsUnwatched ==
    ASSUME NEW p, PageInv(p), ~p.blockTemplate, p.area = "r", "resourceUrl" \in DOMAIN p.data
    PROVE  Unwatched(SetFocus(p))
<1> DEFINE data == [key \in DOMAIN p.data \cup {"focus"} |->
                       p.data[IF key = "focus" THEN "resourceUrl" ELSE key]]
           d == [p EXCEPT !.data = data, !.given = @ \cup {"focus"},
                          !.diverted = @ \/ p.lock \/ p.stranded]
           g == GetArea(d)
           q == [g EXCEPT !.location = Reverse(d)]
<1>1. /\ data["resourceUrl"] = p.data["resourceUrl"]
      /\ DOMAIN data \ {"focus"} = DOMAIN p.data \ {"focus"}
      /\ "resourceUrl" \in DOMAIN data
      /\ \A key \in DOMAIN p.data \ {"focus"} : data[key] = p.data[key]
  OBVIOUS
<1> HIDE DEF data
<1>2. /\ d \in PageRecord(d) /\ d.location = p.location /\ d.seen = p.seen /\ d.lock = p.lock
      /\ d.pending = p.pending /\ d.initial = p.initial /\ d.cameFrom = p.cameFrom
      /\ d.area = p.area /\ ~d.blockTemplate /\ d.data = data /\ d.stranded = p.stranded
  BY DEF PageInv, PageTypes, PageRecord
<1>3. q = SetFocus(p)
  BY DEF SetFocus, ToLocation, data
<1> HIDE DEF d
<1>4. PageTypes(d)
  BY <1>1, <1>2 DEF PageInv, PageTypes
<1>5. /\ PageTypes(g) /\ g.area = p.area /\ g.location = p.location
      /\ g.seen = p.seen /\ g.lock = p.lock /\ g.data = data /\ g.pending = p.pending
      /\ g.stranded = p.stranded /\ ~g.blockTemplate /\ p.area = Prefix(p.location)
  <2>1. p.area = Prefix(p.location)
    BY DEF PageInv
  <2>2. /\ PageTypes(g) /\ g.area = Prefix(g.location)
        /\ g.blockTemplate = (d.blockTemplate \/ d.area # Prefix(d.location))
        /\ g.location = d.location /\ g.seen = d.seen /\ g.lock = d.lock
        /\ g.pending = d.pending /\ g.data = d.data /\ g.stranded = d.stranded
    BY <1>4, GetAreaTypes
  <2> HIDE DEF g
  <2> QED
    BY <1>2, <2>1, <2>2
<1> DEFINE source == p.data["resourceUrl"]
           search == d.given \cap PageAt(d.app, source).search
           location == Reverse(d)
<1>6. location = [source EXCEPT !.search = search]
  BY <1>1, <1>2 DEF Reverse
<1>7. IsPlain(source)
  BY DEF PageInv, PageTypes
<1> HIDE DEF g, search, source, location
<1>8. IsPlain(location)
  <2>1. IsLocation(source)
    BY <1>7 DEF IsPlain
  <2>2. IsLocation(location) /\ location.area = source.area /\ location.embed = source.embed
    BY <1>6, <2>1 DEF IsLocation
  <2> QED
    BY <1>7, <2>2 DEF IsPlain, Prefix
<1>9. /\ q \in PageRecord(q) /\ q.location = location /\ q.seen = p.seen /\ q.lock = p.lock
      /\ q.pending = p.pending /\ q.initial = g.initial /\ q.cameFrom = g.cameFrom
      /\ q.area = p.area /\ ~q.blockTemplate /\ q.data = data /\ q.stranded = p.stranded
  BY <1>5 DEF PageTypes, PageRecord, location
<1> HIDE DEF q
<1>10. PageTypes(q)
  BY <1>1, <1>5, <1>7, <1>8, <1>9 DEF PageTypes, PageInv, IsPlain, source
<1>11. q.location = q.seen => IsFine(q)
  <2> SUFFICES ASSUME q.location = q.seen, ~p.lock, ~p.stranded
               PROVE  Following(q)
    BY <1>9 DEF IsFine
  <2>1. Following(p) /\ q.location = p.location
    BY <1>9 DEF PageInv, IsFine
  <2>2. DataAreOf(q.data, p.location)
    BY <1>1, <1>9, <2>1 DEF Following, DataAreOf
  <2> QED
    BY <1>5, <1>9, <2>1, <2>2 DEF Following
<1> QED
  BY <1>3, <1>8, <1>9, <1>10, <1>11 DEF Unwatched, IsPlain, Redirects

\* A page that was just opened, within another one.
LEMMA NewIsUnwatched ==
    ASSUME NEW app, NEW url, IsLocation(url)
    PROVE  Unwatched(NewPage(app, [url EXCEPT !.embed = TRUE]))
<1> DEFINE location == [url EXCEPT !.embed = TRUE]
           p == NewPage(app, location)
<1>1. IsLocation(location) /\ location.embed
  BY DEF IsLocation
<1> HIDE DEF location
<1>2. IsLocation(Initial(location)) /\ ~Initial(location).embed
  <2> DEFINE l == [location EXCEPT !.embed = FALSE]
  <2>1. IsLocation(l) /\ ~l.embed
    BY <1>1 DEF IsLocation
  <2>2. IsLocation(Resource(Missing)) /\ ~Resource(Missing).embed
    BY MadeLocations DEF Resource, Location
  <2>3. Initial(location) \in {l, Resource(Missing)}
    BY DEF Initial
  <2> QED
    BY <2>1, <2>2, <2>3
<1>3. /\ p \in PageRecord(p) /\ p.location = location /\ p.initial = Initial(location)
      /\ p.seen = NoLocation /\ p.cameFrom = NoLocation /\ p.pending = NoLocation
      /\ p.area = "none" /\ p.data = <<>>
  BY DEF NewPage, PageRecord
<1> HIDE DEF p
<1>4. DOMAIN p.data = {}
  BY <1>3
<1>5. PageTypes(p)
  BY <1>1, <1>2, <1>3, <1>4, MadeLocations DEF PageTypes
<1>6. ~NoLocation.embed
  BY DEF NoLocation, Area, Location
<1> QED
  BY <1>1, <1>3, <1>5, <1>6 DEF Unwatched, Redirects, p, location

\* The page, and the URL that it starts again from.
RoutingInv == PageInv(page) /\ IsLocation(embedder.url)

\* The URL is known to the embedding page as it was, or as it is now.
LEMMA UrlIsLocation ==
    ASSUME NEW e, NEW s, NEW u, NEW p, PageTypes(p), IsLocation(e.url)
    PROVE  IsLocation(UrlChange(SendLoginState(e, s, u), p).url)
<1> DEFINE k == SendLoginState(e, s, u)
<1>1. IsLocation(k.url)
  BY DEF SendLoginState
<1> QED
  BY <1>1 DEF UrlChange, PageTypes

\* The watches run in every digest.
LEMMA DigestSettles ==
    ASSUME RoutingInv, NEW s, NEW u, NEW p, Unwatched(p), Digest(s, u, p)
    PROVE  RoutingInv'
<1>1. PageInv(page') /\ PageTypes(page')
  BY WatchSettles DEF Digest, PageInv
<1>2. IsLocation(embedder'.url)
  BY <1>1, UrlIsLocation DEF Digest, RoutingInv
<1> QED
  BY <1>1, <1>2 DEF RoutingInv

\* What the sessions do leaves the page to its watches, but for the log-in and for
\* what starts the page again.
LEMMA SessionsSettle ==
    ASSUME RoutingInv, Sessions
    PROVE  RoutingInv'
<1>0. Unwatched(page) /\ PageInv(page)
  BY SettledIsUnwatched DEF RoutingInv
<1>1. ASSUME NEW s, NEW u, Digest(s, u, page)
      PROVE  RoutingInv'
  BY <1>0, <1>1, DigestSettles
<1>2. ASSUME UNCHANGED <<page, embedder>>
      PROVE  RoutingInv'
  BY <1>2 DEF RoutingInv
<1>3. ASSUME NEW t, NEW s, InTab(t, s)
      PROVE  RoutingInv'
  BY <1>1, <1>2, <1>3 DEF InTab, NoDigest
<1>4. CASE \E t \in Tab : Clear(t) \/ StorageEvent(t) \/ LogOut(t)
  BY <1>3, <1>4 DEF Clear, StorageEvent, LogOut
<1>5. CASE \E t \in Tab, token \in Token :
               HeadAnswers(t, token) \/ HeadFails(t, token) \/ OtherLogsIn(t, token)
  BY <1>2, <1>3, <1>5 DEF HeadAnswers, HeadFails, OtherLogsIn, Check, NoDigest
<1>6. CASE \E token \in Token :
               \/ SubmitLogIn(token) \/ SetToken(token)
               \/ UserAnswers(token) \/ UserRefused(token) \/ UserLost(token)
  BY <1>1, <1>2, <1>6
     DEF SubmitLogIn, SetToken, NoDigest, UserAnswers, UserRefused, UserLost
<1>7. CASE \E token \in Token : SaveUser(token)
  <2>1. Unwatched(Go(page, Resource(<<"user", "">>)))
    BY <1>0, GoIsUnwatched, MadeLocations
  <2> QED
    BY <1>7, <2>1, DigestSettles DEF SaveUser
<1>8. CASE LogInAnswers \/ LogInFails
  BY <1>0, <1>1, <1>8, GoBackIsUnwatched, DigestSettles DEF LogInAnswers, LogInFails
<1>9. CASE Setup
  <2> DEFINE e == [embedder EXCEPT !.setup = TRUE]
  <2>1. IsLocation(e.url)
    BY DEF RoutingInv
  <2> HIDE DEF e
  <2>2. embedder' = UrlChange(SendLoginState(e, session, user), page) /\ page' = page
    BY <1>9 DEF Setup, e
  <2> QED
    BY <1>0, <2>1, <2>2, UrlIsLocation DEF RoutingInv, PageInv
<1>10. CASE EmbedderDeletesToken
  BY <1>2, <1>10 DEF EmbedderDeletesToken, NoDigest
<1>11. CASE Reload
  <2>1. /\ page' = WatchLocation(NewPage(page.app, [embedder.url EXCEPT !.embed = TRUE]))
        /\ embedder'.url = embedder.url
    BY <1>11 DEF Reload, NewEmbedder
  <2>2. Unwatched(NewPage(page.app, [embedder.url EXCEPT !.embed = TRUE]))
    BY NewIsUnwatched DEF RoutingInv
  <2> QED
    BY <2>1, <2>2, WatchSettles DEF RoutingInv
<1> QED
  BY <1>4, <1>5, <1>6, <1>7, <1>8, <1>9, <1>10, <1>11 DEF Sessions

\* Where the user goes, and what comes for the routes.
LEMMA NavigationSettles ==
    ASSUME RoutingInv, Navigation \/ Routing
    PROVE  RoutingInv'
<1>0. PageInv(page)
  BY DEF RoutingInv
<1>1. ASSUME NEW s, NEW u, NEW location, IsLocation(location), Digest(s, u, Go(page, location))
      PROVE  RoutingInv'
  BY <1>0, <1>1, GoIsUnwatched, DigestSettles
<1>2. CASE Click
  BY <1>1, <1>2, MadeLocations DEF Click
<1>3. CASE \E mark \in Bookmarks[page.app] : Visit(Bookmark(mark))
  BY <1>1, <1>3, MadeLocations DEF Visit
<1>4. CASE \E area \in {"", "elsewhere"} : Visit(Area(area))
  BY <1>1, <1>4, MadeLocations DEF Visit, Areas
<1>5. CASE \E area \in {"login", "register"} : GoToLogIn(area)
  <2>1. PICK area \in {"login", "register"} :
            Digest(session, user, Go(SetCameFrom(page), Area(area)))
    BY <1>5 DEF GoToLogIn
  <2>2. IsLocation(Area(area))
    BY MadeLocations DEF Areas
  <2> QED
    BY <1>0, <2>1, <2>2, SetCameFromSettles, GoIsUnwatched, DigestSettles
<1>6. CASE Cancel
  BY <1>0, <1>6, GoBackIsUnwatched, DigestSettles DEF Cancel
<1>7. CASE FocusColumn
  <2>1. /\ ~page.blockTemplate /\ page.area = "r" /\ "resourceUrl" \in DOMAIN page.data
        /\ Digest(session, user, SetFocus(page))
    BY <1>7 DEF FocusColumn, ShowingPage, Showing
  <2> QED
    BY <1>0, <2>1, FocusIsUnwatched, DigestSettles
<1>8. CASE ResourceAnswers
  BY <1>0, <1>8, ResourceIsUnwatched, DigestSettles DEF ResourceAnswers
<1>9. CASE ResourceMissing \/ ResourceForbidden
  BY <1>0, <1>9, FailureIsUnwatched, DigestSettles
     DEF ResourceMissing, ResourceForbidden, OnForbidden
<1>10. CASE OptionsAnswer
  <2>1. Unwatched(OnOptions(page, session.tab[This].token = Moderator, LoggedIn))
    BY <1>0, TakeIsUnwatched, FailureIsUnwatched DEF OnOptions
  <2> QED
    BY <1>10, <2>1, DigestSettles DEF OptionsAnswer
<1> QED
  BY <1>2, <1>3, <1>4, <1>5, <1>6, <1>7, <1>8, <1>9, <1>10 DEF Navigation, Routing

\* The page is settled in every state (TopLevelState.ts): its watches have run, and
\* what it shows is of its location, unless the lock is held or it is stranded.
THEOREM PageIsSettled == Spec => []RoutingInv
<1>1. Init => RoutingInv
  BY NewIsUnwatched, WatchSettles, MadeLocations DEF Init, RoutingInv, NewEmbedder
<1>2. RoutingInv /\ [Next]_vars => RoutingInv'
  <2>1. RoutingInv /\ UNCHANGED vars => RoutingInv'
    BY DEF vars, RoutingInv
  <2> QED
    BY <2>1, SessionsSettle, NavigationSettles DEF Next
<1> QED
  BY <1>1, <1>2, PTL DEF Spec

\* Without the lock all data are of the location (TopLevelState.ts): for every
\* workbench, every bookmark and every number of moves.
THEOREM PageAlwaysFollows == Spec => []PageFollowsLocation
<1>1. RoutingInv => PageFollowsLocation
  BY DEF RoutingInv, PageInv, IsFine, Following, DataAreOf, PageFollowsLocation
<1> QED
  BY <1>1, PageIsSettled, PTL

--------------------------------------------------------------------------------
(* Where the user asked to go.                                                  *)

\* A location of the browser: only those of resources have a page and a search.
Real(l) ==
    /\ l.area # "nothing yet"
    /\ l.area # "r" => l.page = NoPage /\ l.search = {} /\ ~l.old
    /\ l.page = BadPath => ~l.old
\* That of a page which is shown.
IsOfPage(app, l) == l.area = "r" /\ ~l.old /\ Has(app, l.page)
WayTypes(p) ==
    /\ p.app \in Apps /\ Real(p.location) /\ Real(p.initial)
    /\ p.cameFrom = NoLocation \/ (Real(p.cameFrom) /\ ~p.cameFrom.embed)
    /\ p.pending # NoLocation =>
         /\ Real(p.pending) /\ p.pending.area \notin DefaultRoutes
         /\ p.phase = "options" => IsOfPage(p.app, p.pending)
    /\ "resourceUrl" \in DOMAIN p.data => IsOfPage(p.app, p.data["resourceUrl"])

\* The location leads to where he asked to go, or the way back from the login.
SameWay(p) ==
    \/ p.diverted
    \/ Unfocused(Target(p, p.location)) = Unfocused(p.wanted)
    \/ /\ p.location = Area("login")
       /\ Unfocused(Target(p, p.cameFrom)) = Unfocused(p.wanted)
\* The location is where it leads to; an error is shown at any.
IsNormal(p) ==
    \/ Unfocused(Target(p, p.location)) = Unfocused(p.location)
    \/ "space" \in DOMAIN p.data
\* The page has what the search of its location gave.
IsGiven(p) ==
    \/ p.stranded
    \/ "resourceUrl" \notin DOMAIN p.data
    \/ p.given \ {"focus"} = p.location.search \ {"focus"}

\* As PageInv, Unwatched and Unrouted.
WayInv(p) ==
    WayTypes(p) /\ SameWay(p) /\ ~p.location.embed /\ (p.lock \/ (IsNormal(p) /\ IsGiven(p)))
UnwatchedWay(p) ==
    /\ WayTypes(p) /\ SameWay(p)
    /\ p.location.embed => /\ p.initial = Initial(p.location)
                           /\ ~p.lock /\ p.location # p.seen
    /\ p.location = p.seen => p.lock \/ (IsNormal(p) /\ IsGiven(p))
UnroutedWay(p) ==
    WayTypes(p) /\ SameWay(p) /\ (p.location.embed => p.initial = Initial(p.location))

\* A page that is settled can be watched again.
LEMMA SettledWayIsUnwatched ==
    ASSUME NEW p, WayInv(p)
    PROVE  UnwatchedWay(p)
  BY DEF WayInv, UnwatchedWay

\* Where a location leads to does not depend on where the page is.
LEMMA TargetKept ==
    ASSUME NEW p, NEW q, q.app = p.app, q.initial = p.initial
    PROVE  \A l : Target(q, l) = Target(p, l)
  BY DEF Target

\* A location is what its fields are.
LEMMA LocationIs ==
    ASSUME NEW l, IsLocation(l)
    PROVE  l = [area |-> l.area, page |-> l.page, search |-> l.search,
                old |-> l.old, embed |-> l.embed]
  BY DEF IsLocation

\* A location in its normal form leads to itself.
LEMMA TargetOfNormal ==
    ASSUME NEW p, NEW l, IsLocation(l), ~l.embed, ~l.old, l.area # "",
           l.area = "r" /\ Has(p.app, l.page) => l.search \subseteq PageAt(p.app, l).search
    PROVE  Target(p, l) = l
<1>1. l = [area |-> l.area, page |-> l.page, search |-> l.search,
           old |-> l.old, embed |-> l.embed]
  BY LocationIs
<1>2. l.embed = FALSE /\ l.old = FALSE
  BY DEF IsLocation
<1>3. l = Location(l.area, l.page, l.search)
  BY <1>1, <1>2 DEF Location
<1>4. Target(p, l) = Location(l.area, l.page, l.search)
  <2> DEFINE known == l.area = "r" /\ Has(p.app, l.page)
             table == PageAt(p.app, l).search
  <2>1. Target(p, l) = Location(l.area, l.page, IF known THEN l.search \cap table ELSE l.search)
    BY DEF Target
  <2>2. known => l.search \cap table = l.search
    OBVIOUS
  <2> HIDE DEF known, table
  <2> QED
    BY <2>1, <2>2
<1> QED
  BY <1>3, <1>4

\* The location of an old version leads to where that of the last one does.
LEMMA TargetOfOld ==
    ASSUME NEW p, NEW l, IsLocation(l), l.area = "r"
    PROVE  Target(p, [Resource(l.page) EXCEPT !.search = l.search]) = Target(p, l)
<1> DEFINE k == [Resource(l.page) EXCEPT !.search = l.search]
<1>1. k.area = "r" /\ k.page = l.page /\ k.search = l.search
  BY DEF Resource, Location
<1> HIDE DEF k
<1>2. PageAt(p.app, k) = PageAt(p.app, l)
  BY <1>1 DEF PageAt
<1>3. Target(p, k) = Target(p, l)
  BY <1>1, <1>2 DEF Target
<1> QED
  BY <1>3 DEF k

\* An area that redirects leads to where its redirection does.
LEMMA TargetOfSkip ==
    ASSUME NEW p, PageTypes(p), Prefix(p.location) \in Redirects
    PROVE  Target(p, SkipTo(p)) = Target(p, p.location)
<1>1. CASE p.location.embed
  <2> DEFINE l == p.location
             k == [l EXCEPT !.embed = FALSE]
  <2>1. SkipTo(p) = k
    BY <1>1 DEF SkipTo
  <2>2. k.area = l.area /\ k.page = l.page /\ k.search = l.search
    BY DEF PageTypes, IsLocation
  <2> HIDE DEF k
  <2>3. PageAt(p.app, k) = PageAt(p.app, l)
    BY <2>2 DEF PageAt
  <2>4. Target(p, k) = Target(p, l)
    BY <2>2, <2>3 DEF Target
  <2> QED
    BY <2>1, <2>4
<1>2. CASE ~p.location.embed
  <2> DEFINE known(to) == to.area = "r" /\ Has(p.app, to.page)
             at(to) == Location(to.area, to.page,
                  IF known(to) THEN to.search \cap PageAt(p.app, to).search ELSE to.search)
  <2>1. p.location.area = "" /\ SkipTo(p) = p.initial
    BY <1>2 DEF Prefix, SkipTo, Redirects, PageTypes, IsLocation, Areas
  <2>2. ASSUME NEW l
        PROVE  Target(p, l) = at(IF l.area = "" THEN p.initial ELSE l)
    BY DEF Target
  <2> HIDE DEF at
  <2> QED
    BY <2>1, <2>2
<1> QED
  BY <1>1, <1>2
\* What the page remembers of the user.
SameUser(p, q) ==
    /\ q.app = p.app /\ q.initial = p.initial /\ q.wanted = p.wanted
    /\ q.diverted = p.diverted /\ q.cameFrom = p.cameFrom
SameRoute(p, q) == q.pending = p.pending /\ q.phase = p.phase /\ q.lock = p.lock
SameData(p, q) == q.data = p.data /\ q.given = p.given /\ q.stranded = p.stranded

\* A page that is where it was, for the same user.
LEMMA WayKept ==
    ASSUME NEW p, NEW q, SameUser(p, q), q.location = p.location
    PROVE  /\ SameWay(p) => SameWay(q)
           /\ SameRoute(p, q) /\ SameData(p, q) /\ WayTypes(p) => WayTypes(q)
           /\ SameData(p, q) /\ IsNormal(p) => IsNormal(q)
           /\ SameData(p, q) /\ IsGiven(p) => IsGiven(q)
<1>1. \A l : Target(q, l) = Target(p, l)
  BY TargetKept DEF SameUser
<1>2. SameWay(p) => SameWay(q)
  BY <1>1 DEF SameWay, SameUser
<1>3. SameRoute(p, q) /\ SameData(p, q) /\ WayTypes(p) => WayTypes(q)
  BY DEF SameRoute, SameData, SameUser, WayTypes
<1>4. /\ SameData(p, q) /\ IsNormal(p) => IsNormal(q)
      /\ SameData(p, q) /\ IsGiven(p) => IsGiven(q)
  BY <1>1 DEF SameData, IsNormal, IsGiven
<1> QED
  BY <1>2, <1>3, <1>4

\* Entering an area changes nothing of this.
LEMMA GetAreaWay ==
    ASSUME NEW p, PageTypes(p)
    PROVE  LET q == GetArea(p)
           IN  /\ SameUser(p, q) /\ SameRoute(p, q) /\ SameData(p, q)
               /\ q.location = p.location
<1> DEFINE q == [p EXCEPT !.area = Prefix(p.location),
                     !.blockTemplate = p.blockTemplate \/ p.area # Prefix(p.location)]
<1>1. SameUser(p, q) /\ SameRoute(p, q) /\ SameData(p, q) /\ q.location = p.location
  BY DEF PageTypes, PageRecord, SameUser, SameRoute, SameData
<1> QED
  BY <1>1, GetAreaIs DEF q

\* A redirection leads to where the location did.
LEMMA SkippedWay ==
    ASSUME NEW p, PageTypes(p), UnroutedWay(p), Prefix(p.location) \in Redirects
    PROVE  LET q == Skipped(p)
           IN  /\ WayTypes(q) /\ SameWay(q) /\ ~q.location.embed /\ q.lock = p.lock
               /\ q.location.area = "" =>
                      Unfocused(Target(q, q.location)) = Unfocused(q.location)
<1> DEFINE g == GetArea(p)
           l == SkipTo(p)
           q == [g EXCEPT !.location = l, !.seen = l]
<1>1. PageTypes(g) /\ SameUser(p, g) /\ SameRoute(p, g) /\ SameData(p, g)
  BY GetAreaTypes, GetAreaWay
<1>2. q = Skipped(p)
  BY DEF Skipped
<1> HIDE DEF g
<1>3. q.location = l /\ SameUser(p, q) /\ SameRoute(p, q) /\ SameData(p, q)
  BY <1>1 DEF PageTypes, PageRecord, SameUser, SameRoute, SameData
<1>4. IsLocation(p.location) /\ Real(p.location) /\ IsLocation(p.initial) /\ Real(p.initial)
  BY DEF PageTypes, UnroutedWay, WayTypes
<1>5. ~l.embed /\ Real(l) /\ (l.area = "" => l = p.initial)
  <2>1. CASE p.location.embed
    <3> DEFINE k == [p.location EXCEPT !.embed = FALSE]
    <3>1. l = k
      BY <2>1 DEF SkipTo
    <3>2. /\ ~k.embed /\ k.area = p.location.area /\ k.search = p.location.search
          /\ k.old = p.location.old /\ k.page = p.location.page
      BY <1>4 DEF IsLocation
    <3>3. Real(k)
      BY <1>4, <3>2 DEF Real
    <3>4. k.area = "" => k = p.initial
      <4>1. p.initial = Initial(p.location)
        BY <2>1 DEF UnroutedWay
      <4>2. p.location.area = "" => Initial(p.location) = k
        BY <1>4 DEF Real, Initial
      <4> QED
        BY <3>2, <4>1, <4>2
    <3> QED
      BY <3>1, <3>2, <3>3, <3>4
  <2>2. CASE ~p.location.embed
    BY <1>4, <2>2 DEF SkipTo, PageTypes
  <2> QED
    BY <2>1, <2>2
<1>6. Target(p, l) = Target(p, p.location)
  BY TargetOfSkip
<1>7. p.location # Area("login")
  BY MadeLocations DEF Areas, Redirects
<1> HIDE DEF l, q
<1>8. \A k : Target(q, k) = Target(p, k)
  BY <1>3, TargetKept DEF SameUser
<1>9. SameWay(q)
  BY <1>3, <1>6, <1>7, <1>8 DEF UnroutedWay, SameWay, SameUser
<1>10. WayTypes(q)
  BY <1>3, <1>5 DEF UnroutedWay, WayTypes, SameUser, SameRoute, SameData
<1>11. ASSUME l.area = ""
       PROVE  Target(q, l) = l
  <2>1. l = p.initial /\ IsLocation(l) /\ l.old = FALSE /\ l.embed = FALSE
    BY <1>4, <1>5, <1>11 DEF IsLocation, Real
  <2>2. l = Location(l.area, l.page, l.search)
    BY <2>1, LocationIs DEF Location
  <2>3. Target(p, l) = Location(l.area, l.page, l.search)
    BY <1>11, <2>1 DEF Target
  <2> QED
    BY <1>8, <2>2, <2>3
<1> QED
  BY <1>2, <1>3, <1>5, <1>9, <1>10, <1>11 DEF SameRoute

\* Data that a route has taken leave the location in its normal form.
LEMMA RoutedWay ==
    ASSUME NEW p, PageTypes(p), WayTypes(p), SameWay(p), p.seen = p.location,
           IsPlain(p.location), NEW data, DataAreOf(data, p.location),
           IF "resourceUrl" \in DOMAIN data THEN IsOfPage(p.app, p.location)
                                            ELSE p.location.area # "r"
    PROVE  UnwatchedWay(Routed(p, data, p.location.search))
<1> DEFINE given == p.location.search
           d == SetData(Unlock(p), data, given)
           g == GetArea(d)
           l == Reverse(d)
           q == [[g EXCEPT !.location = Reverse(d)] EXCEPT !.blockTemplate = FALSE]
<1>1. /\ d \in PageRecord(d) /\ d.location = p.location /\ d.seen = p.seen
      /\ SameUser(p, d) /\ ~d.lock /\ d.pending = NoLocation /\ d.data = data /\ d.given = given
  BY DEF SetData, Unlock, PageTypes, PageRecord, SameUser
<1>2. "resourceUrl" \in DOMAIN data => data["resourceUrl"] = p.location
  BY DEF DataAreOf
<1>3. IsLocation(p.location) /\ ~p.location.embed /\ p.location.area # ""
  BY DEF IsPlain, Prefix, Redirects
<1>4. q = Routed(p, data, given)
  BY DEF Routed, ToLocation
<1> HIDE DEF d
<1>5. PageTypes(d)
  BY <1>1, <1>2, MadeLocations DEF PageTypes, SameUser
<1>6. /\ PageTypes(g) /\ SameUser(d, g) /\ SameRoute(d, g) /\ SameData(d, g) /\ g.seen = d.seen
  BY <1>5, GetAreaTypes, GetAreaWay
<1> HIDE DEF g, l
<1>7. /\ q.location = l /\ q.seen = g.seen
      /\ SameUser(g, q) /\ SameRoute(g, q) /\ SameData(g, q)
  BY <1>6 DEF PageTypes, PageRecord, SameUser, SameRoute, SameData, l
<1> HIDE DEF q
<1>8. /\ q.location = l /\ q.seen = p.location /\ SameUser(p, q)
      /\ q.pending = NoLocation /\ q.data = data /\ q.given = given
  BY <1>1, <1>6, <1>7 DEF SameUser, SameRoute, SameData
<1> DEFINE search == given \cap PageAt(p.app, p.location).search
<1>9. l = IF "resourceUrl" \in DOMAIN data THEN [p.location EXCEPT !.search = search]
          ELSE p.location
  BY <1>1, <1>2 DEF Reverse, SameUser, l
<1> HIDE DEF search
<1>10. /\ IsLocation(l) /\ l.area = p.location.area /\ l.page = p.location.page
       /\ l.old = p.location.old /\ l.embed = p.location.embed
       /\ l.search = IF "resourceUrl" \in DOMAIN data THEN search ELSE p.location.search
  BY <1>3, <1>9 DEF IsLocation
<1>11. PageAt(p.app, l) = PageAt(p.app, p.location)
  BY <1>10 DEF PageAt
<1>12. l.old = FALSE
  BY <1>3, <1>10 DEF IsOfPage, WayTypes, Real, IsLocation
<1>13. Target(p, l) = l
  <2>1. ASSUME l.area = "r" /\ Has(p.app, l.page)
        PROVE  l.search \subseteq PageAt(p.app, l).search
    <3>1. "resourceUrl" \in DOMAIN data
      BY <1>10, <2>1
    <3> QED
      BY <1>10, <1>11, <3>1 DEF search
  <2> QED
    BY <1>3, <1>10, <1>12, <2>1, TargetOfNormal
<1>14. Target(p, p.location) = l
  <2>1. l = Location(l.area, l.page, l.search)
    BY <1>3, <1>10, <1>12, LocationIs DEF Location, IsLocation
  <2>2. CASE "resourceUrl" \in DOMAIN data
    <3>1. Target(p, p.location) = Location(p.location.area, p.location.page, search)
      BY <1>3, <2>2 DEF Target, IsOfPage, search
    <3> QED
      BY <1>10, <2>1, <2>2, <3>1
  <2>3. CASE "resourceUrl" \notin DOMAIN data
    BY <1>9, <1>13, <2>3
  <2> QED
    BY <2>2, <2>3
<1>15. \A k : Target(q, k) = Target(p, k)
  BY <1>8, TargetKept DEF SameUser
<1>16. SameWay(q)
  <2>1. p.location = Area("login") => l = p.location
    BY <1>9 DEF Area, Location, IsOfPage
  <2> QED
    BY <1>8, <1>13, <1>14, <1>15, <2>1 DEF SameWay, SameUser
<1>17. WayTypes(q)
  <2>1. Real(l)
    BY <1>10, <1>12 DEF Real, WayTypes, IsOfPage
  <2>2. "resourceUrl" \in DOMAIN data => IsOfPage(p.app, data["resourceUrl"])
    BY <1>2
  <2> QED
    BY <1>8, <2>1, <2>2 DEF WayTypes, SameUser
<1>18. IsNormal(q)
  BY <1>8, <1>13, <1>15 DEF IsNormal
<1>19. q.location = q.seen => IsGiven(q)
  BY <1>8 DEF IsGiven
<1> QED
  BY <1>3, <1>4, <1>8, <1>10, <1>16, <1>17, <1>18, <1>19 DEF UnwatchedWay

\* A location that is routed.
LEMMA RouteWay ==
    ASSUME NEW p, PageTypes(p), WayTypes(p), SameWay(p), p.seen = p.location,
           IsPlain(p.location)
    PROVE  WayInv(Route(p))
<1>0. ~p.location.embed
  BY DEF IsPlain, Prefix, Redirects
<1>1. CASE p.location.area \in DefaultRoutes
  <2> DEFINE data == [_path |-> p.location]
             q == Routed(p, data, p.location.search)
  <2>1. Route(p) = q
    BY <1>1 DEF Route
  <2>2. DOMAIN data = {"_path"} /\ DataAreOf(data, p.location)
    BY DEF DataAreOf
  <2> HIDE DEF data
  <2>3. q.seen = p.seen /\ q.location = p.location
    BY <2>2, RoutedIsUnwatched
  <2>4. UnwatchedWay(q)
    BY <1>1, <2>2, RoutedWay DEF DefaultRoutes
  <2> HIDE DEF q
  <2> QED
    BY <1>0, <2>1, <2>3, <2>4 DEF WayInv, UnwatchedWay
<1>2. CASE p.location.area \notin DefaultRoutes /\ p.location.page = BadPath
  <2> DEFINE q == [p EXCEPT !.lock = TRUE]
  <2>1. Route(p) = q
    BY <1>2 DEF Route
  <2>2. /\ q.lock /\ q.location = p.location /\ SameUser(p, q) /\ SameData(p, q)
        /\ q.pending = p.pending /\ q.phase = p.phase
    BY DEF PageTypes, PageRecord, SameUser, SameData
  <2> HIDE DEF q
  <2>3. SameWay(q)
    BY <2>2, WayKept
  <2> QED
    BY <1>0, <2>1, <2>2, <2>3 DEF WayTypes, WayInv, SameUser, SameData
<1>3. CASE p.location.area \notin DefaultRoutes /\ p.location.page # BadPath
  <2> DEFINE q == [[p EXCEPT !.lock = TRUE] EXCEPT !.pending = p.location, !.phase = "resource"]
  <2>1. Route(p) = q
    BY <1>3 DEF Route
  <2>2. /\ q.lock /\ q.location = p.location /\ SameUser(p, q) /\ SameData(p, q)
        /\ q.pending = p.location /\ q.phase = "resource"
    BY DEF PageTypes, PageRecord, SameUser, SameData
  <2> HIDE DEF q
  <2>3. SameWay(q)
    BY <2>2, WayKept
  <2> QED
    BY <1>0, <1>3, <2>1, <2>2, <2>3 DEF WayTypes, WayInv, SameUser, SameData
<1> QED
  BY <1>1, <1>2, <1>3

\* fromLocation.
LEMMA FromLocationWay ==
    ASSUME NEW o, Unrouted(o), UnroutedWay(o)
    PROVE  WayInv(FromLocation(o))
<1> DEFINE p == [o EXCEPT !.stranded = FALSE]
           k == Skipped(p)
           q == GetArea(k)
<1>1. /\ p \in PageRecord(p) /\ p.location = o.location /\ p.seen = o.seen /\ p.lock = o.lock
      /\ p.area = o.area /\ p.blockTemplate = o.blockTemplate /\ p.data = o.data
      /\ p.cameFrom = o.cameFrom /\ p.initial = o.initial /\ p.pending = o.pending
      /\ SameUser(o, p) /\ SameRoute(o, p)
  BY DEF Unrouted, PageTypes, PageRecord, SameUser, SameRoute
<1>2. FromLocation(o) =
          IF Prefix(p.location) \notin Redirects THEN Route(GetArea(p))
          ELSE IF Prefix(q.location) = "" THEN [q EXCEPT !.stranded = TRUE] ELSE Route(q)
  BY DEF FromLocation
<1> HIDE DEF p
<1>3. PageTypes(p) /\ p.seen = p.location
  BY <1>1 DEF Unrouted, PageTypes
<1>4. UnroutedWay(p)
  <2>1. SameWay(p)
    BY <1>1, WayKept DEF UnroutedWay
  <2> QED
    BY <1>1, <2>1 DEF UnroutedWay, WayTypes, SameUser, SameRoute
<1>5. CASE Prefix(p.location) \notin Redirects
  <2> DEFINE g == GetArea(p)
  <2>1. /\ PageTypes(g) /\ g.seen = g.location /\ g.location = p.location
        /\ SameUser(p, g) /\ SameRoute(p, g) /\ SameData(p, g)
    BY <1>3, GetAreaTypes, GetAreaWay
  <2> HIDE DEF g
  <2>2. WayTypes(g) /\ SameWay(g)
    BY <1>4, <2>1, WayKept DEF UnroutedWay
  <2>3. IsPlain(g.location)
    BY <1>3, <1>5, <2>1 DEF IsPlain, PageTypes
  <2> QED
    BY <1>2, <1>5, <2>1, <2>2, <2>3, RouteWay DEF g
<1>6. CASE Prefix(p.location) \in Redirects
  <2>1. PageTypes(k) /\ k.seen = k.location
    BY <1>3, SkippedTypes
  <2>2. /\ WayTypes(k) /\ SameWay(k) /\ ~k.location.embed
        /\ k.location.area = "" => Unfocused(Target(k, k.location)) = Unfocused(k.location)
    BY <1>3, <1>4, <1>6, SkippedWay
  <2> HIDE DEF k
  <2>3. /\ PageTypes(q) /\ q.seen = q.location /\ q.location = k.location
        /\ SameUser(k, q) /\ SameRoute(k, q) /\ SameData(k, q)
    BY <2>1, GetAreaTypes, GetAreaWay
  <2> HIDE DEF q
  <2>4. WayTypes(q) /\ SameWay(q)
    BY <2>2, <2>3, WayKept
  <2>5. Prefix(q.location) = q.location.area /\ IsLocation(q.location)
    BY <2>2, <2>3 DEF Prefix, PageTypes
  <2>6. CASE Prefix(q.location) = ""
    <3> DEFINE r == [q EXCEPT !.stranded = TRUE]
    <3>1. /\ r.location = q.location /\ r.stranded /\ SameUser(q, r) /\ SameRoute(q, r)
          /\ r.data = q.data
      BY <2>3 DEF PageTypes, PageRecord, SameUser, SameRoute
    <3>2. FromLocation(o) = r
      BY <1>2, <1>6, <2>6
    <3> HIDE DEF r
    <3>3. SameWay(r)
      BY <2>4, <3>1, WayKept
    <3>4. WayTypes(r)
      BY <2>4, <3>1 DEF WayTypes, SameUser, SameRoute
    <3>5. \A l : Target(r, l) = Target(k, l)
      BY <2>3, <3>1, TargetKept DEF SameUser
    <3>6. Unfocused(Target(r, r.location)) = Unfocused(r.location)
      BY <2>2, <2>3, <2>5, <2>6, <3>1, <3>5
    <3> QED
      BY <2>2, <2>3, <3>1, <3>2, <3>3, <3>4, <3>6 DEF WayInv, IsNormal, IsGiven
  <2>7. CASE Prefix(q.location) # ""
    <3>1. IsPlain(q.location)
      BY <2>5, <2>7 DEF IsPlain, IsLocation, Areas, Redirects
    <3> QED
      BY <1>2, <1>6, <2>3, <2>4, <2>7, <3>1, RouteWay
  <2> QED
    BY <2>6, <2>7
<1> QED
  BY <1>5, <1>6
\* The watches of a digest.
LEMMA WatchWay ==
    ASSUME NEW p, Unwatched(p), UnwatchedWay(p)
    PROVE  WayInv(WatchLocation(p))
<1>0. PageTypes(p) /\ WayTypes(p) /\ SameWay(p)
  BY DEF Unwatched, UnwatchedWay
<1>1. CASE p.location = p.seen
  <2> DEFINE g == GetArea(p)
  <2>1. ~p.location.embed /\ (p.lock \/ (IsNormal(p) /\ IsGiven(p)))
    BY <1>1 DEF UnwatchedWay
  <2>2. WatchLocation(p) = p \/ WatchLocation(p) = g
    BY <1>1 DEF Unwatched, WatchLocation, WatchTemplate
  <2>3. g.location = p.location /\ SameUser(p, g) /\ SameRoute(p, g) /\ SameData(p, g)
    BY <1>0, GetAreaWay
  <2> HIDE DEF g
  <2>4. WayTypes(g) /\ SameWay(g) /\ (IsNormal(p) => IsNormal(g)) /\ (IsGiven(p) => IsGiven(g))
    BY <1>0, <2>3, WayKept
  <2> QED
    BY <1>0, <2>1, <2>2, <2>3, <2>4 DEF WayInv, SameRoute
<1>2. CASE p.location # p.seen
  <2> DEFINE q == [p EXCEPT !.seen = p.location]
  <2>1. /\ q \in PageRecord(q) /\ q.location = p.location /\ q.seen = p.location /\ q.lock = p.lock
        /\ q.area = p.area /\ q.blockTemplate = p.blockTemplate
        /\ q.data = p.data /\ q.pending = p.pending
        /\ SameUser(p, q) /\ SameRoute(p, q) /\ SameData(p, q)
    BY <1>0 DEF PageTypes, PageRecord, SameUser, SameRoute, SameData
  <2>2. WatchLocation(p) = IF q.lock THEN WatchTemplate(q) ELSE FromLocation(q)
    BY <1>2 DEF WatchLocation
  <2> HIDE DEF q
  <2>3. PageTypes(q)
    BY <1>0, <2>1 DEF PageTypes, SameUser
  <2>4. WayTypes(q) /\ SameWay(q)
    BY <1>0, <2>1, WayKept
  <2>5. UnroutedWay(q)
    BY <2>1, <2>4 DEF UnroutedWay, UnwatchedWay, SameUser
  <2>6. CASE ~q.lock
    <3>1. q.blockTemplate \/ q.area \notin Redirects
      BY <1>2, <2>1 DEF Unwatched
    <3>2. Unrouted(q)
      BY <2>1, <2>3, <2>6, <3>1 DEF Unrouted
    <3> QED
      BY <2>2, <2>5, <2>6, <3>2, FromLocationWay
  <2>7. CASE q.lock
    <3>1. ~q.location.embed
      BY <2>1, <2>7 DEF UnwatchedWay
    <3>2. CASE q.blockTemplate
      BY <2>2, <2>4, <2>7, <3>1, <3>2 DEF WatchTemplate, WayInv
    <3>3. CASE ~q.blockTemplate /\ Prefix(q.location) \in Redirects
      <4>1. WatchLocation(p) = Skipped(q)
        BY <2>2, <2>7, <3>3 DEF WatchTemplate
      <4> QED
        BY <2>3, <2>5, <2>7, <3>3, <4>1, SkippedWay DEF WayInv
    <3>4. CASE ~q.blockTemplate /\ Prefix(q.location) \notin Redirects
      <4> DEFINE g == GetArea(q)
      <4>1. WatchLocation(p) = g
        BY <2>2, <2>7, <3>4 DEF WatchTemplate
      <4>2. g.location = q.location /\ SameUser(q, g) /\ SameRoute(q, g) /\ SameData(q, g)
        BY <2>3, GetAreaWay
      <4> HIDE DEF g
      <4>3. WayTypes(g) /\ SameWay(g)
        BY <2>4, <4>2, WayKept
      <4> QED
        BY <2>7, <3>1, <4>1, <4>2, <4>3 DEF WayInv, SameRoute
    <3> QED
      BY <3>2, <3>3, <3>4
  <2> QED
    BY <2>6, <2>7
<1> QED
  BY <1>1, <1>2

\* The user goes somewhere.
LEMMA GoWay ==
    ASSUME NEW p, PageInv(p), WayInv(p),
           NEW location, IsLocation(location), Real(location), ~location.embed
    PROVE  UnwatchedWay(Go(p, location))
<1> DEFINE q == Go(p, location)
<1>1. /\ q.location = location /\ q.cameFrom = p.cameFrom /\ q.app = p.app
      /\ q.initial = p.initial /\ q.wanted = Target(p, location) /\ q.seen = p.seen
      /\ SameRoute(p, q) /\ SameData(p, q)
  BY DEF Go, PageInv, PageTypes, PageRecord, SameRoute, SameData
<1> HIDE DEF q
<1>2. \A l : Target(q, l) = Target(p, l)
  BY <1>1, TargetKept
<1>3. SameWay(q)
  BY <1>1, <1>2 DEF SameWay
<1>4. WayTypes(q)
  BY <1>1 DEF WayInv, WayTypes, SameRoute, SameData
<1>5. q.location = q.seen => q.lock \/ (IsNormal(q) /\ IsGiven(q))
  BY <1>1, <1>2 DEF WayInv, PageInv, IsNormal, IsGiven, SameRoute, SameData
<1> QED
  BY <1>1, <1>3, <1>4, <1>5 DEF UnwatchedWay, q

\* To where he came from.
LEMMA GoBackWay ==
    ASSUME NEW p, PageInv(p), WayInv(p)
    PROVE  UnwatchedWay(GoToCameFrom(p, Area("")))
<1>1. IsLocation(Area("")) /\ Real(Area("")) /\ ~Area("").embed
  BY MadeLocations DEF Area, Location, Real, Areas
<1>2. IsLocation(p.cameFrom) /\ (p.cameFrom # NoLocation => Real(p.cameFrom) /\ ~p.cameFrom.embed)
  BY DEF PageInv, PageTypes, WayInv, WayTypes
<1> QED
  BY <1>1, <1>2, GoWay DEF GoToCameFrom

\* setCameFrom: the login, of which there may be a way back, does not become one.
LEMMA SetCameFromWay ==
    ASSUME NEW p, PageInv(p), WayInv(p)
    PROVE  WayInv(SetCameFrom(p))
<1>0. p.location = Area("login") => SetCameFrom(p) = p
  BY DEF Area, Location, SetCameFrom, CameFromAllowed
<1> DEFINE q == [p EXCEPT !.cameFrom = p.location]
<1>1. /\ q.location = p.location /\ q.cameFrom = p.location /\ q.app = p.app
      /\ q.initial = p.initial /\ q.wanted = p.wanted /\ q.diverted = p.diverted
      /\ SameRoute(p, q) /\ SameData(p, q)
  BY DEF PageInv, PageTypes, PageRecord, SameRoute, SameData
<1>2. SetCameFrom(p) \in {p, q}
  BY DEF SetCameFrom
<1> HIDE DEF q
<1>3. \A l : Target(q, l) = Target(p, l)
  BY <1>1, TargetKept
<1>4. p.location # Area("login") => WayTypes(q) /\ SameWay(q)
  BY <1>1, <1>3 DEF WayInv, WayTypes, SameWay, SameRoute, SameData
<1>5. p.location # Area("login") => WayInv(q)
  BY <1>1, <1>3, <1>4 DEF WayInv, IsNormal, IsGiven, SameRoute, SameData
<1> QED
  BY <1>0, <1>2, <1>5

\* The lock is given up.
LEMMA UnlockWay ==
    ASSUME NEW p, PageTypes(p), WayTypes(p), SameWay(p)
    PROVE  LET q == Unlock(p)
           IN  /\ WayTypes(q) /\ SameWay(q) /\ SameUser(p, q) /\ SameData(p, q)
               /\ q.location = p.location
<1> DEFINE q == Unlock(p)
<1>1. /\ q.location = p.location /\ SameUser(p, q) /\ SameData(p, q) /\ q.pending = NoLocation
  BY DEF Unlock, PageTypes, PageRecord, SameUser, SameData
<1> HIDE DEF q
<1>2. SameWay(q)
  BY <1>1, WayKept
<1>3. WayTypes(q)
  BY <1>1 DEF WayTypes, SameUser, SameData
<1> QED
  BY <1>1, <1>2, <1>3 DEF q

\* A route that was waited for.
LEMMA AnswerWay ==
    ASSUME NEW p, PageInv(p), WayInv(p), NEW done, p.location = p.pending => UnwatchedWay(done)
    PROVE  UnwatchedWay(Answer(p, done))
<1> DEFINE u == Unlock(p)
<1>0. /\ PageTypes(p) /\ WayTypes(p) /\ SameWay(p) /\ ~p.location.embed
  BY DEF PageInv, WayInv
<1>1. /\ PageTypes(u) /\ ~u.lock /\ u.location = p.location /\ u.seen = p.location
      /\ u.area = p.area /\ u.blockTemplate = p.blockTemplate
  BY UnlockTypes DEF PageInv
<1>2. WayTypes(u) /\ SameWay(u) /\ SameUser(p, u) /\ SameData(p, u)
  BY <1>0, UnlockWay
<1>3. CASE p.location = p.pending
  BY <1>3 DEF Answer
<1>4. CASE p.location # p.pending /\ p.location.page = BadPath
  <2> DEFINE g == GetArea(u)
             q == [g EXCEPT !.stranded = TRUE]
  <2>1. /\ PageTypes(g) /\ g.location = u.location /\ g.seen = u.seen
        /\ SameUser(u, g) /\ SameRoute(u, g) /\ SameData(u, g)
    BY <1>1, GetAreaTypes, GetAreaWay
  <2>2. Answer(p, done) = q
    BY <1>4 DEF Answer
  <2> HIDE DEF g, u
  <2>3. /\ q.stranded /\ q.location = g.location /\ SameUser(g, q) /\ SameRoute(g, q)
        /\ q.data = g.data
    BY <2>1 DEF PageTypes, PageRecord, SameUser, SameRoute
  <2> HIDE DEF q
  <2>4. WayTypes(g) /\ SameWay(g)
    BY <1>2, <2>1, WayKept
  <2>5. SameWay(q)
    BY <2>3, <2>4, WayKept
  <2>6. WayTypes(q)
    BY <2>3, <2>4 DEF WayTypes, SameUser, SameRoute
  <2>7. Target(q, p.location) = p.location
    <3>1. q.app \in Apps /\ q.location = p.location /\ Real(p.location) /\ IsLocation(p.location)
      BY <1>0, <1>1, <2>1, <2>3, <2>6 DEF WayTypes, PageTypes
    <3>2. ~Has(q.app, p.location.page)
      BY <1>4, <3>1, RoutesAssumption
    <3>3. NoPage # BadPath
      <4>1. NoPage[1] = "" /\ BadPath[1] = "bad"
        BY DEF NoPage, BadPath
      <4> QED
        BY <4>1
    <3>4. p.location.area # "" /\ ~p.location.old
      BY <1>4, <3>1, <3>3 DEF Real
    <3> QED
      BY <1>0, <3>1, <3>2, <3>4, TargetOfNormal
  <2>8. IsNormal(q) /\ IsGiven(q)
    BY <1>1, <2>1, <2>3, <2>7 DEF IsNormal, IsGiven
  <2> QED
    BY <1>0, <1>1, <2>1, <2>2, <2>3, <2>5, <2>6, <2>8 DEF UnwatchedWay
<1>5. CASE p.location # p.pending /\ p.location.page # BadPath
  <2> DEFINE q == [u EXCEPT !.seen = p.location]
  <2>1. Answer(p, done) = FromLocation(q)
    BY <1>5 DEF Answer
  <2> HIDE DEF u
  <2>2. q = u
    BY <1>1 DEF PageTypes, PageRecord
  <2>3. Unrouted(u) /\ UnroutedWay(u)
    BY <1>0, <1>1, <1>2 DEF Unrouted, UnroutedWay, PageInv
  <2> QED
    BY <2>1, <2>2, <2>3, FromLocationWay, SettledWayIsUnwatched
<1> QED
  BY <1>3, <1>4, <1>5
\* An error is shown at the location of its route.
LEMMA ErrorWay ==
    ASSUME NEW p, PageInv(p), WayInv(p)
    PROVE  UnwatchedWay(RoutedToError(p))
<1> DEFINE u == Unlock(p)
           q == RoutedToError(p)
<1>0. PageTypes(p) /\ WayTypes(p) /\ SameWay(p) /\ ~p.location.embed
  BY DEF PageInv, WayInv
<1>1. PageTypes(u) /\ u.location = p.location /\ u.pending = NoLocation
  BY <1>0, UnlockTypes
<1>2. WayTypes(u) /\ SameWay(u)
  BY <1>0, UnlockWay
<1>3. q = [[u EXCEPT !.data = [space |-> p.location], !.given = {}] EXCEPT
               !.blockTemplate = FALSE, !.stranded = p.area # Prefix(p.location)]
  BY DEF RoutedToError, SetData
<1> HIDE DEF u, q
<1>4. /\ q.location = p.location /\ SameUser(u, q) /\ q.pending = NoLocation
      /\ q.data = [space |-> p.location]
  BY <1>1, <1>3 DEF PageTypes, PageRecord, SameUser
<1>5. DOMAIN q.data = {"space"}
  BY <1>4
<1>6. SameWay(q)
  BY <1>1, <1>2, <1>4, WayKept
<1>7. WayTypes(q)
  BY <1>1, <1>2, <1>4, <1>5 DEF WayTypes, SameUser
<1>8. IsNormal(q) /\ IsGiven(q)
  BY <1>5 DEF IsNormal, IsGiven
<1> QED
  BY <1>0, <1>4, <1>6, <1>7, <1>8 DEF UnwatchedWay, q

\* A route that failed: from a page of a resource to the login, with a way back.
LEMMA FailureWay ==
    ASSUME NEW p, PageInv(p), WayInv(p), p.pending # NoLocation, NEW code, NEW loggedIn,
           code = 401 => p.pending.area = "r"
    PROVE  UnwatchedWay(HandleRoutingError(p, code, loggedIn))
<1>1. CASE code = 401 /\ ~loggedIn
  <2> DEFINE login == Area("login")
             d == Divert(p)
             u == Unlock(d)
             c == SetCameFrom(u)
             q == [[c EXCEPT !.location = login] EXCEPT !.stranded = p.location = login]
  <2>1. HandleRoutingError(p, code, loggedIn) = q
    BY <1>1 DEF HandleRoutingError, SetCameFromAndGo
  <2>0. PageTypes(p) /\ WayTypes(p) /\ SameWay(p)
    BY DEF PageInv, WayInv
  <2>2. /\ d \in PageRecord(d) /\ d.location = p.location /\ d.seen = p.seen
        /\ d.pending = p.pending /\ d.phase = p.phase /\ d.lock = p.lock
        /\ d.app = p.app /\ d.initial = p.initial
        /\ d.cameFrom = p.cameFrom /\ d.wanted = p.wanted /\ SameData(p, d)
        /\ d.diverted = (p.diverted \/ p.location # p.pending)
    BY <2>0 DEF Divert, PageTypes, PageRecord, SameData
  <2> HIDE DEF d
  <2>3. PageTypes(d) /\ WayTypes(d)
    BY <2>0, <2>2 DEF PageTypes, WayTypes, SameData
  <2>4. /\ PageTypes(u) /\ u.location = p.location /\ u.seen = p.seen /\ ~u.lock
        /\ u.pending = NoLocation /\ u.phase = d.phase /\ SameUser(d, u) /\ SameData(d, u)
    <3>1. /\ PageTypes(u) /\ u.location = d.location /\ u.seen = d.seen /\ ~u.lock
          /\ u.pending = NoLocation
      BY <2>3, UnlockTypes
    <3>2. u.phase = d.phase /\ SameUser(d, u) /\ SameData(d, u)
      BY <2>2 DEF Unlock, PageRecord, SameUser, SameData
    <3> QED
      BY <2>2, <3>1, <3>2
  <2> HIDE DEF u
  <2>5. /\ c.location = u.location /\ c.seen = u.seen /\ ~c.lock /\ c.pending = NoLocation
        /\ c.app = u.app /\ c.initial = u.initial /\ c.wanted = u.wanted
        /\ c.diverted = u.diverted /\ SameData(u, c)
        /\ c.cameFrom = IF CameFromAllowed(u.location) THEN u.location ELSE u.cameFrom
        /\ c \in PageRecord(c)
    BY <2>4 DEF SetCameFrom, PageTypes, PageRecord, SameData
  <2> HIDE DEF c, login
  <2>6. /\ q.location = login /\ q.seen = c.seen /\ q.pending = NoLocation
        /\ q.app = c.app /\ q.initial = c.initial /\ q.wanted = c.wanted
        /\ q.diverted = c.diverted /\ q.cameFrom = c.cameFrom /\ q.data = c.data
        /\ q.stranded = (p.location = login)
    BY <2>5 DEF PageRecord
  <2> HIDE DEF q
  <2>7. /\ q.seen = p.location /\ q.app = p.app /\ q.initial = p.initial
        /\ q.wanted = p.wanted /\ q.diverted = (p.diverted \/ p.location # p.pending)
        /\ q.cameFrom = IF CameFromAllowed(p.location) THEN p.location ELSE p.cameFrom
        /\ q.data = p.data
    BY <2>2, <2>4, <2>5, <2>6 DEF PageInv, SameUser, SameData
  <2>8. /\ IsLocation(login) /\ Real(login) /\ login.area = "login" /\ ~login.embed
        /\ ~login.old
    BY MadeLocations DEF login, Area, Location, Real, Areas, NoPage, BadPath
  <2>9. \A l : Target(q, l) = Target(p, l)
    BY <2>7, TargetKept
  <2>10. WayTypes(q)
    BY <2>0, <2>6, <2>7, <2>8 DEF WayTypes, WayInv
  <2>11. SameWay(q)
    <3>1. CASE p.location = p.pending
      <4>1. p.location.area = "r" /\ p.location # login
        BY <1>1, <2>8, <3>1
      <4>2. q.cameFrom = p.location
        BY <2>7, <4>1 DEF CameFromAllowed
      <4>3. p.diverted \/ Unfocused(Target(p, p.location)) = Unfocused(p.wanted)
        BY <2>0, <4>1 DEF SameWay, login
      <4> QED
        BY <2>6, <2>7, <2>9, <4>2, <4>3 DEF SameWay, login
    <3>2. CASE p.location # p.pending
      BY <2>7, <3>2 DEF SameWay
    <3> QED
      BY <3>1, <3>2
  <2>12. IsNormal(q)
    <3>1. Target(p, login) = login
      BY <2>8, TargetOfNormal
    <3> QED
      BY <2>6, <2>9, <3>1 DEF IsNormal
  <2>13. q.location = q.seen => IsGiven(q)
    BY <2>6, <2>7 DEF IsGiven
  <2> QED
    BY <2>1, <2>6, <2>8, <2>10, <2>11, <2>12, <2>13 DEF UnwatchedWay
<1>2. CASE ~(code = 401 /\ ~loggedIn)
  BY <1>2, ErrorWay, AnswerWay DEF HandleRoutingError
<1> QED
  BY <1>1, <1>2

\* A route that has its data.
LEMMA TakeWay ==
    ASSUME NEW p, PageInv(p), WayInv(p)
    PROVE  /\ IsOfPage(p.app, p.pending) => UnwatchedWay(Take(p))
           /\ p.pending.area # "r" =>
                UnwatchedWay(Answer(p, Routed(p, [_path |-> p.pending], p.pending.search)))
<1>0. PageTypes(p) /\ WayTypes(p) /\ SameWay(p) /\ p.seen = p.location /\ IsPlain(p.pending)
  BY DEF PageInv, WayInv, PageTypes
<1>1. IsOfPage(p.app, p.pending) => UnwatchedWay(Take(p))
  <2> DEFINE data == PageData(p)
  <2>1. DataAreOf(data, p.pending) /\ "resourceUrl" \in DOMAIN data
    BY DEF PageData, DataAreOf, Meta
  <2>2. ASSUME IsOfPage(p.app, p.pending), p.location = p.pending
        PROVE  UnwatchedWay(Routed(p, data, p.pending.search))
    <3> HIDE DEF data
    <3> QED
      BY <1>0, <2>1, <2>2, RoutedWay
  <2> QED
    BY <2>2, AnswerWay DEF Take
<1>2. p.pending.area # "r" =>
        UnwatchedWay(Answer(p, Routed(p, [_path |-> p.pending], p.pending.search)))
  <2> DEFINE data == [_path |-> p.pending]
  <2>1. DataAreOf(data, p.pending) /\ "resourceUrl" \notin DOMAIN data
    BY DEF DataAreOf
  <2>2. ASSUME p.pending.area # "r", p.location = p.pending
        PROVE  UnwatchedWay(Routed(p, data, p.pending.search))
    <3> HIDE DEF data
    <3> QED
      BY <1>0, <2>1, <2>2, RoutedWay
  <2> QED
    BY <2>2, AnswerWay
<1> QED
  BY <1>1, <1>2

\* The resource of a route is there.
LEMMA ResourceWay ==
    ASSUME NEW p, PageInv(p), WayInv(p), p.pending # NoLocation
    PROVE  UnwatchedWay(OnResource(p))
<1>0. PageTypes(p) /\ WayTypes(p) /\ SameWay(p) /\ IsPlain(p.pending) /\ Real(p.pending)
  BY DEF PageInv, WayInv, PageTypes, WayTypes
<1>1. CASE p.pending.old
  <2> DEFINE d == Divert(p)
             l == [Resource(p.pending.page) EXCEPT !.search = p.location.search]
             q == [d EXCEPT !.location = l]
             u == Unlock(q)
             f == [u EXCEPT !.seen = q.location]
  <2>1. OnResource(p) = FromLocation(f)
    BY <1>1 DEF OnResource
  <2>2. IsPlain(l) /\ Real(l) /\ ~l.embed /\ l.area = "r"
    BY DEF Resource, Location, IsPlain, IsLocation, Areas, Prefix, Redirects, Real
  <2>3. p.pending.area = "r"
    BY <1>0, <1>1 DEF Real
  <2>4. p.location = p.pending => Target(p, l) = Target(p, p.location)
    BY <1>0, <2>3, TargetOfOld DEF IsPlain
  <2> HIDE DEF l
  <2>5. /\ d \in PageRecord(d) /\ d.pending = p.pending /\ d.phase = p.phase /\ d.lock = p.lock
        /\ d.app = p.app /\ d.initial = p.initial
        /\ d.cameFrom = p.cameFrom /\ d.wanted = p.wanted /\ SameData(p, d)
        /\ d.diverted = (p.diverted \/ p.location # p.pending)
    BY <1>0 DEF Divert, PageTypes, PageRecord, SameData
  <2> HIDE DEF d
  <2>6. /\ q \in PageRecord(q) /\ q.location = l /\ SameUser(d, q) /\ SameRoute(d, q)
        /\ SameData(d, q)
    BY <2>5 DEF PageRecord, SameUser, SameRoute, SameData
  <2> HIDE DEF q
  <2>7. PageTypes(q)
    BY <1>0, <2>2, <2>5, <2>6 DEF PageTypes, SameUser, SameRoute, SameData, IsPlain
  <2>8. WayTypes(q)
    BY <1>0, <2>2, <2>5, <2>6 DEF WayTypes, SameUser, SameRoute, SameData
  <2>9. SameWay(q)
    <3>1. \A k : Target(q, k) = Target(p, k)
      BY <2>5, <2>6, TargetKept DEF SameUser
    <3>2. p.location = p.pending => p.location # Area("login")
      BY <2>3 DEF Area, Location
    <3> QED
      BY <1>0, <2>4, <2>5, <2>6, <3>1, <3>2 DEF SameWay, SameUser
  <2>10. PageTypes(u) /\ ~u.lock /\ u.location = l
    BY <2>6, <2>7, UnlockTypes
  <2>11. WayTypes(u) /\ SameWay(u)
    BY <2>7, <2>8, <2>9, UnlockWay
  <2> HIDE DEF u
  <2>12. /\ f \in PageRecord(f) /\ f.location = l /\ f.seen = l /\ f.lock = u.lock
         /\ f.data = u.data
         /\ SameUser(u, f) /\ SameRoute(u, f) /\ SameData(u, f)
    BY <2>6, <2>10 DEF PageTypes, PageRecord, SameUser, SameRoute, SameData
  <2> HIDE DEF f
  <2>13. PageTypes(f)
    BY <2>10, <2>12 DEF PageTypes, SameUser, SameRoute
  <2>14. WayTypes(f) /\ SameWay(f)
    BY <2>10, <2>11, <2>12, WayKept
  <2>15. Unrouted(f) /\ UnroutedWay(f)
    BY <2>2, <2>10, <2>12, <2>13, <2>14 DEF Unrouted, UnroutedWay, IsPlain
  <2> QED
    BY <2>1, <2>15, FromLocationWay, SettledWayIsUnwatched
<1>2. CASE ~p.pending.old
  <2> DEFINE q == [p EXCEPT !.phase = "options"]
  <2>1. /\ q.location = p.location /\ q.seen = p.seen /\ q.phase = "options"
        /\ q.lock = p.lock /\ q.pending = p.pending /\ SameUser(p, q) /\ SameData(p, q)
    BY <1>0 DEF PageTypes, PageRecord, SameUser, SameData
  <2> HIDE DEF q
  <2>2. SameWay(q) /\ (IsNormal(p) => IsNormal(q)) /\ (IsGiven(p) => IsGiven(q))
    BY <1>0, <2>1, WayKept
  <2>3. IsOfPage(p.app, p.pending) => WayTypes(q)
    BY <1>0, <2>1 DEF WayTypes, SameUser, SameData
  <2>4. IsOfPage(p.app, p.pending) => UnwatchedWay(q)
    BY <2>1, <2>2, <2>3 DEF UnwatchedWay, WayInv
  <2>5. p.pending.area = "r" \/ p.pending.area = "register"
    BY <1>0 DEF WayTypes, IsPlain, IsLocation, Areas, DefaultRoutes, Redirects, Prefix, Real
  <2>6. CASE p.pending.area = "register"
    BY <1>2, <2>6, TakeWay DEF OnResource
  <2>7. CASE p.pending.area = "r" /\ ~Has(p.app, p.pending.page)
    BY <1>2, <2>7, FailureWay DEF OnResource
  <2>8. CASE p.pending.area = "r" /\ Has(p.app, p.pending.page)
    <3>1. IsOfPage(p.app, p.pending)
      BY <1>2, <2>8 DEF IsOfPage
    <3>2. OnResource(p) = Take(p) \/ OnResource(p) = q
      BY <1>2, <2>8 DEF OnResource, q
    <3> QED
      BY <2>4, <3>1, <3>2, TakeWay
  <2> QED
    BY <2>5, <2>6, <2>7, <2>8
<1> QED
  BY <1>1, <1>2
\* A column takes the focus: of a page that is not about to be left, its location
\* keeps all but the focus.
LEMMA FocusWay ==
    ASSUME NEW p, PageInv(p), WayInv(p), "resourceUrl" \in DOMAIN p.data
    PROVE  UnwatchedWay(SetFocus(p))
<1> DEFINE source == p.data["resourceUrl"]
           data == [key \in DOMAIN p.data \cup {"focus"} |->
                       p.data[IF key = "focus" THEN "resourceUrl" ELSE key]]
           given == p.given \cup {"focus"}
           d == [p EXCEPT !.data = data, !.given = given,
                          !.diverted = @ \/ p.lock \/ p.stranded]
           g == GetArea(d)
           l == Reverse(d)
           q == [g EXCEPT !.location = Reverse(d)]
<1>0. PageTypes(p) /\ WayTypes(p) /\ SameWay(p) /\ p.seen = p.location
  BY DEF PageInv, WayInv
<1>1. /\ data["resourceUrl"] = source /\ "resourceUrl" \in DOMAIN data
      /\ "space" \in DOMAIN p.data => "space" \in DOMAIN data
  OBVIOUS
<1>2. IsPlain(source) /\ IsLocation(source) /\ IsOfPage(p.app, source)
  BY <1>0 DEF PageTypes, WayTypes, IsPlain
<1> HIDE DEF data, given, source
<1>3. /\ d \in PageRecord(d) /\ d.location = p.location /\ d.seen = p.seen
      /\ d.app = p.app /\ d.initial = p.initial /\ d.wanted = p.wanted
      /\ d.cameFrom = p.cameFrom /\ SameRoute(p, d) /\ d.stranded = p.stranded
      /\ d.data = data /\ d.given = given
      /\ d.diverted = (p.diverted \/ p.lock \/ p.stranded)
  BY <1>0 DEF PageTypes, PageRecord, SameRoute
<1>4. q = SetFocus(p)
  BY DEF SetFocus, ToLocation, data, given
<1> HIDE DEF d
<1>5. PageTypes(d)
  BY <1>0, <1>1, <1>2, <1>3 DEF PageTypes, SameRoute
<1>6. /\ PageTypes(g) /\ g.seen = d.seen
      /\ SameUser(d, g) /\ SameRoute(d, g) /\ SameData(d, g)
  BY <1>5, GetAreaTypes, GetAreaWay
<1> HIDE DEF g, l
<1>7. q.location = l /\ q.seen = g.seen /\ SameUser(g, q) /\ SameRoute(g, q) /\ SameData(g, q)
  BY <1>6 DEF PageTypes, PageRecord, SameUser, SameRoute, SameData, l
<1> HIDE DEF q
<1>8. /\ q.location = l /\ q.seen = p.location /\ q.app = p.app /\ q.initial = p.initial
      /\ q.wanted = p.wanted /\ q.cameFrom = p.cameFrom /\ SameRoute(p, q)
      /\ q.stranded = p.stranded /\ q.data = data /\ q.given = given
      /\ q.diverted = (p.diverted \/ p.lock \/ p.stranded)
  BY <1>0, <1>3, <1>6, <1>7 DEF SameUser, SameRoute, SameData
<1> DEFINE table == PageAt(p.app, source).search
           search == given \cap table
<1>9. l = [source EXCEPT !.search = search]
  BY <1>1, <1>3 DEF Reverse, l
<1> HIDE DEF search, table
<1>10. /\ IsLocation(l) /\ l.area = "r" /\ l.page = source.page /\ l.search = search
       /\ ~l.old /\ ~l.embed
  BY <1>2, <1>9 DEF IsLocation, IsOfPage, IsPlain, Prefix, Redirects
<1>11. PageAt(p.app, l) = PageAt(p.app, source)
  BY <1>10 DEF PageAt
<1>12. Target(p, l) = l
  BY <1>10, <1>11, TargetOfNormal DEF search, table
<1>13. \A k : Target(q, k) = Target(p, k)
  BY <1>8, TargetKept
<1>14. WayTypes(q)
  <2>1. Real(l)
    BY <1>10 DEF Real
  <2> QED
    BY <1>0, <1>1, <1>2, <1>8, <1>10, <2>1 DEF WayTypes, SameRoute
<1>15. ASSUME ~p.lock, ~p.stranded
       PROVE  p.location = source /\ p.given \ {"focus"} = source.search \ {"focus"}
  <2>1. Following(p)
    BY <1>15 DEF PageInv, IsFine
  <2>2. p.location = source
    BY <2>1 DEF Following, DataAreOf, source
  <2>3. IsGiven(p)
    BY <1>15 DEF WayInv
  <2> QED
    BY <1>15, <2>2, <2>3 DEF IsGiven
<1>16. SameWay(q)
  <2> SUFFICES ASSUME ~p.diverted, ~p.lock, ~p.stranded
               PROVE  Unfocused(l) = Unfocused(p.wanted)
    BY <1>8, <1>12, <1>13 DEF SameWay
  <2>1. p.location = source /\ p.given \ {"focus"} = source.search \ {"focus"}
    BY <1>15
  <2>2. Target(p, source) = Location("r", source.page, source.search \cap table)
    BY <1>2 DEF Target, IsOfPage, table
  <2>3. l = Location("r", source.page, search)
    BY <1>10, LocationIs DEF Location, IsLocation
  <2>4. search \ {"focus"} = (source.search \cap table) \ {"focus"}
    BY <2>1 DEF search, given
  <2>5. Unfocused(l) = Unfocused(Target(p, source))
    <3>1. ASSUME NEW s
          PROVE  Unfocused(Location("r", source.page, s))
                   = Location("r", source.page, s \ {"focus"})
      <4> DEFINE k == Location("r", source.page, s)
                 m == [k EXCEPT !.search = s \ {"focus"}]
      <4>1. /\ m.area = "r" /\ m.page = source.page /\ m.search = s \ {"focus"}
            /\ m.old = FALSE /\ m.embed = FALSE /\ IsLocation(m)
        BY DEF Location, IsLocation, Areas
      <4>2. m = Unfocused(k)
        BY DEF Unfocused, Location
      <4> HIDE DEF k, m
      <4>3. m = Location("r", source.page, s \ {"focus"})
        BY <4>1, LocationIs DEF Location
      <4> QED
        BY <4>2, <4>3 DEF k
    <3> QED
      BY <2>2, <2>3, <2>4, <3>1
  <2>6. p.location # Area("login")
    BY <1>2, <2>1 DEF IsOfPage, Area, Location
  <2> QED
    BY <1>0, <2>1, <2>5, <2>6 DEF SameWay
<1>17. IsNormal(q)
  BY <1>8, <1>12, <1>13 DEF IsNormal
<1>18. q.location = q.seen /\ ~q.lock => IsGiven(q)
  <2> SUFFICES ASSUME l = p.location, ~p.lock, ~p.stranded
               PROVE  given \ {"focus"} = l.search \ {"focus"}
    BY <1>8 DEF IsGiven, SameRoute
  <2> QED
    BY <1>15 DEF given
<1>19. ~q.location.embed
  BY <1>8, <1>10
<1> QED
  BY <1>4, <1>14, <1>16, <1>17, <1>18, <1>19 DEF UnwatchedWay

\* A page that was just opened, within another one.
LEMMA NewWay ==
    ASSUME NEW app \in Apps, NEW url, IsLocation(url), Real(url)
    PROVE  UnwatchedWay(NewPage(app, [url EXCEPT !.embed = TRUE]))
<1> DEFINE location == [url EXCEPT !.embed = TRUE]
           initial == Initial(location)
           p == NewPage(app, location)
<1>1. IsLocation(location) /\ location.embed /\ Real(location)
  BY DEF IsLocation, Real
<1> HIDE DEF location
<1>2. Real(initial)
  <2> DEFINE l == [location EXCEPT !.embed = FALSE]
  <2>1. Real(l)
    BY <1>1 DEF IsLocation, Real
  <2>2. Real(Resource(Missing))
    BY DEF Resource, Location, Real
  <2>3. initial \in {l, Resource(Missing)}
    BY DEF Initial
  <2> QED
    BY <2>1, <2>2, <2>3
<1> DEFINE to == [app |-> app, initial |-> initial]
<1>3. /\ p.app = app /\ p.location = location /\ p.initial = initial /\ ~p.lock
      /\ p.seen = NoLocation /\ p.cameFrom = NoLocation /\ p.pending = NoLocation
      /\ p.data = <<>> /\ p.wanted = Target(to, location)
  BY DEF NewPage
<1>4. to.app = app /\ to.initial = initial
  OBVIOUS
<1> HIDE DEF p, to, initial
<1>5. Target(p, location) = Target(to, location)
  BY <1>3, <1>4, TargetKept
<1>6. SameWay(p)
  BY <1>3, <1>5 DEF SameWay
<1>7. DOMAIN p.data = {}
  BY <1>3
<1>8. WayTypes(p)
  BY <1>1, <1>2, <1>3, <1>7 DEF WayTypes
<1>9. location # NoLocation
  <2>1. ~NoLocation.embed
    BY DEF NoLocation, Area, Location
  <2> QED
    BY <1>1, <2>1
<1> QED
  BY <1>3, <1>6, <1>8, <1>9 DEF UnwatchedWay, p, location, initial

\* The page, the URL that it starts again from, and its way.
WaysInv == RoutingInv /\ WayInv(page) /\ Real(embedder.url)

\* The watches run in every digest.
LEMMA DigestWay ==
    ASSUME WaysInv, NEW s, NEW u, NEW p, Unwatched(p), UnwatchedWay(p), Digest(s, u, p)
    PROVE  WaysInv'
<1>1. RoutingInv'
  BY DigestSettles DEF WaysInv
<1>2. WayInv(page')
  BY WatchWay DEF Digest
<1>3. Real(page'.location)
  BY <1>2 DEF WayInv, WayTypes
<1>4. embedder'.url \in {page'.location, embedder.url}
  <2> DEFINE e == SendLoginState(embedder, s, user')
  <2>1. embedder' = UrlChange(e, page')
    BY DEF Digest
  <2>2. e.url = embedder.url
    BY DEF SendLoginState
  <2> HIDE DEF e
  <2> QED
    BY <2>1, <2>2 DEF UrlChange
<1> QED
  BY <1>1, <1>2, <1>3, <1>4 DEF WaysInv

\* What the sessions do.
LEMMA SessionsKeepWays ==
    ASSUME WaysInv, Sessions
    PROVE  WaysInv'
<1>0. /\ Unwatched(page) /\ UnwatchedWay(page) /\ PageInv(page) /\ WayInv(page)
      /\ RoutingInv' /\ RoutingInv
  BY SettledIsUnwatched, SettledWayIsUnwatched, SessionsSettle DEF WaysInv, RoutingInv
<1>1. ASSUME NEW s, NEW u, Digest(s, u, page)
      PROVE  WaysInv'
  BY <1>0, <1>1, DigestWay
<1>2. ASSUME UNCHANGED <<page, embedder>>
      PROVE  WaysInv'
  BY <1>0, <1>2 DEF WaysInv
<1>3. ASSUME NEW t, NEW s, InTab(t, s)
      PROVE  WaysInv'
  BY <1>1, <1>2, <1>3 DEF InTab, NoDigest
<1>4. CASE \E t \in Tab : Clear(t) \/ StorageEvent(t) \/ LogOut(t)
  BY <1>3, <1>4 DEF Clear, StorageEvent, LogOut
<1>5. CASE \E t \in Tab, token \in Token :
               HeadAnswers(t, token) \/ HeadFails(t, token) \/ OtherLogsIn(t, token)
  BY <1>2, <1>3, <1>5 DEF HeadAnswers, HeadFails, OtherLogsIn, Check, NoDigest
<1>6. CASE \E token \in Token :
               \/ SubmitLogIn(token) \/ SetToken(token)
               \/ UserAnswers(token) \/ UserRefused(token) \/ UserLost(token)
  BY <1>1, <1>2, <1>6
     DEF SubmitLogIn, SetToken, NoDigest, UserAnswers, UserRefused, UserLost
<1>7. CASE \E token \in Token : SaveUser(token)
  <2> DEFINE own == Resource(<<"user", "">>)
  <2>1. IsLocation(own) /\ Real(own) /\ ~own.embed
    BY MadeLocations DEF Resource, Location, Real
  <2> HIDE DEF own
  <2>2. Unwatched(Go(page, own)) /\ UnwatchedWay(Go(page, own))
    BY <1>0, <2>1, GoIsUnwatched, GoWay
  <2> QED
    BY <1>7, <2>2, DigestWay DEF SaveUser, own
<1>8. CASE LogInAnswers \/ LogInFails
  BY <1>0, <1>1, <1>8, GoBackIsUnwatched, GoBackWay, DigestWay DEF LogInAnswers, LogInFails
<1>9. CASE Setup
  <2> DEFINE e == [embedder EXCEPT !.setup = TRUE]
             k == SendLoginState(e, session, user)
  <2>1. k.url = e.url
    BY DEF SendLoginState
  <2>2. e.url = embedder.url \/ e.url = page.location
    OBVIOUS
  <2> HIDE DEF e, k
  <2>3. embedder' = UrlChange(k, page) /\ page' = page
    BY <1>9 DEF Setup, e, k
  <2>4. embedder'.url = embedder.url \/ embedder'.url = page.location
    BY <2>1, <2>2, <2>3 DEF UrlChange
  <2> QED
    BY <1>0, <2>3, <2>4 DEF WaysInv, WayInv, WayTypes
<1>10. CASE EmbedderDeletesToken
  BY <1>2, <1>10 DEF EmbedderDeletesToken, NoDigest
<1>11. CASE Reload
  <2> DEFINE p == NewPage(page.app, [embedder.url EXCEPT !.embed = TRUE])
  <2>1. /\ page' = WatchLocation(p)
        /\ embedder'.url = embedder.url
    BY <1>11 DEF Reload, NewEmbedder
  <2>2. Unwatched(p) /\ UnwatchedWay(p)
    BY <1>0, NewIsUnwatched, NewWay DEF WaysInv, RoutingInv, WayInv, WayTypes
  <2> HIDE DEF p
  <2> QED
    BY <1>0, <2>1, <2>2, WatchWay DEF WaysInv
<1> QED
  BY <1>4, <1>5, <1>6, <1>7, <1>8, <1>9, <1>10, <1>11 DEF Sessions

\* Where the user goes, and what comes for the routes.
LEMMA NavigationKeepsWays ==
    ASSUME WaysInv, Navigation \/ Routing
    PROVE  WaysInv'
<1>0. PageInv(page) /\ WayInv(page)
  BY DEF WaysInv, RoutingInv
<1>1. ASSUME NEW s, NEW u, NEW location, IsLocation(location), Real(location),
             ~location.embed, Digest(s, u, Go(page, location))
      PROVE  WaysInv'
  BY <1>0, <1>1, GoIsUnwatched, GoWay, DigestWay
<1>2. CASE Click
  <2>1. PICK link : Digest(session, user, Go(page, Resource(link)))
    BY <1>2 DEF Click
  <2>2. IsLocation(Resource(link)) /\ Real(Resource(link)) /\ ~Resource(link).embed
    BY MadeLocations DEF Resource, Location, Real
  <2> QED
    BY <1>1, <2>1, <2>2
<1>3. CASE \E mark \in Bookmarks[page.app] : Visit(Bookmark(mark))
  <2>1. PICK mark \in Bookmarks[page.app] : Digest(session, user, Go(page, Bookmark(mark)))
    BY <1>3 DEF Visit
  <2>2. mark.page = BadPath => ~mark.old
    BY <1>0, <2>1, RoutesAssumption DEF WayInv, WayTypes
  <2>3. Real(Bookmark(mark)) /\ ~Bookmark(mark).embed
    BY <2>2 DEF Bookmark, Location, Real
  <2> QED
    BY <1>1, <2>1, <2>3, MadeLocations
<1>4. ASSUME NEW area \in Areas \ {"nothing yet", "r"}
      PROVE  IsLocation(Area(area)) /\ Real(Area(area)) /\ ~Area(area).embed
  BY MadeLocations DEF Area, Location, Real, NoPage, BadPath
<1>5. CASE \E area \in {"", "elsewhere"} : Visit(Area(area))
  BY <1>1, <1>4, <1>5 DEF Visit, Areas
<1>6. CASE \E area \in {"login", "register"} : GoToLogIn(area)
  <2>1. PICK area \in {"login", "register"} :
            Digest(session, user, Go(SetCameFrom(page), Area(area)))
    BY <1>6 DEF GoToLogIn
  <2>2. PageInv(SetCameFrom(page)) /\ WayInv(SetCameFrom(page))
    BY <1>0, SetCameFromSettles, SetCameFromWay
  <2> QED
    BY <1>4, <2>1, <2>2, GoIsUnwatched, GoWay, DigestWay DEF Areas
<1>7. CASE Cancel
  BY <1>0, <1>7, GoBackIsUnwatched, GoBackWay, DigestWay DEF Cancel
<1>8. CASE FocusColumn
  <2>1. /\ ~page.blockTemplate /\ page.area = "r" /\ "resourceUrl" \in DOMAIN page.data
        /\ Digest(session, user, SetFocus(page))
    BY <1>8 DEF FocusColumn, ShowingPage, Showing
  <2> QED
    BY <1>0, <2>1, FocusIsUnwatched, FocusWay, DigestWay
<1>9. ASSUME page.pending # NoLocation
      PROVE  Real(page.pending) /\ (page.phase = "options" => IsOfPage(page.app, page.pending))
  BY <1>0, <1>9 DEF WayInv, WayTypes
<1>10. CASE ResourceAnswers
  BY <1>0, <1>10, ResourceIsUnwatched, ResourceWay, DigestWay DEF ResourceAnswers, Waiting
<1>11. CASE ResourceMissing
  BY <1>0, <1>11, FailureIsUnwatched, FailureWay, DigestWay DEF ResourceMissing, Waiting
<1>12. CASE ResourceForbidden
  BY <1>0, <1>12, FailureIsUnwatched, FailureWay, DigestWay
     DEF ResourceForbidden, OnForbidden, Waiting
<1>13. CASE OptionsAnswer
  <2> DEFINE p == OnOptions(page, session.tab[This].token = Moderator, LoggedIn)
  <2>1. page.pending # NoLocation /\ IsOfPage(page.app, page.pending)
    BY <1>9, <1>13 DEF OptionsAnswer, Waiting
  <2>2. Unwatched(p) /\ UnwatchedWay(p)
    BY <1>0, <2>1, TakeIsUnwatched, FailureIsUnwatched, TakeWay, FailureWay
       DEF OnOptions, IsOfPage
  <2> QED
    BY <1>13, <2>2, DigestWay DEF OptionsAnswer
<1> QED
  BY <1>2, <1>3, <1>5, <1>6, <1>7, <1>8, <1>10, <1>11, <1>12, <1>13 DEF Navigation, Routing

\* The location leads to where the user asked to go (TopLevelState.ts,
\* ResourceArea.ts), in every state.
THEOREM WaysAreKept == Spec => []WaysInv
<1>1. Init => WaysInv
  <2> SUFFICES ASSUME Init
               PROVE  WaysInv
    OBVIOUS
  <2>1. PICK app \in Apps : page = WatchLocation(NewPage(app, [HomePage EXCEPT !.embed = TRUE]))
    BY DEF Init
  <2>2. embedder.url = HomePage
    BY DEF Init, NewEmbedder
  <2>3. IsLocation(HomePage) /\ Real(HomePage)
    BY MadeLocations DEF HomePage, Resource, Location, Real
  <2> QED
    BY <2>1, <2>2, <2>3, NewIsUnwatched, NewWay, WatchSettles, WatchWay DEF WaysInv, RoutingInv
<1>2. WaysInv /\ [Next]_vars => WaysInv'
  <2>1. WaysInv /\ UNCHANGED vars => WaysInv'
    BY DEF vars, WaysInv, RoutingInv
  <2> QED
    BY <2>1, SessionsKeepWays, NavigationKeepsWays DEF Next
<1> QED
  BY <1>1, <1>2, PTL DEF Spec

\* A user gets to where he asked to go, to an error there, or to the login with a way
\* back (TopLevelState.ts), unless he was taken elsewhere: on every workbench.
THEOREM UserAlwaysGetsThere == Spec => []UserGetsThere
<1>1. WaysInv => UserGetsThere
  BY DEF WaysInv, WayInv, SameWay, IsNormal, UserGetsThere
<1> QED
  BY <1>1, WaysAreKept, PTL

--------------------------------------------------------------------------------
(* The pages of the workbenches, and their columns.                             *)

\* The keys of a workbench's pages.
Keys(app) == {Key(pg) : pg \in Pages(app)}
\* What a column of a page needs and leads to is there.
ColumnFits(app, pg, column) ==
    /\ column.keys \subseteq Meta \cup pg.keys
                         \cup (IF app = "s1" /\ pg.type = "comment" THEN {"meeting"} ELSE {})
    /\ \A link \in column.links : link \in Keys(app) \/ (app = "mercator2015" /\ link[1] = "item")
PageFits(app, pg) == \A i \in Visible(pg) : ColumnFits(app, pg, Columns(app, pg)[i])

IsPage(pg, type, view, columns, keys) ==
    pg.type = type /\ pg.view = view /\ pg.columns = columns /\ pg.keys = keys
HasPage(app, type, view) == <<type, view>> \in Keys(app)

\* What a page is made of.
LEMMA PageIs ==
    ASSUME NEW type, NEW view, NEW columns, NEW needs, NEW keys
    PROVE  /\ IsPage(Page(type, view, columns, needs, keys), type, view, columns, keys)
           /\ IsPage(Versions(Page(type, view, columns, needs, keys)), type, view, columns, keys)
           /\ \A search :
                /\ IsPage(Searchable(Page(type, view, columns, needs, keys), search),
                          type, view, columns, keys \cup search)
                /\ IsPage(Searchable(Versions(Page(type, view, columns, needs, keys)), search),
                          type, view, columns, keys \cup search)
BY DEF IsPage, Page, Versions, Searchable

\* It has its key.
LEMMA KeyIs ==
    ASSUME NEW app, NEW type, NEW view, NEW columns, NEW needs, NEW keys
    PROVE  LET pg == Page(type, view, columns, needs, keys)
           IN  /\ pg \in Pages(app) => HasPage(app, type, view)
               /\ Versions(pg) \in Pages(app) => HasPage(app, type, view)
               /\ \A search : /\ Searchable(pg, search) \in Pages(app) => HasPage(app, type, view)
                              /\ Searchable(Versions(pg), search) \in Pages(app) => HasPage(app, type, view)
<1>1. ASSUME NEW pg \in Pages(app), NEW given, IsPage(pg, type, view, columns, given)
      PROVE  HasPage(app, type, view)
  BY <1>1 DEF IsPage, HasPage, Keys, Key
<1> QED
  BY <1>1, PageIs

\* The layouts are different.
LEMMA LayoutsDiffer ==
    /\ SHH # SSH /\ SHH # CSH /\ SHH # CSS /\ SHH # NoColumns /\ SSH # CSH /\ SSH # CSS
    /\ SSH # NoColumns /\ CSH # CSS /\ CSH # NoColumns /\ CSS # NoColumns
BY DEF SHH, SSH, CSH, CSS, NoColumns

\* The columns that each of them shows.
LEMMA VisibleAre ==
    ASSUME NEW pg
    PROVE  /\ pg.columns = SHH => Visible(pg) = {1}
           /\ pg.columns = SSH => Visible(pg) = {1, 2}
           /\ pg.columns = CSH => Visible(pg) = {1, 2}
           /\ pg.columns = CSS => Visible(pg) = {1, 2, 3}
           /\ pg.columns = NoColumns => Visible(pg) = {}
BY DEF Visible, SHH, SSH, CSH, CSS, NoColumns

\* A column that needs what is given, and leads to pages.
LEMMA ColumnIsFit ==
    ASSUME NEW app, NEW pg, NEW keys, NEW links,
           keys \subseteq Meta \cup pg.keys, links \subseteq Keys(app)
    PROVE  ColumnFits(app, pg, Column(keys, links))
BY DEF ColumnFits, Column

\* The comments of a page that gives them what they are about.
LEMMA CommentsFit ==
    ASSUME NEW app, NEW pg, NEW link, Comments \subseteq pg.keys, link \in Keys(app)
    PROVE  ColumnFits(app, pg, CommentColumn(link))
BY DEF ColumnFits, Column, CommentColumn

\* The first columns of a page fit, as many as are shown.
LEMMA PageIsFit ==
    ASSUME NEW app, NEW pg, NEW cs, Columns(app, pg) = cs,
           pg.columns \in {NoColumns, SHH, SSH, CSH, CSS},
           pg.columns # NoColumns => ColumnFits(app, pg, cs[1]),
           pg.columns \in {SSH, CSH, CSS} => ColumnFits(app, pg, cs[2]),
           pg.columns = CSS => ColumnFits(app, pg, cs[3])
    PROVE  PageFits(app, pg)
BY VisibleAre, LayoutsDiffer DEF PageFits

\* The pages that every workbench has: of users, with one column, and of texts.
LEMMA CommonPagesFit ==
    ASSUME NEW app \in Apps, NEW pg \in UserPages \cup ContentPages
    PROVE  PageFits(app, pg)
<1>1. ASSUME NEW view, NEW needs, pg = Page("user", view, SHH, needs, {"userUrl"})
      PROVE  PageFits(app, pg)
  <2>1. IsPage(pg, "user", view, SHH, {"userUrl"})
    BY <1>1, PageIs
  <2>2. Columns(app, pg) = UserColumns(pg)
    BY <2>1 DEF IsPage, Columns
  <2>3. HasPage(app, "user", "")
    <3>1. Page("user", "", SHH, "", {"userUrl"}) \in Pages(app)
      BY DEF Pages, UserPages
    <3> QED
      BY <3>1, KeyIs
  <2>4. ColumnFits(app, pg, Column({"userUrl"}, {<<"user", "">>}))
    BY <2>1, <2>3, ColumnIsFit DEF IsPage, HasPage
  <2>5. UserColumns(pg)[1] = Column({"userUrl"}, {<<"user", "">>})
    BY DEF UserColumns
  <2> QED
    BY <2>1, <2>2, <2>4, <2>5, PageIsFit, LayoutsDiffer DEF IsPage
<1>2. CASE pg = Page("page", "", NoColumns, "", {})
  <2>1. pg.columns = NoColumns
    BY <1>2 DEF Page
  <2> QED
    BY <2>1, VisibleAre DEF PageFits
<1> QED
  BY <1>1, <1>2 DEF UserPages, ContentPages

--------------------------------------------------------------------------------

\* Idea collections and polls: the pages.
LEMMA IdeaPagesAre ==
    ASSUME NEW b \in BOOLEAN, NEW pg \in IdeaCollectionPages(b)
    PROVE  \/ \E view \in {"", "edit"} : IsPage(pg, "process", view, SHH, {})
           \/ IsPage(pg, "process", "create_proposal", SSH, {})
           \/ \E view \in {"", "edit", "image"} : IsPage(pg, "proposal", view, SSH, {"proposalUrl"})
           \/ /\ b
              /\ \/ IsPage(pg, "proposal", "comments", CSS, Comments \cup {"proposalUrl"})
                 \/ IsPage(pg, "comment", "", CSS, Comments \cup {"proposalUrl"})
<1>1. ASSUME NEW view, NEW needs, NEW columns, pg = Page("process", view, columns, needs, {})
      PROVE  IsPage(pg, "process", view, columns, {})
  BY <1>1, PageIs
<1>2. ASSUME NEW view, NEW needs, pg = Versions(Page("proposal", view, SSH, needs, {"proposalUrl"}))
      PROVE  IsPage(pg, "proposal", view, SSH, {"proposalUrl"})
  BY <1>2, PageIs
<1>3. ASSUME NEW type, NEW view, pg = Versions(Page(type, view, CSS, "", Comments \cup {"proposalUrl"}))
      PROVE  IsPage(pg, type, view, CSS, Comments \cup {"proposalUrl"})
  BY <1>3, PageIs
<1>4. CASE pg \in ProposalPages
  BY <1>1, <1>2, <1>4 DEF ProposalPages
<1>5. CASE pg \notin ProposalPages
  BY <1>3, <1>5 DEF IdeaCollectionPages
<1> QED
  BY <1>4, <1>5

\* They fit.
LEMMA IdeaPagesFit ==
    ASSUME NEW b \in BOOLEAN, NEW app, app = IF b THEN "ideas" ELSE "poll",
           NEW pg \in IdeaCollectionPages(b)
    PROVE  PageFits(app, pg)
<1> DEFINE cs == IdeaCollectionColumns(pg, b)
           process == Column({"processUrl"}, {Home, <<"process", "create_proposal">>})
           create == Column({"processUrl"}, {Home})
           proposal == Column({"processUrl", "proposalUrl"}, {Home, <<"proposal", "">>})
<1>1. Columns(app, pg) = cs
  BY IdeaPagesAre DEF IsPage, Columns
<1>2. /\ Page("process", "", SHH, "", {}) \in Pages(app)
      /\ Page("process", "create_proposal", SSH, "POST", {}) \in Pages(app)
      /\ Versions(Page("proposal", "", SSH, "", {"proposalUrl"})) \in Pages(app)
  BY DEF Pages, IdeaCollectionPages, ProposalPages
<1>3. /\ HasPage(app, "process", "")
      /\ HasPage(app, "process", "create_proposal")
      /\ HasPage(app, "proposal", "")
  BY <1>2, KeyIs
<1>4. /\ Home \in Keys(app)
      /\ <<"process", "create_proposal">> \in Keys(app)
      /\ <<"proposal", "">> \in Keys(app)
  BY <1>3 DEF HasPage, Home
<1>5. ColumnFits(app, pg, process) /\ ColumnFits(app, pg, create)
  BY <1>4, ColumnIsFit DEF Meta
<1>6. "proposalUrl" \in pg.keys => ColumnFits(app, pg, proposal)
  BY <1>4, ColumnIsFit DEF Meta
<1>7. ColumnFits(app, pg, NoColumn)
  BY ColumnIsFit DEF NoColumn
<1>8. Comments \subseteq pg.keys => ColumnFits(app, pg, CommentColumn(<<"proposal", "">>))
  BY <1>4, CommentsFit
<1>9. /\ cs[1] = process
      /\ pg.view = "create_proposal" => cs[2] = create
      /\ pg.view # "create_proposal" => cs[2] \in {proposal, NoColumn}
      /\ b => cs[3] = CommentColumn(<<"proposal", "">>)
  BY DEF IdeaCollectionColumns
<1> HIDE DEF cs, process, create, proposal
<1>10. /\ pg.columns \in {SHH, SSH, CSS}
       /\ pg.columns # SHH => pg.view = "create_proposal" \/ "proposalUrl" \in pg.keys
       /\ pg.columns = CSS => b /\ Comments \subseteq pg.keys
  BY IdeaPagesAre, LayoutsDiffer DEF IsPage
<1> QED
  BY <1>1, <1>5, <1>6, <1>7, <1>8, <1>9, <1>10, PageIsFit, LayoutsDiffer

\* Debates: the pages.
LEMMA DebatePagesAre ==
    ASSUME NEW pg \in DebatePages
    PROVE  \/ \E view \in {"", "create_document"} : IsPage(pg, "process", view, SHH, {})
           \/ \E view \in {"", "edit"} : IsPage(pg, "document", view, SSH, {"documentUrl"})
           \/ IsPage(pg, "paragraph", "comments", CSS, Comments \cup {"documentUrl"})
           \/ IsPage(pg, "comment", "", CSS, Comments \cup {"documentUrl"})
<1>1. ASSUME NEW view, NEW needs, pg = Page("process", view, SHH, needs, {})
      PROVE  IsPage(pg, "process", view, SHH, {})
  BY <1>1, PageIs
<1>2. ASSUME NEW view, NEW needs, pg = Versions(Page("document", view, SSH, needs, {"documentUrl"}))
      PROVE  IsPage(pg, "document", view, SSH, {"documentUrl"})
  BY <1>2, PageIs
<1>3. ASSUME NEW type, NEW view, pg = Versions(Page(type, view, CSS, "", Comments \cup {"documentUrl"}))
      PROVE  IsPage(pg, type, view, CSS, Comments \cup {"documentUrl"})
  BY <1>3, PageIs
<1> QED
  BY <1>1, <1>2, <1>3 DEF DebatePages

\* They fit.
LEMMA DebatePagesFit ==
    ASSUME NEW pg \in DebatePages
    PROVE  PageFits("debate", pg)
<1> DEFINE app == "debate"
           cs == DebateColumns(pg)
           process == Column({"processUrl"}, {Home, <<"process", "create_document">>})
           create == Column({"processUrl"}, {Home})
           document == Column({"processUrl", "documentUrl"}, {Home, <<"document", "">>})
<1>1. Columns(app, pg) = cs
  BY DebatePagesAre DEF IsPage, Columns
<1>2. /\ Page("process", "", SHH, "", {}) \in Pages(app)
      /\ Page("process", "create_document", SHH, "POST", {}) \in Pages(app)
      /\ Versions(Page("document", "", SSH, "", {"documentUrl"})) \in Pages(app)
  BY DEF Pages, DebatePages
<1>3. /\ HasPage(app, "process", "")
      /\ HasPage(app, "process", "create_document")
      /\ HasPage(app, "document", "")
  BY <1>2, KeyIs
<1>4. /\ Home \in Keys(app)
      /\ <<"process", "create_document">> \in Keys(app)
      /\ <<"document", "">> \in Keys(app)
  BY <1>3 DEF HasPage, Home
<1>5. ColumnFits(app, pg, process) /\ ColumnFits(app, pg, create)
  BY <1>4, ColumnIsFit DEF Meta
<1>6. "documentUrl" \in pg.keys => ColumnFits(app, pg, document)
  BY <1>4, ColumnIsFit DEF Meta
<1>7. Comments \subseteq pg.keys => ColumnFits(app, pg, CommentColumn(<<"document", "">>))
  BY <1>4, CommentsFit
<1>8. cs[1] \in {process, create} /\ cs[2] = document /\ cs[3] = CommentColumn(<<"document", "">>)
  BY DEF DebateColumns
<1> HIDE DEF cs, process, create, document
<1>9. /\ pg.columns \in {SHH, SSH, CSS}
      /\ pg.columns # SHH => "documentUrl" \in pg.keys
      /\ pg.columns = CSS => Comments \subseteq pg.keys
  BY DebatePagesAre, LayoutsDiffer DEF IsPage
<1> QED
  BY <1>1, <1>5, <1>6, <1>7, <1>8, <1>9, PageIsFit, LayoutsDiffer

\* S1: the pages.
LEMMA S1PagesAre ==
    ASSUME NEW pg \in S1Pages
    PROVE  \/ pg.columns = NoColumns
           \/ IsPage(pg, "process", "create-proposal", SHH, {"targetMeeting"})
           \/ \E view \in {"current", "archive", "next"} : IsPage(pg, "process", view, SHH, {} \cup {"meeting"})
           \/ \E view \in {"", "edit"} : IsPage(pg, "proposal", view, SSH, {"proposalUrl", "meeting"})
           \/ IsPage(pg, "proposal", "comments", CSS, Comments \cup {"proposalUrl", "meeting"})
           \/ IsPage(pg, "comment", "", CSS, Comments \cup {"proposalUrl"})
<1>1. CASE pg = Searchable(Page("process", "", NoColumns, "", {}), {"landingPage"})
  BY <1>1 DEF Searchable, Page
<1>2. CASE pg = Page("process", "create-proposal", SHH, "POST", {"targetMeeting"})
  BY <1>2, PageIs
<1>3. ASSUME NEW view, pg = Searchable(Page("process", view, SHH, "", {}), {"meeting"})
      PROVE  IsPage(pg, "process", view, SHH, {} \cup {"meeting"})
  BY <1>3, PageIs
<1>4. ASSUME NEW type, NEW view, NEW columns, NEW needs, NEW keys,
             pg = Versions(Page(type, view, columns, needs, keys))
      PROVE  IsPage(pg, type, view, columns, keys)
  BY <1>4, PageIs
<1> QED
  BY <1>1, <1>2, <1>3, <1>4 DEF S1Pages

\* They fit, but for the meeting of the comments.
LEMMA S1PagesFit ==
    ASSUME NEW pg \in S1Pages
    PROVE  PageFits("s1", pg)
<1> DEFINE app == "s1"
           cs == S1Columns(pg)
           create == Column({"processUrl"}, {Home})
           edit == Column({"processUrl", "proposalUrl"}, {<<"proposal", "">>})
           proposal == Column({"processUrl", "proposalUrl", "meeting"}, {<<"proposal", "">>})
           meets == "meeting" \in pg.keys \/ pg.type = "comment"
<1>1. pg.columns = NoColumns \/ Columns(app, pg) = cs
  BY S1PagesAre DEF IsPage, Columns
<1>2. /\ Searchable(Page("process", "", NoColumns, "", {}), {"landingPage"}) \in Pages(app)
      /\ \A view \in {"current", "archive", "next"} :
           Searchable(Page("process", view, SHH, "", {}), {"meeting"}) \in Pages(app)
      /\ Versions(Page("proposal", "", SSH, "", {"proposalUrl", "meeting"})) \in Pages(app)
  BY DEF Pages, S1Pages
<1>3. /\ HasPage(app, "process", "") /\ HasPage(app, "proposal", "")
      /\ \A view \in {"current", "archive", "next"} : HasPage(app, "process", view)
  <2>1. HasPage(app, "process", "") /\ HasPage(app, "proposal", "")
    BY <1>2, KeyIs
  <2>2. ASSUME NEW view \in {"current", "archive", "next"}
        PROVE  HasPage(app, "process", view)
    <3>1. Searchable(Page("process", view, SHH, "", {}), {"meeting"}) \in Pages(app)
      BY <1>2
    <3> QED
      BY <3>1, KeyIs
  <2> QED
    BY <2>1, <2>2
<1>4. /\ Home \in Keys(app) /\ <<"proposal", "">> \in Keys(app)
      /\ \A view \in {"current", "archive", "next"} : <<"process", view>> \in Keys(app)
  BY <1>3 DEF HasPage, Home
<1>5. ColumnFits(app, pg, create)
  BY <1>4, ColumnIsFit DEF Meta
<1>6. meets => ColumnFits(app, pg, S1ListingColumn)
  BY <1>4 DEF ColumnFits, S1ListingColumn, Column, Meta
<1>7. "proposalUrl" \in pg.keys => ColumnFits(app, pg, edit)
  BY <1>4, ColumnIsFit DEF Meta
<1>8. "proposalUrl" \in pg.keys /\ meets => ColumnFits(app, pg, proposal)
  BY <1>4 DEF ColumnFits, Column, Meta
<1>9. Comments \subseteq pg.keys => ColumnFits(app, pg, CommentColumn(<<"proposal", "">>))
  BY <1>4, CommentsFit
<1>10. /\ cs[1] = IF pg.view = "create-proposal" THEN create ELSE S1ListingColumn
       /\ cs[2] = IF pg.view = "edit" THEN edit ELSE proposal
       /\ cs[3] = CommentColumn(<<"proposal", "">>)
  BY DEF S1Columns
<1> HIDE DEF cs, create, edit, proposal
<1>11. \/ pg.columns = NoColumns
       \/ /\ pg.columns \in {SHH, SSH, CSS}
          /\ pg.columns # SHH => "proposalUrl" \in pg.keys
          /\ pg.view # "create-proposal" => meets
          /\ pg.columns # SHH => meets
          /\ pg.columns = CSS => Comments \subseteq pg.keys
  BY S1PagesAre, LayoutsDiffer DEF IsPage
<1>12. CASE pg.columns = NoColumns
  BY <1>12, VisibleAre DEF PageFits
<1> QED
  BY <1>1, <1>5, <1>6, <1>7, <1>8, <1>9, <1>10, <1>11, <1>12, PageIsFit, LayoutsDiffer

\* Mercator: the pages of both years.
LEMMA MercatorPagesAre ==
    ASSUME NEW pg \in MercatorPages
    PROVE  \/ pg.type = "process" /\ pg.view \in {"", "create_proposal"} /\ pg.columns = SHH
           \/ /\ pg.type = "comment" /\ pg.view = "" /\ pg.columns = CSS
              /\ Comments \subseteq pg.keys /\ "proposalUrl" \in pg.keys
<1>1. CASE pg = Searchable(Page("process", "", SHH, "", {}), {"proposalUrl", "focus"})
  <2>1. IsPage(pg, "process", "", SHH, {} \cup {"proposalUrl", "focus"})
    BY <1>1, PageIs
  <2> QED
    BY <2>1 DEF IsPage
<1>2. CASE pg = Page("process", "create_proposal", SHH, "POST", {})
  <2>1. IsPage(pg, "process", "create_proposal", SHH, {})
    BY <1>2, PageIs
  <2> QED
    BY <2>1 DEF IsPage
<1>3. CASE pg = Page("comment", "", CSS, "", Comments \cup {"commentUrl", "proposalUrl"})
  <2>1. IsPage(pg, "comment", "", CSS, Comments \cup {"commentUrl", "proposalUrl"})
    BY <1>3, PageIs
  <2> QED
    BY <2>1 DEF IsPage
<1> QED
  BY <1>1, <1>2, <1>3 DEF MercatorPages

\* And those of one year, whose proposals are of some type.
LEMMA ProposalPagesAre ==
    ASSUME NEW type, NEW view, NEW columns, NEW needs, NEW pg,
           \/ /\ columns \in {SSH, CSH}
              /\ \/ pg = Page(type, view, columns, needs, {"proposalUrl"})
                 \/ pg = Searchable(Page(type, view, columns, needs, {"proposalUrl"}), {"proposalTab"})
           \/ /\ columns = CSS
              /\ pg = Page(type, view, columns, needs, Comments \cup {"proposalUrl"})
    PROVE  /\ pg.type = type /\ pg.view = view /\ pg.columns = columns
           /\ pg.columns \in {SSH, CSH, CSS} /\ "proposalUrl" \in pg.keys
           /\ pg.columns = CSS => Comments \subseteq pg.keys
<1>1. CASE pg = Page(type, view, columns, needs, {"proposalUrl"}) /\ columns \in {SSH, CSH}
  <2>1. IsPage(pg, type, view, columns, {"proposalUrl"})
    BY <1>1, PageIs
  <2> QED
    BY <1>1, <2>1, LayoutsDiffer DEF IsPage
<1>2. CASE /\ pg = Searchable(Page(type, view, columns, needs, {"proposalUrl"}), {"proposalTab"})
           /\ columns \in {SSH, CSH}
  <2>1. IsPage(pg, type, view, columns, {"proposalUrl"} \cup {"proposalTab"})
    BY <1>2, PageIs
  <2> QED
    BY <1>2, <2>1, LayoutsDiffer DEF IsPage
<1>3. CASE pg = Page(type, view, columns, needs, Comments \cup {"proposalUrl"}) /\ columns = CSS
  <2>1. IsPage(pg, type, view, columns, Comments \cup {"proposalUrl"})
    BY <1>3, PageIs
  <2> QED
    BY <1>3, <2>1 DEF IsPage
<1> QED
  BY <1>1, <1>2, <1>3

\* What both years' pages give to their columns.
MercatorGives(pg) ==
    /\ pg.type \notin {"user", "page"}
    /\ pg.columns \in {SHH, SSH, CSH, CSS}
    /\ pg.columns # SHH => "proposalUrl" \in pg.keys
    /\ pg.columns = CSS => Comments \subseteq pg.keys

\* They give it.
LEMMA MercatorPagesGive ==
    ASSUME NEW pg \in Mercator2015Pages \cup Mercator2016Pages
    PROVE  MercatorGives(pg)
<1>1. CASE pg \in MercatorPages
  BY <1>1, MercatorPagesAre, LayoutsDiffer DEF MercatorGives
<1>2. ASSUME NEW type \in {"version", "proposal"}, NEW view, NEW needs, NEW columns \in {SSH, CSH},
             \/ pg = Page(type, view, columns, needs, {"proposalUrl"})
             \/ pg = Searchable(Page(type, view, columns, needs, {"proposalUrl"}), {"proposalTab"})
      PROVE  MercatorGives(pg)
  BY <1>2, ProposalPagesAre, LayoutsDiffer DEF MercatorGives
<1>3. ASSUME NEW type \in {"version", "proposal"}, NEW view, NEW needs,
             pg = Page(type, view, CSS, needs, Comments \cup {"proposalUrl"})
      PROVE  MercatorGives(pg)
  BY <1>3, ProposalPagesAre, LayoutsDiffer DEF MercatorGives
<1>4. CASE pg \in Mercator2015Pages
  BY <1>1, <1>2, <1>3, <1>4 DEF Mercator2015Pages
<1>5. CASE pg \in Mercator2016Pages
  BY <1>1, <1>2, <1>3, <1>5 DEF Mercator2016Pages
<1> QED
  BY <1>4, <1>5

\* The first year's fit, but for the comments' link to an item.
LEMMA Mercator2015PagesFit ==
    ASSUME NEW pg \in Mercator2015Pages
    PROVE  PageFits("mercator2015", pg)
<1> DEFINE app == "mercator2015"
           cs == Mercator2015Columns(pg)
           platform == Column({"platformUrl"}, {Home})
           edit == Column({"platformUrl", "proposalUrl"}, {<<"version", "">>})
           version == Column({"platformUrl", "proposalUrl"}, {Home, <<"version", "">>})
<1>1. Columns(app, pg) = cs
  BY MercatorPagesGive DEF MercatorGives, Columns
<1>2. /\ Searchable(Page("process", "", SHH, "", {}), {"proposalUrl", "focus"}) \in Pages(app)
      /\ Page("version", "", SSH, "", {"proposalUrl"}) \in Pages(app)
  BY DEF Pages, Mercator2015Pages, MercatorPages
<1>3. HasPage(app, "process", "") /\ HasPage(app, "version", "")
  BY <1>2, KeyIs
<1>4. Home \in Keys(app) /\ <<"version", "">> \in Keys(app)
  BY <1>3 DEF HasPage, Home
<1>5. ColumnFits(app, pg, platform)
  BY <1>4, ColumnIsFit DEF Meta
<1>6. "proposalUrl" \in pg.keys => ColumnFits(app, pg, edit) /\ ColumnFits(app, pg, version)
  BY <1>4, ColumnIsFit DEF Meta
<1>7. Comments \subseteq pg.keys => ColumnFits(app, pg, CommentColumn(<<"item", "">>))
  <2>1. <<"item", "">>[1] = "item"
    OBVIOUS
  <2> QED
    BY <2>1 DEF ColumnFits, CommentColumn, Column
<1>8. cs[1] = platform /\ cs[2] \in {edit, version} /\ cs[3] = CommentColumn(<<"item", "">>)
  BY DEF Mercator2015Columns
<1> HIDE DEF cs, platform, edit, version
<1> QED
  BY <1>1, <1>5, <1>6, <1>7, <1>8, MercatorPagesGive, PageIsFit, LayoutsDiffer DEF MercatorGives

\* And the second year's.
LEMMA Mercator2016PagesFit ==
    ASSUME NEW pg \in Mercator2016Pages
    PROVE  PageFits("mercator2016", pg)
<1> DEFINE app == "mercator2016"
           cs == Mercator2016Columns(pg)
           create == Column({"processUrl"}, {Home})
           process == Column({"processUrl"}, {Home, <<"process", "create_proposal">>})
           edit == Column({"processUrl", "proposalUrl"}, {<<"proposal", "">>})
           proposal == Column({"processUrl", "proposalUrl"}, {Home, <<"proposal", "">>})
<1>1. Columns(app, pg) = cs
  BY MercatorPagesGive DEF MercatorGives, Columns
<1>2. /\ Searchable(Page("process", "", SHH, "", {}), {"proposalUrl", "focus"}) \in Pages(app)
      /\ Page("process", "create_proposal", SHH, "POST", {}) \in Pages(app)
      /\ Page("proposal", "", SSH, "", {"proposalUrl"}) \in Pages(app)
  BY DEF Pages, Mercator2016Pages, MercatorPages
<1>3. /\ HasPage(app, "process", "")
      /\ HasPage(app, "process", "create_proposal")
      /\ HasPage(app, "proposal", "")
  BY <1>2, KeyIs
<1>4. /\ Home \in Keys(app)
      /\ <<"process", "create_proposal">> \in Keys(app)
      /\ <<"proposal", "">> \in Keys(app)
  BY <1>3 DEF HasPage, Home
<1>5. ColumnFits(app, pg, create) /\ ColumnFits(app, pg, process)
  BY <1>4, ColumnIsFit DEF Meta
<1>6. "proposalUrl" \in pg.keys => ColumnFits(app, pg, edit) /\ ColumnFits(app, pg, proposal)
  BY <1>4, ColumnIsFit DEF Meta
<1>7. Comments \subseteq pg.keys => ColumnFits(app, pg, CommentColumn(Home))
  BY <1>4, CommentsFit
<1>8. cs[1] \in {create, process} /\ cs[2] \in {edit, proposal} /\ cs[3] = CommentColumn(Home)
  BY DEF Mercator2016Columns
<1> HIDE DEF cs, create, process, edit, proposal
<1> QED
  BY <1>1, <1>5, <1>6, <1>7, <1>8, MercatorPagesGive, PageIsFit, LayoutsDiffer DEF MercatorGives

\* Alexanderplatz: the pages, all with a tab.
LEMMA AlexanderplatzPagesAre ==
    ASSUME NEW pg \in AlexanderplatzPages
    PROVE  /\ "tab" \in pg.keys
           /\ \/ /\ pg.type = "process" /\ pg.columns = SHH
                 /\ pg.view \in {"", "create_document", "proposals", "create_proposal"}
              \/ /\ pg.type \in {"document", "paragraph"} /\ pg.view \in {"", "edit", "comments"}
                 /\ pg.columns \in {SSH, CSS} /\ "documentUrl" \in pg.keys
              \/ /\ pg.type = "proposal" /\ pg.view \in {"", "edit", "comments"}
                 /\ pg.columns \in {SSH, CSS} /\ "proposalUrl" \in pg.keys
           /\ pg.columns = CSS => Comments \subseteq pg.keys
<1>1. ASSUME NEW view, NEW needs, pg = Searchable(Page("process", view, SHH, needs, {}), {"tab"})
      PROVE  pg.type = "process" /\ pg.view = view /\ pg.columns = SHH /\ "tab" \in pg.keys
  <2>1. IsPage(pg, "process", view, SHH, {} \cup {"tab"})
    BY <1>1, PageIs
  <2> QED
    BY <2>1 DEF IsPage
<1>2. ASSUME NEW type, NEW view, NEW columns, NEW needs, NEW keys,
             pg = Searchable(Versions(Page(type, view, columns, needs, keys)), {"tab"})
      PROVE  /\ pg.type = type /\ pg.view = view /\ pg.columns = columns
             /\ "tab" \in pg.keys /\ keys \subseteq pg.keys
  <2>1. IsPage(pg, type, view, columns, keys \cup {"tab"})
    BY <1>2, PageIs
  <2> QED
    BY <2>1 DEF IsPage
<1>3. ASSUME NEW view \in {"", "create_document", "proposals", "create_proposal"}, NEW needs,
             pg = Searchable(Page("process", view, SHH, needs, {}), {"tab"})
      PROVE  /\ "tab" \in pg.keys /\ pg.type = "process" /\ pg.columns = SHH
             /\ pg.view \in {"", "create_document", "proposals", "create_proposal"}
  BY <1>1, <1>3
<1>4. ASSUME NEW view \in {"", "edit", "comments"}, NEW needs,
             \/ pg = Searchable(Versions(Page("document", view, SSH, needs, {"documentUrl"})), {"tab"})
             \/ pg = Searchable(Versions(Page("paragraph", view, CSS, needs,
                                              Comments \cup {"documentUrl"})), {"tab"})
      PROVE  /\ "tab" \in pg.keys /\ pg.type \in {"document", "paragraph"}
             /\ pg.view \in {"", "edit", "comments"}
             /\ pg.columns \in {SSH, CSS} /\ "documentUrl" \in pg.keys
             /\ pg.columns = CSS => Comments \subseteq pg.keys
  <2>1. CASE pg = Searchable(Versions(Page("document", view, SSH, needs, {"documentUrl"})), {"tab"})
    BY <1>2, <2>1, LayoutsDiffer
  <2>2. CASE pg = Searchable(Versions(Page("paragraph", view, CSS, needs,
                                           Comments \cup {"documentUrl"})), {"tab"})
    <3>1. /\ pg.type = "paragraph" /\ pg.view = view /\ pg.columns = CSS
          /\ "tab" \in pg.keys /\ Comments \cup {"documentUrl"} \subseteq pg.keys
      BY <1>2, <2>2
    <3> QED
      BY <3>1
  <2> QED
    BY <1>4, <2>1, <2>2
<1>5. ASSUME NEW view \in {"", "edit", "comments"}, NEW needs,
             \/ pg = Searchable(Versions(Page("proposal", view, SSH, needs, {"proposalUrl"})), {"tab"})
             \/ pg = Searchable(Versions(Page("proposal", view, CSS, needs,
                                              Comments \cup {"proposalUrl"})), {"tab"})
      PROVE  /\ "tab" \in pg.keys /\ pg.type = "proposal"
             /\ pg.view \in {"", "edit", "comments"}
             /\ pg.columns \in {SSH, CSS} /\ "proposalUrl" \in pg.keys
             /\ pg.columns = CSS => Comments \subseteq pg.keys
  <2>1. CASE pg = Searchable(Versions(Page("proposal", view, SSH, needs, {"proposalUrl"})), {"tab"})
    BY <1>2, <2>1, LayoutsDiffer
  <2>2. CASE pg = Searchable(Versions(Page("proposal", view, CSS, needs,
                                           Comments \cup {"proposalUrl"})), {"tab"})
    <3>1. /\ pg.type = "proposal" /\ pg.view = view /\ pg.columns = CSS
          /\ "tab" \in pg.keys /\ Comments \cup {"proposalUrl"} \subseteq pg.keys
      BY <1>2, <2>2
    <3> QED
      BY <3>1
  <2> QED
    BY <1>5, <2>1, <2>2
<1> QED
  BY <1>3, <1>4, <1>5, LayoutsDiffer DEF AlexanderplatzPages

\* They fit.
LEMMA AlexanderplatzPagesFit ==
    ASSUME NEW pg \in AlexanderplatzPages
    PROVE  PageFits("alexanderplatz", pg)
<1> DEFINE app == "alexanderplatz"
           cs == AlexanderplatzColumns(pg)
           isDocument == \/ pg.type \in {"document", "paragraph"}
                         \/ pg.type = "process" /\ pg.view \in {"", "create_document"}
           create == Column({"processUrl"}, {<<"process", pg.view>>})
           process == Column({"processUrl", "tab"}, {Home, <<"process", "proposals">>,
                           <<"process", "create_document">>, <<"process", "create_proposal">>})
           document == Column({"processUrl", "documentUrl"}, {Home, <<"document", "">>})
           proposal == Column({"processUrl", "proposalUrl"}, {<<"process", "proposals">>, <<"proposal", "">>})
<1>1. Columns(app, pg) = cs
  BY AlexanderplatzPagesAre DEF Columns
<1>2. /\ Searchable(Page("process", "", SHH, "", {}), {"tab"}) \in Pages(app)
      /\ Searchable(Page("process", "create_document", SHH, "POST", {}), {"tab"}) \in Pages(app)
      /\ Searchable(Page("process", "proposals", SHH, "", {}), {"tab"}) \in Pages(app)
      /\ Searchable(Page("process", "create_proposal", SHH, "POST", {}), {"tab"}) \in Pages(app)
      /\ Searchable(Versions(Page("document", "", SSH, "", {"documentUrl"})), {"tab"}) \in Pages(app)
      /\ Searchable(Versions(Page("proposal", "", SSH, "", {"proposalUrl"})), {"tab"}) \in Pages(app)
  BY DEF Pages, AlexanderplatzPages
<1>3. HasPage(app, "process", "") /\ HasPage(app, "process", "create_document")
  BY <1>2, KeyIs
<1>4. HasPage(app, "process", "proposals") /\ HasPage(app, "process", "create_proposal")
  BY <1>2, KeyIs
<1>5. HasPage(app, "document", "") /\ HasPage(app, "proposal", "")
  BY <1>2, KeyIs
<1>6. /\ Home \in Keys(app) /\ <<"process", "create_document">> \in Keys(app)
      /\ <<"process", "proposals">> \in Keys(app) /\ <<"process", "create_proposal">> \in Keys(app)
      /\ <<"document", "">> \in Keys(app) /\ <<"proposal", "">> \in Keys(app)
  BY <1>3, <1>4, <1>5 DEF HasPage, Home
<1>7. pg.view \in {"create_document", "create_proposal"} => ColumnFits(app, pg, create)
  BY <1>6, ColumnIsFit DEF Meta
<1>8. ColumnFits(app, pg, process)
  BY <1>6, ColumnIsFit, AlexanderplatzPagesAre DEF Meta
<1>9. "documentUrl" \in pg.keys => ColumnFits(app, pg, document)
  BY <1>6, ColumnIsFit DEF Meta
<1>10. "proposalUrl" \in pg.keys => ColumnFits(app, pg, proposal)
  BY <1>6, ColumnIsFit DEF Meta
<1>11. Comments \subseteq pg.keys => /\ ColumnFits(app, pg, CommentColumn(<<"document", "">>))
                                     /\ ColumnFits(app, pg, CommentColumn(<<"proposal", "">>))
  BY <1>6, CommentsFit
<1>12. /\ cs[1] = IF pg.view \in {"create_document", "create_proposal"} THEN create ELSE process
       /\ cs[2] = IF isDocument THEN document ELSE proposal
       /\ cs[3] \in {CommentColumn(<<"document", "">>), CommentColumn(<<"proposal", "">>)}
  BY DEF AlexanderplatzColumns
<1> HIDE DEF cs, create, process, document, proposal
<1>13. /\ pg.columns \in {SHH, SSH, CSS}
       /\ pg.columns # SHH => IF isDocument THEN "documentUrl" \in pg.keys ELSE "proposalUrl" \in pg.keys
       /\ pg.columns = CSS => Comments \subseteq pg.keys
  BY AlexanderplatzPagesAre, LayoutsDiffer
<1>14. ColumnFits(app, pg, cs[1])
  BY <1>7, <1>8, <1>12
<1>15. pg.columns # SHH => ColumnFits(app, pg, cs[2])
  <2>1. CASE isDocument
    BY <1>9, <1>12, <1>13, <2>1
  <2>2. CASE ~isDocument
    BY <1>10, <1>12, <1>13, <2>2
  <2> QED
    BY <2>1, <2>2
<1>16. pg.columns = CSS => ColumnFits(app, pg, cs[3])
  BY <1>11, <1>12, <1>13
<1> QED
  BY <1>1, <1>13, <1>14, <1>15, <1>16, PageIsFit, LayoutsDiffer

\* All pages fit.
LEMMA PagesFit ==
    ASSUME NEW app \in Apps, NEW pg \in Pages(app)
    PROVE  PageFits(app, pg)
<1>1. CASE pg \in UserPages \cup ContentPages
  BY <1>1, CommonPagesFit
<1>2. CASE pg \notin UserPages \cup ContentPages
  <2>1. /\ app = "ideas" => pg \in IdeaCollectionPages(TRUE)
        /\ app = "poll" => pg \in IdeaCollectionPages(FALSE)
        /\ app = "debate" => pg \in DebatePages
        /\ app = "s1" => pg \in S1Pages
        /\ app = "mercator2015" => pg \in Mercator2015Pages
        /\ app = "mercator2016" => pg \in Mercator2016Pages
        /\ app = "alexanderplatz" => pg \in AlexanderplatzPages
    BY <1>2 DEF Pages
  <2> QED
    BY <2>1, IdeaPagesFit, DebatePagesFit, S1PagesFit, Mercator2015PagesFit, Mercator2016PagesFit,
       AlexanderplatzPagesFit DEF Apps
<1> QED
  BY <1>1, <1>2

\* The table of a workbench has its pages, each under its key.
LEMMA TableIs ==
    ASSUME NEW app \in Apps
    PROVE  /\ \A key : Has(app, key) <=> key \in Keys(app)
           /\ \A key : Has(app, key) => PageTable[app][key] \in Pages(app)
<1>1. PageTable[app] = Table(Pages(app))
  BY DEF PageTable
<1>2. DOMAIN PageTable[app] = Keys(app)
  BY <1>1 DEF Table, Keys
<1>3. ASSUME NEW key \in Keys(app)
      PROVE  PageTable[app][key] \in Pages(app)
  <2>1. PageTable[app][key] = CHOOSE pg \in Pages(app) : Key(pg) = key
    BY <1>1, <1>3 DEF Table, Keys
  <2>2. \E pg \in Pages(app) : Key(pg) = key
    BY <1>3 DEF Keys
  <2> QED
    BY <2>1, <2>2
<1> QED
  BY <1>2, <1>3 DEF Has
--------------------------------------------------------------------------------
(* What a page gives to its columns.                                            *)

\* The data of a resource's page have what it promised, and a route that asks for a
\* permission is a page's.
Promised(app, data) ==
    LET key == data["resourceUrl"].page
    IN  Has(app, key) /\ Meta \cup PageTable[app][key].keys \subseteq DOMAIN data
GivesKeys(p) ==
    /\ p \in PageRecord(p) /\ p.app \in Apps
    /\ "resourceUrl" \in DOMAIN p.data => Promised(p.app, p.data)
    /\ p.pending # NoLocation /\ p.phase = "options" => Has(p.app, p.pending.page)

\* A page with the same data, and a route that is over or at its start.
LEMMA SameKeys ==
    ASSUME NEW p, GivesKeys(p), NEW q, q \in PageRecord(q), q.app = p.app, q.data = p.data,
           \/ q.pending = NoLocation \/ q.phase = "resource"
           \/ q.pending = p.pending /\ q.phase = p.phase
    PROVE  GivesKeys(q)
BY DEF GivesKeys

\* A page with other data.
LEMMA OtherKeys ==
    ASSUME NEW p, GivesKeys(p), NEW q, q \in PageRecord(q), q.app = p.app,
           "resourceUrl" \in DOMAIN q.data => Promised(p.app, q.data),
           q.pending = NoLocation \/ (q.pending = p.pending /\ q.phase = p.phase)
    PROVE  GivesKeys(q)
BY DEF GivesKeys

\* Entering an area, giving up the lock, and remembering where the user came from.
LEMMA SmallStepsGive ==
    ASSUME NEW p, GivesKeys(p)
    PROVE  /\ GivesKeys(GetArea(p)) /\ GivesKeys(SetCameFrom(p)) /\ GivesKeys(Divert(p))
           /\ GivesKeys(Unlock(p)) /\ Unlock(p).pending = NoLocation /\ Unlock(p).app = p.app
           /\ \A l : GivesKeys(Go(p, l)) /\ GivesKeys([p EXCEPT !.location = l])
           /\ \A l : GivesKeys([p EXCEPT !.seen = l])
           /\ GivesKeys(GoToCameFrom(p, Area("")))
           /\ GivesKeys([p EXCEPT !.stranded = TRUE]) /\ GivesKeys([p EXCEPT !.stranded = FALSE])
           /\ GivesKeys([p EXCEPT !.lock = TRUE])
<1>1. p \in PageRecord(p)
  BY DEF GivesKeys
<1>2. ASSUME NEW q, q \in PageRecord(q), q.app = p.app, q.data = p.data,
             q.pending = NoLocation \/ (q.pending = p.pending /\ q.phase = p.phase)
      PROVE  GivesKeys(q)
  BY <1>2, SameKeys
<1>3. GivesKeys(GetArea(p))
  BY <1>1, SameKeys DEF GetArea, PageRecord
<1>4. GivesKeys(SetCameFrom(p))
  BY <1>1, SameKeys DEF SetCameFrom, PageRecord
<1>5. GivesKeys(Divert(p))
  <2>1. Divert(p) \in PageRecord(Divert(p)) /\ Divert(p).app = p.app /\ Divert(p).data = p.data
        /\ Divert(p).pending = p.pending /\ Divert(p).phase = p.phase
    BY <1>1 DEF Divert, PageRecord
  <2> QED
    BY <2>1, SameKeys
<1>6. GivesKeys(Unlock(p)) /\ Unlock(p).pending = NoLocation /\ Unlock(p).app = p.app
  BY <1>1, SameKeys DEF Unlock, PageRecord
<1>7. ASSUME NEW l
      PROVE  /\ GivesKeys(Go(p, l)) /\ GivesKeys([p EXCEPT !.location = l])
             /\ GivesKeys([p EXCEPT !.seen = l])
  <2>1. GivesKeys(Go(p, l))
    <3>1. Go(p, l) \in PageRecord(Go(p, l)) /\ Go(p, l).app = p.app /\ Go(p, l).data = p.data
          /\ Go(p, l).pending = p.pending /\ Go(p, l).phase = p.phase
      BY <1>1 DEF Go, PageRecord
    <3> QED
      BY <3>1, SameKeys
  <2>2. GivesKeys([p EXCEPT !.location = l]) /\ GivesKeys([p EXCEPT !.seen = l])
    BY <1>1, SameKeys DEF PageRecord
  <2> QED
    BY <2>1, <2>2
<1>8. GivesKeys([p EXCEPT !.stranded = TRUE]) /\ GivesKeys([p EXCEPT !.stranded = FALSE])
      /\ GivesKeys([p EXCEPT !.lock = TRUE])
  BY <1>1, SameKeys DEF PageRecord
<1> QED
  BY <1>3, <1>4, <1>5, <1>6, <1>7, <1>8 DEF GoToCameFrom

\* New data under the location, which is taken from them.
LEMMA RoutedGives ==
    ASSUME NEW p, GivesKeys(p), NEW data, NEW given,
           "resourceUrl" \in DOMAIN data => Promised(p.app, data)
    PROVE  GivesKeys(Routed(p, data, given))
<1> DEFINE u == Unlock(p)
           s == SetData(u, data, given)
           g == GetArea(s)
           t == [g EXCEPT !.location = Reverse(s)]
           q == [t EXCEPT !.blockTemplate = FALSE]
<1>1. q = Routed(p, data, given)
  BY DEF Routed, ToLocation
<1>2. GivesKeys(u) /\ u.pending = NoLocation /\ u.app = p.app
  BY SmallStepsGive
<1> HIDE DEF u
<1>3. s \in PageRecord(s) /\ s.app = p.app /\ s.data = data /\ s.pending = NoLocation
  BY <1>2 DEF SetData, GivesKeys, PageRecord
<1> HIDE DEF s
<1>4. GivesKeys(s)
  BY <1>2, <1>3, OtherKeys
<1>5. GivesKeys(g)
  BY <1>4, SmallStepsGive
<1> HIDE DEF g
<1>6. GivesKeys(t)
  BY <1>5, SmallStepsGive
<1> HIDE DEF t
<1>7. /\ q \in PageRecord(q)
      /\ q.app = t.app
      /\ q.data = t.data
      /\ q.pending = t.pending
      /\ q.phase = t.phase
  BY <1>6 DEF GivesKeys, PageRecord
<1> HIDE DEF q
<1> QED
  BY <1>1, <1>6, <1>7, SameKeys

\* A location is routed.
LEMMA RouteGives ==
    ASSUME NEW p, GivesKeys(p)
    PROVE  GivesKeys(Route(p))
<1>1. CASE p.location.area \in DefaultRoutes
  <2>1. Route(p) = Routed(p, [_path |-> p.location], p.location.search)
    BY <1>1 DEF Route
  <2>2. "resourceUrl" \notin DOMAIN [_path |-> p.location]
    OBVIOUS
  <2> QED
    BY <2>1, <2>2, RoutedGives
<1>2. CASE p.location.area \notin DefaultRoutes
  <2> DEFINE l == [p EXCEPT !.lock = TRUE]
             q == [l EXCEPT !.pending = p.location, !.phase = "resource"]
  <2>1. GivesKeys(l)
    BY SmallStepsGive
  <2>2. Route(p) \in {l, q}
    BY <1>2 DEF Route
  <2> HIDE DEF l
  <2>3. q \in PageRecord(q) /\ q.app = l.app /\ q.data = l.data /\ q.phase = "resource"
    BY <2>1 DEF GivesKeys, PageRecord
  <2> HIDE DEF q
  <2>4. GivesKeys(q)
    BY <2>1, <2>3, SameKeys
  <2> QED
    BY <2>1, <2>2, <2>4
<1> QED
  BY <1>1, <1>2

\* An area that redirects.
LEMMA SkippedGives ==
    ASSUME NEW p, GivesKeys(p)
    PROVE  GivesKeys(Skipped(p))
<1> DEFINE g == GetArea(p)
           q == [g EXCEPT !.location = SkipTo(p), !.seen = SkipTo(p)]
<1>1. GivesKeys(g)
  BY SmallStepsGive
<1> HIDE DEF g
<1>2. /\ q \in PageRecord(q)
      /\ q.app = g.app
      /\ q.data = g.data
      /\ q.pending = g.pending
      /\ q.phase = g.phase
  BY <1>1 DEF GivesKeys, PageRecord
<1> HIDE DEF q
<1> QED
  BY <1>1, <1>2, SameKeys DEF Skipped, g, q

\* The watches.
LEMMA WatchGives ==
    ASSUME NEW p, GivesKeys(p)
    PROVE  GivesKeys(FromLocation(p)) /\ GivesKeys(WatchLocation(p))
<1>1. ASSUME NEW o, GivesKeys(o)
      PROVE  GivesKeys(FromLocation(o))
  <2> DEFINE r == [o EXCEPT !.stranded = FALSE]
             q == GetArea(Skipped(r))
  <2>1. GivesKeys(r)
    BY <1>1, SmallStepsGive
  <2> HIDE DEF r
  <2>2. GivesKeys(q) /\ GivesKeys(GetArea(r))
    BY <2>1, SmallStepsGive, SkippedGives
  <2>3. FromLocation(o) = IF Prefix(r.location) \notin Redirects THEN Route(GetArea(r))
                          ELSE IF Prefix(q.location) = "" THEN [q EXCEPT !.stranded = TRUE]
                          ELSE Route(q)
    BY DEF FromLocation, r
  <2> HIDE DEF q
  <2> QED
    BY <2>2, <2>3, SmallStepsGive, RouteGives
<1>2. ASSUME NEW o, GivesKeys(o)
      PROVE  GivesKeys(WatchTemplate(o))
  BY <1>2, SmallStepsGive, SkippedGives DEF WatchTemplate
<1>3. GivesKeys(WatchLocation(p))
  <2> DEFINE q == [p EXCEPT !.seen = p.location]
  <2>1. GivesKeys(q)
    BY SmallStepsGive
  <2> HIDE DEF q
  <2> QED
    BY <1>1, <1>2, <2>1 DEF WatchLocation, q
<1> QED
  BY <1>1, <1>3

\* A route that was waited for.
LEMMA AnswerGives ==
    ASSUME NEW p, GivesKeys(p), NEW done, GivesKeys(done)
    PROVE  GivesKeys(Answer(p, done))
<1>1. GivesKeys(Unlock(p))
  BY SmallStepsGive
<1>2. GivesKeys([GetArea(Unlock(p)) EXCEPT !.stranded = TRUE])
  BY <1>1, SmallStepsGive
<1>3. GivesKeys(FromLocation([Unlock(p) EXCEPT !.seen = p.location]))
  BY <1>1, SmallStepsGive, WatchGives
<1> QED
  BY <1>2, <1>3 DEF Answer

\* One that failed, in any way.
LEMMA FailureGives ==
    ASSUME NEW p, GivesKeys(p), NEW code, NEW loggedIn
    PROVE  GivesKeys(HandleRoutingError(p, code, loggedIn))
<1>1. CASE code = 401 /\ ~loggedIn
  <2> DEFINE c == SetCameFrom(Unlock(Divert(p)))
             l == [c EXCEPT !.location = Area("login")]
             q == [l EXCEPT !.stranded = p.location = Area("login")]
  <2>1. HandleRoutingError(p, code, loggedIn) = q
    BY <1>1 DEF HandleRoutingError, SetCameFromAndGo
  <2>2. GivesKeys(c)
    BY SmallStepsGive
  <2> HIDE DEF c
  <2>3. GivesKeys(l)
    BY <2>2, SmallStepsGive
  <2> HIDE DEF l
  <2>4. /\ q \in PageRecord(q)
        /\ q.app = l.app
        /\ q.data = l.data
        /\ q.pending = l.pending
        /\ q.phase = l.phase
    BY <2>3 DEF GivesKeys, PageRecord
  <2> HIDE DEF q
  <2> QED
    BY <2>1, <2>3, <2>4, SameKeys
<1>2. CASE ~(code = 401 /\ ~loggedIn)
  <2> DEFINE u == Unlock(p)
             q == RoutedToError(p)
  <2>1. GivesKeys(u) /\ u.pending = NoLocation /\ u.app = p.app
    BY SmallStepsGive
  <2> HIDE DEF u
  <2>2. /\ q \in PageRecord(q) /\ q.app = u.app /\ q.pending = NoLocation
        /\ q.data = [space |-> p.location]
    BY <2>1 DEF RoutedToError, SetData, GivesKeys, PageRecord, u
  <2> HIDE DEF q
  <2>3. "resourceUrl" \notin DOMAIN q.data
    BY <2>2
  <2>4. GivesKeys(q)
    BY <2>1, <2>2, <2>3, OtherKeys
  <2> QED
    BY <1>2, <2>4, AnswerGives DEF HandleRoutingError, q
<1> QED
  BY <1>1, <1>2

\* A page's route that has its data.
LEMMA TakeGives ==
    ASSUME NEW p, GivesKeys(p), Has(p.app, p.pending.page)
    PROVE  GivesKeys(Take(p))
<1> DEFINE data == PageData(p)
<1>1. /\ data["resourceUrl"] = p.pending
      /\ Meta \cup PageTable[p.app][p.pending.page].keys \subseteq DOMAIN data
  BY DEF PageData, Meta, PageAt
<1> HIDE DEF data
<1>2. Promised(p.app, data)
  BY <1>1 DEF Promised
<1> QED
  BY <1>2, RoutedGives, AnswerGives DEF Take, data

\* The resource of a route is there.
LEMMA ResourceGives ==
    ASSUME NEW p, GivesKeys(p)
    PROVE  GivesKeys(OnResource(p))
<1>1. CASE p.pending.old
  <2> DEFINE l == [Resource(p.pending.page) EXCEPT !.search = p.location.search]
             q == [Divert(p) EXCEPT !.location = l]
  <2>1. GivesKeys(q)
    BY SmallStepsGive
  <2>2. OnResource(p) = FromLocation([Unlock(q) EXCEPT !.seen = q.location])
    BY <1>1 DEF OnResource
  <2> HIDE DEF q
  <2> QED
    BY <2>1, <2>2, SmallStepsGive, WatchGives
<1>2. CASE ~p.pending.old /\ p.pending.area = "register"
  <2>1. "resourceUrl" \notin DOMAIN [_path |-> p.pending]
    OBVIOUS
  <2> QED
    BY <1>2, <2>1, RoutedGives, AnswerGives DEF OnResource
<1>3. CASE ~p.pending.old /\ p.pending.area # "register" /\ ~Has(p.app, p.pending.page)
  BY <1>3, FailureGives DEF OnResource
<1>4. CASE ~p.pending.old /\ p.pending.area # "register" /\ Has(p.app, p.pending.page)
  <2> DEFINE q == [p EXCEPT !.phase = "options"]
  <2>1. /\ q \in PageRecord(q) /\ q.app = p.app /\ q.data = p.data /\ q.pending = p.pending
    BY DEF GivesKeys, PageRecord
  <2>2. GivesKeys(q)
    BY <1>4, <2>1 DEF GivesKeys
  <2> QED
    BY <1>4, <2>2, TakeGives DEF OnResource
<1> QED
  BY <1>1, <1>2, <1>3, <1>4

\* A column takes the focus.
LEMMA FocusGives ==
    ASSUME NEW p, GivesKeys(p), "resourceUrl" \in DOMAIN p.data
    PROVE  GivesKeys(SetFocus(p))
<1> DEFINE data == [key \in DOMAIN p.data \cup {"focus"} |->
                       p.data[IF key = "focus" THEN "resourceUrl" ELSE key]]
           d == [p EXCEPT !.data = data, !.given = @ \cup {"focus"},
                          !.diverted = @ \/ p.lock \/ p.stranded]
<1>1. data["resourceUrl"] = p.data["resourceUrl"] /\ DOMAIN p.data \subseteq DOMAIN data
  OBVIOUS
<1>2. SetFocus(p) = [GetArea(d) EXCEPT !.location = Reverse(d)]
  BY DEF SetFocus, ToLocation
<1> HIDE DEF data
<1>3. /\ d \in PageRecord(d)
      /\ d.app = p.app
      /\ d.data = data
      /\ d.pending = p.pending
      /\ d.phase = p.phase
  BY DEF GivesKeys, PageRecord
<1> HIDE DEF d
<1>4. Promised(p.app, data)
  BY <1>1 DEF GivesKeys, Promised
<1>5. GivesKeys(d)
  BY <1>3, <1>4, OtherKeys
<1> DEFINE g == GetArea(d)
<1>6. GivesKeys(g)
  BY <1>5, SmallStepsGive
<1>7. SetFocus(p) = [g EXCEPT !.location = Reverse(d)]
  BY <1>2
<1> HIDE DEF g
<1>8. GivesKeys([g EXCEPT !.location = Reverse(d)])
  BY <1>6, SmallStepsGive
<1> QED
  BY <1>7, <1>8

\* A page that was just opened shows nothing.
LEMMA NewGives ==
    ASSUME NEW app \in Apps, NEW location
    PROVE  GivesKeys(NewPage(app, location))
<1> DEFINE p == NewPage(app, location)
<1>1. p \in PageRecord(p) /\ p.app = app /\ p.data = <<>> /\ p.phase = "resource"
  BY DEF NewPage, PageRecord
<1> HIDE DEF p
<1>2. DOMAIN p.data = {}
  BY <1>1
<1> QED
  BY <1>1, <1>2 DEF GivesKeys, p

\* A digest keeps it.
LEMMA DigestGives ==
    ASSUME NEW s, NEW u, NEW p, GivesKeys(p), Digest(s, u, p)
    PROVE  GivesKeys(page)'
BY WatchGives DEF Digest

\* And so does every step.
LEMMA NextGives ==
    ASSUME GivesKeys(page), [Next]_vars
    PROVE  GivesKeys(page)'
<1>1. ASSUME NEW s, NEW u, Digest(s, u, page)
      PROVE  GivesKeys(page)'
  BY <1>1, DigestGives
<1>2. ASSUME page' = page
      PROVE  GivesKeys(page)'
  BY <1>2
<1>3. ASSUME NEW t, NEW s, InTab(t, s)
      PROVE  GivesKeys(page)'
  BY <1>1, <1>2, <1>3 DEF InTab, NoDigest
<1>4. ASSUME NEW s, NEW u, NEW l, Digest(s, u, Go(page, l))
      PROVE  GivesKeys(page)'
  BY <1>4, SmallStepsGive, DigestGives
<1>5. CASE \E t \in Tab : Clear(t) \/ StorageEvent(t) \/ LogOut(t)
  BY <1>3, <1>5 DEF Clear, StorageEvent, LogOut
<1>6. CASE \E t \in Tab, token \in Token :
               HeadAnswers(t, token) \/ HeadFails(t, token) \/ OtherLogsIn(t, token)
  BY <1>2, <1>3, <1>6 DEF HeadAnswers, HeadFails, OtherLogsIn, Check, NoDigest
<1>7. CASE \E token \in Token :
               \/ SubmitLogIn(token) \/ SetToken(token)
               \/ UserAnswers(token) \/ UserRefused(token) \/ UserLost(token)
  BY <1>1, <1>2, <1>7
     DEF SubmitLogIn, SetToken, NoDigest, UserAnswers, UserRefused, UserLost
<1>8. CASE \E token \in Token : SaveUser(token)
  BY <1>4, <1>8 DEF SaveUser
<1>9. CASE LogInAnswers \/ LogInFails
  BY <1>1, <1>9, SmallStepsGive, DigestGives DEF LogInAnswers, LogInFails
<1>10. CASE Setup \/ EmbedderDeletesToken
  BY <1>2, <1>10 DEF Setup, EmbedderDeletesToken, NoDigest
<1>11. CASE Reload
  <2>1. GivesKeys(NewPage(page.app, [embedder.url EXCEPT !.embed = TRUE]))
    BY NewGives DEF GivesKeys
  <2> QED
    BY <1>11, <2>1, WatchGives DEF Reload
<1>12. CASE Click \/ (\E mark \in Bookmarks[page.app] : Visit(Bookmark(mark)))
            \/ \E area \in {"", "elsewhere"} : Visit(Area(area))
  BY <1>4, <1>12 DEF Click, Visit
<1>13. CASE \E area \in {"login", "register"} : GoToLogIn(area)
  BY <1>13, SmallStepsGive, DigestGives DEF GoToLogIn
<1>14. CASE Cancel
  BY <1>14, SmallStepsGive, DigestGives DEF Cancel
<1>15. CASE FocusColumn
  BY <1>15, FocusGives, DigestGives DEF FocusColumn, ShowingPage
<1>16. CASE ResourceAnswers
  BY <1>16, ResourceGives, DigestGives DEF ResourceAnswers
<1>17. CASE ResourceMissing \/ ResourceForbidden
  BY <1>17, FailureGives, DigestGives DEF ResourceMissing, ResourceForbidden, OnForbidden
<1>18. CASE OptionsAnswer
  <2>1. Has(page.app, page.pending.page)
    BY <1>18 DEF OptionsAnswer, Waiting, GivesKeys
  <2>2. GivesKeys(OnOptions(page, session.tab[This].token = Moderator, LoggedIn))
    BY <2>1, TakeGives, FailureGives DEF OnOptions
  <2> QED
    BY <1>18, <2>2, DigestGives DEF OptionsAnswer
<1>19. CASE UNCHANGED vars
  BY <1>2, <1>19 DEF vars
<1> QED
  BY <1>5, <1>6, <1>7, <1>8, <1>9, <1>10, <1>11, <1>12, <1>13, <1>14, <1>15, <1>16, <1>17, <1>18, <1>19
     DEF Next, Sessions, Navigation, Routing

\* What a page shows has the keys that the route promised, whatever was routed and
\* focused before (ResourceArea.ts).
THEOREM KeysAreGiven == Spec => []GivesKeys(page)
<1>1. Init => GivesKeys(page)
  BY NewGives, WatchGives DEF Init
<1>2. GivesKeys(page) /\ [Next]_vars => GivesKeys(page)'
  BY NextGives
<1> QED
  BY <1>1, <1>2, PTL DEF Spec

\* The columns of a page have the keys they bind: those that its route gives. S1's
\* comments lack the meeting.
THEOREM ColumnsAlwaysHaveTheirKeys == Spec => []ColumnsHaveTheirKeys
<1>1. ASSUME GivesKeys(page), ShowingPage, NEW i \in Visible(Shown)
      PROVE  ShownColumns[i].keys \subseteq
                DOMAIN page.data \cup (IF page.app = "s1" /\ Shown.type = "comment" THEN {"meeting"} ELSE {})
  <2>1. /\ page.app \in Apps /\ Has(page.app, page.data["resourceUrl"].page)
        /\ Meta \cup Shown.keys \subseteq DOMAIN page.data
    BY <1>1 DEF GivesKeys, ShowingPage, Promised, Shown, PageAt
  <2>2. Shown \in Pages(page.app)
    BY <2>1, TableIs DEF Shown, PageAt
  <2>3. ColumnFits(page.app, Shown, ShownColumns[i])
    BY <1>1, <2>1, <2>2, PagesFit DEF PageFits, ShownColumns
  <2> QED
    BY <2>1, <2>3 DEF ColumnFits
<1>2. GivesKeys(page) => ColumnsHaveTheirKeys
  BY <1>1 DEF ColumnsHaveTheirKeys
<1> QED
  BY <1>2, KeysAreGiven, PTL

\* Every link that a column shows leads to a page of the workbench, but for that of
\* the comments of Mercator's first year.
THEOREM LinksAreAlwaysRouted == Spec => []LinksAreRouted
<1>1. ASSUME GivesKeys(page), ShowingPage, NEW link \in VisibleLinks
      PROVE  Has(page.app, link) \/ (page.app = "mercator2015" /\ link[1] = "item")
  <2>1. page.app \in Apps /\ Has(page.app, page.data["resourceUrl"].page)
    BY <1>1 DEF GivesKeys, ShowingPage, Promised
  <2>2. Shown \in Pages(page.app)
    BY <2>1, TableIs DEF Shown, PageAt
  <2>3. PICK i \in Visible(Shown) : link \in ShownColumns[i].links
    BY <1>1 DEF VisibleLinks
  <2>4. ColumnFits(page.app, Shown, ShownColumns[i])
    BY <2>1, <2>2, <2>3, PagesFit DEF PageFits, ShownColumns
  <2> QED
    BY <2>1, <2>3, <2>4, TableIs DEF ColumnFits
<1>2. GivesKeys(page) => LinksAreRouted
  BY <1>1 DEF LinksAreRouted
<1> QED
  BY <1>2, KeysAreGiven, PTL
================================================================================
