------------------------------ MODULE Credentials ------------------------------
(***************************************************************************)
(* The session of a user in the tabs of one browser.  It is persisted in   *)
(* the local storage, which tells every tab but the writing one of each    *)
(* change, and held in memory by each tab.  What a tab reads from the      *)
(* storage it has checked by the server (a HEAD request with the token)    *)
(* before it enables it.  A method is an operator from the state `s` of    *)
(* all tabs (a record) to the next one.                                    *)
(***************************************************************************)
EXTENDS Naturals, Sequences, FiniteSets

CONSTANTS Tab,
          Token,        \* one for each user: stands for the path of the user, too
          NoToken

ASSUME TokenAssumption == NoToken \notin Token

\* heads: tokens under check, those for one token as one.  clear: a timeout that
\* deletes the token.  events: what the storage has to tell.  strayed: the tab
\* was led away from the storage by an answer that came too late, or never did.
NewTab == [loggedIn |-> "unknown", token |-> NoToken, heads |-> {}, clear |-> FALSE,
           events |-> <<>>, strayed |-> FALSE]

\* `ready`, for which every request of the HTTP service waits.
Ready(s, t) == s.tab[t].loggedIn # "unknown"

\* The storage tells the other tabs of a new value only.
Persist(s, t, value) ==
    IF s.stored = value THEN s
    ELSE [stored |-> value,
          tab |-> [u \in Tab |-> IF u = t THEN s.tab[u]
                                 ELSE [s.tab[u] EXCEPT !.events = Append(@, value)]]]

EnableToken(s, t, token) ==
    [s EXCEPT !.tab[t].token = token, !.tab[t].loggedIn = "yes",
              !.tab[t].strayed = s.stored # token]

StoreAndEnableToken(s, t, token) == EnableToken(Persist(s, t, token), t, token)

\* Mutant: the storage keeps the session.
DeleteTokenInMemory(s, t) ==
    [s EXCEPT !.tab[t].token = NoToken, !.tab[t].loggedIn = "no", !.tab[t].strayed = FALSE]

DeleteToken(s, t) ==
    [Persist(s, t, NoToken) EXCEPT
        !.tab[t].token = NoToken, !.tab[t].loggedIn = "no", !.tab[t].strayed = FALSE]

UpdateSessionFromStorage(s, t, value) ==
    IF value = NoToken THEN [s EXCEPT !.tab[t].clear = TRUE]
    ELSE [s EXCEPT !.tab[t].heads = @ \cup {value}]

\* A tab that has been open for some time.
OpenTab(stored) ==
    [NewTab EXCEPT !.loggedIn = IF stored = NoToken THEN "no" ELSE "yes", !.token = stored]

\* A tab is opened, or loaded again.
Start(s, t) == UpdateSessionFromStorage([s EXCEPT !.tab[t] = NewTab], t, s.stored)

OnStorage(s, t) ==
    UpdateSessionFromStorage([s EXCEPT !.tab[t].events = Tail(@)], t, Head(s.tab[t].events))

\* What the server says of a token: with a status below 400 it has not answered,
\* and nothing is done.
Checked(s, t, token, answer) ==
    LET rest == [s EXCEPT !.tab[t].heads = @ \ {token}]
    IN  CASE answer = "ok" -> EnableToken(rest, t, token)
          [] answer = "refused" -> DeleteToken(rest, t)
          [] answer = "lost" -> [rest EXCEPT !.tab[t].strayed = TRUE]

OnTimeout(s, t) == DeleteToken([s EXCEPT !.tab[t].clear = FALSE], t)

Settled(s, t) == s.tab[t].heads = {} /\ ~s.tab[t].clear /\ s.tab[t].events = <<>>
================================================================================
