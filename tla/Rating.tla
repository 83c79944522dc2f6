--------------------------------- MODULE Rating ---------------------------------
(* The rate widgets of one object (Rate.ts) and the rates on the server         *)
(* (sheets/rate.py).  A page may hold several widgets of the same object, and a *)
(* user may have several pages.  A user has a rate item from the first cast on: *)
(* casting makes it if the widget knows of none, and then posts a new version   *)
(* to it.  Widgets of one page tell each other through the rate event manager;  *)
(* those that know of a rate also listen to its item on the websocket.          *)
EXTENDS Naturals, Sequences, FiniteSets, FiniteSetsExt, SequencesExt

CONSTANTS Pages,        \* page -> its widgets, in the order in which they are made
          Raters,       \* the users
          Nobody,       \* the user of a page that is not logged in
          Elsewhere,    \* a page of the time before
          Buttons,      \* the rates that have a button
          MaxEvents     \* bound of the runs: casts, new widgets, and mishaps: failed
                        \*   requests, overtaking answers, changes of the user

ASSUME RatingAssumption ==
    /\ Raters # {} /\ Nobody \notin Raters /\ 0 \notin Buttons
    /\ \A p \in DOMAIN Pages : Pages[p] \in Seq(Range(Pages[p]))
    /\ \A p, q \in DOMAIN Pages : p # q => Range(Pages[p]) \cap Range(Pages[q]) = {}
    /\ MaxEvents \in Nat

VARIABLES
    rateItems,   \* the items on the server: who created each
    rateLog,     \* the versions after the first, in the order they were stored
    user,        \* page -> its user
    known,       \* page -> how much of the log its cache is sure to know
    widgets,     \* what every widget knows and shows
    casts,       \* widget -> the cast at work
    fetches,     \* widget -> its requests for the user's rate and for the totals
    messages,    \* widgets that the websocket has a message for
    events,      \* how many events there were
    mishap       \* whether one of them was a mishap

ratingVars == <<rateItems, rateLog, user, known, widgets, casts, fetches, messages,
                events, mishap>>

Widgets == UNION {Range(Pages[p]) : p \in DOMAIN Pages}
PageOf(w) == CHOOSE p \in DOMAIN Pages : w \in Range(Pages[p])
IsFirst(w) == w = Pages[PageOf(w)][1]
Before(w) == CHOOSE v \in Widgets : \E i \in DOMAIN Pages[PageOf(w)] :
                 i > 1 /\ w = Pages[PageOf(w)][i] /\ v = Pages[PageOf(w)][i - 1]
UserOf(w) == user[PageOf(w)]
NoCast == [at |-> "none"]
RateRounds == 5         \* timeoutRounds

\* A version is its item and its place in the log; the first version has none.
NoVersion == <<0, 0>>
LastVersion(item) ==
    <<item, Max({0} \cup {n \in DOMAIN rateLog : rateLog[n].item = item})>>
\* The last version of a user among the first k.
RateOf(u, k) ==
    LET own == {n \in 1 .. k : rateLog[n].subject = u}
    IN  IF own = {} THEN NoVersion ELSE <<rateLog[Max(own)].item, Max(own)>>

--------------------------------------------------------------------------------
(* What a widget knows.  "mine" is myRateResource, "shown" the version whose    *)
(* rate is myRate, "listens" the item that the websocket is asked for.          *)

Absent == [at |-> "absent", mine |-> NoVersion, shown |-> NoVersion,
           listens |-> 0, lock |-> FALSE]
Loaded(w) ==
    LET version == RateOf(UserOf(w), Len(rateLog))
    IN  [at |-> "ready", mine |-> version, shown |-> version,
         listens |-> version[1], lock |-> FALSE]
RateShown(w) == IF widgets[w].shown = NoVersion THEN 0 ELSE rateLog[widgets[w].shown[2]].rate

\* storeMyRateResource: only the first resource is listened to.
StoreMyRate(widget, version) ==
    [widget EXCEPT !.mine = version, !.listens = IF @ = 0 THEN version[1] ELSE @]

\* updateMyRate and updateAggregatedRates send their requests together, and here
\* they are answered together.  A request that is under way is not sent again
\* unless the cache has been told since (memoize).
Asked(requests, w, sure, inCast) ==
    LET same == {i \in DOMAIN requests :
                    requests[i].from = sure /\ requests[i].subject = UserOf(w)}
    IN  IF same = {}
        THEN Append(requests, [from |-> sure, subject |-> UserOf(w), cast |-> inCast])
        ELSE [requests EXCEPT ![Max(same)].cast = @ \/ inCast]
Fetching(w, inCast) ==
    fetches' = [fetches EXCEPT ![w] = Asked(@, w, known[PageOf(w)], inCast)]

Event ==
    /\ events < MaxEvents
    /\ events' = events + 1
Mishap ==
    /\ Event
    /\ mishap' = TRUE

\* The widget gets the pool of the rates of its object and then both values.
Mount(w) ==
    /\ widgets[w].at = "absent"
    /\ IsFirst(w) \/ widgets[Before(w)].at # "absent"
    /\ widgets' = [widgets EXCEPT ![w].at = "mounting"]
    /\ Event
    /\ UNCHANGED <<rateItems, rateLog, user, known, casts, fetches, messages, mishap>>
GotPool(w) ==
    /\ widgets[w].at = "mounting"
    /\ widgets' = [widgets EXCEPT ![w].at = "loading"]
    /\ Fetching(w, TRUE)
    /\ UNCHANGED <<rateItems, rateLog, user, known, casts, messages, events, mishap>>

\* The requests that somebody waits for have their answers.
AllAnswered(w) == \A i \in DOMAIN fetches[w] : ~ fetches[w][i].cast
Ready(w) ==
    /\ widgets[w].at = "loading" /\ AllAnswered(w)
    /\ widgets' = [widgets EXCEPT ![w].at = "ready"]
    /\ UNCHANGED <<rateItems, rateLog, user, known, casts, fetches, messages, events, mishap>>

--------------------------------------------------------------------------------
(* Answers.  A request may be answered from the cache of its page: with any     *)
(* state of the server since the last time that the cache was sure of.          *)

Answers(request) == request.from .. Len(rateLog)

\* An answer that overtakes an earlier one is a mishap.
InTurn(i) == IF i = 1 THEN UNCHANGED <<events, mishap>> ELSE Mishap

\* fetchRate and fetchAggregatedRates: without a user or a rate the first one has
\* no result, and what is shown stays.
Shows(widget, version) ==
    IF version = NoVersion THEN widget
                           ELSE [StoreMyRate(widget, version) EXCEPT !.shown = version]
GotRates(w) ==
    \E i \in DOMAIN fetches[w] :
        LET request == fetches[w][i]
        IN  /\ InTurn(i)
            /\ \E k \in Answers(request) :
                /\ known' = [known EXCEPT ![PageOf(w)] = Max({@, k})]
                /\ widgets' = [widgets EXCEPT ![w] = Shows(@, RateOf(request.subject, k))]
            /\ fetches' = [fetches EXCEPT ![w] = RemoveAt(@, i)]
            /\ UNCHANGED <<rateItems, rateLog, user, casts, messages>>

\* A message about the item that the widget listens to.
Told(w) ==
    /\ w \in messages
    /\ messages' = messages \ {w}
    /\ Fetching(w, FALSE)
    /\ UNCHANGED <<rateItems, rateLog, user, known, widgets, casts, events, mishap>>

\* Another user logs in on the page, or the user logs out.
SwitchUser(p) ==
    /\ Mishap
    /\ \E u \in (Raters \cup {Nobody}) \ {user[p]} : user' = [user EXCEPT ![p] = u]
    /\ UNCHANGED <<rateItems, rateLog, known, widgets, casts, fetches, messages>>

--------------------------------------------------------------------------------
(* Casting.                                                                     *)

Casting(w, cast) == casts' = [casts EXCEPT ![w] = cast]
\* derive the version that is known, and post it as its successor.
Post(w, version, rate) ==
    [at |-> "post", version |-> version, rate |-> rate, subject |-> UserOf(w), rounds |-> RateRounds]

\* toggle and cast, up to the first request: the lock, and assureUserRateExists.
Cast(w) ==
    /\ widgets[w].at = "ready" /\ ~ widgets[w].lock
    /\ UserOf(w) # Nobody
    /\ Event
    /\ widgets' = [widgets EXCEPT ![w].lock = TRUE]
    /\ \E value \in Buttons :
           LET rate == IF RateShown(w) = value THEN 0 ELSE value
           IN  Casting(w, IF widgets[w].mine # NoVersion THEN Post(w, widgets[w].mine, rate)
                          ELSE [at |-> "create", rate |-> rate, subject |-> UserOf(w)])
    /\ UNCHANGED <<rateItems, rateLog, user, known, fetches, messages, mishap>>

\* The server makes an item with its first version, and sends that version back.
ServerCreates(w) ==
    /\ casts[w].at = "create"
    /\ rateItems' = Append(rateItems, casts[w].subject)
    /\ Casting(w, [at |-> "created", rate |-> casts[w].rate, item |-> Len(rateItems) + 1])
    /\ UNCHANGED <<rateLog, user, known, widgets, fetches, messages, events, mishap>>
Created(w) ==
    /\ casts[w].at = "created"
    /\ LET version == <<casts[w].item, 0>>
       IN  /\ widgets' = [widgets EXCEPT ![w] = StoreMyRate(@, version)]
           /\ Casting(w, Post(w, version, casts[w].rate))
    /\ UNCHANGED <<rateItems, rateLog, user, known, fetches, messages, events, mishap>>

\* Only the creator may edit an item.  The validators of the sheet refuse a
\* second rate of the user in another item; a new version must follow LAST.
MayEdit(u, item) == u = rateItems[item]
\* Mutant: without create_validate_is_unique.
RatedNowhere(u, item) == FALSE
RatedElsewhere(u, item) ==
    \E n \in DOMAIN rateLog : rateLog[n].subject = u /\ rateLog[n].item # item
Errors(cast) ==
    LET item == cast.version[1]
    IN  IF ~ MayEdit(cast.subject, item) THEN {"forbidden"}
        ELSE {error \in {"unique", "fork"} :
                \/ error = "unique" /\ RatedElsewhere(cast.subject, item)
                \/ error = "fork" /\ cast.version # LastVersion(item)}

\* postNewVersionNoFork tries again only if "no fork" is the only error.
ServerTakesRate(w) ==
    /\ casts[w].at = "post"
    /\ LET cast == casts[w]
           item == cast.version[1]
       IN  IF Errors(cast) = {}
           THEN /\ rateLog' = Append(rateLog,
                            [item |-> item, subject |-> cast.subject, rate |-> cast.rate,
                             page |-> PageOf(w)])
                /\ messages' = messages \cup {v \in Widgets : widgets[v].listens = item}
                /\ Casting(w, [cast EXCEPT !.at = "stored"])
           ELSE /\ Casting(w, [cast EXCEPT !.at =
                              IF Errors(cast) = {"fork"} /\ cast.rounds > 1 THEN "wait" ELSE "failed"])
                /\ UNCHANGED <<rateLog, messages>>
    /\ UNCHANGED <<rateItems, user, known, widgets, fetches, events, mishap>>
GotNewest(w) ==
    /\ casts[w].at = "wait"
    /\ \E n \in known[PageOf(w)] .. Len(rateLog) :
           LET item == casts[w].version[1]
               newest == Max({0} \cup {m \in 1 .. n : rateLog[m].item = item})
           IN  Casting(w, [casts[w] EXCEPT !.at = "post", !.version = <<item, newest>>, !.rounds = @ - 1])
    /\ UNCHANGED <<rateItems, rateLog, user, known, widgets, fetches, messages, events, mishap>>

\* The answer drops what the cache had, and the event manager calls the widgets
\* of the page in turn.  One that does not know its pool yet throws: the ones
\* after it are not called, and the cast is rejected.
Mounted(p) == {i \in DOMAIN Pages[p] : widgets[Pages[p][i]].at # "absent"}
Throws(v) == widgets[v].at = "mounting"
\* Mutant: the event manager calls the first handler only.
CalledFirst(p) == {Pages[p][1]}
Called(p) ==
    {Pages[p][i] : i \in {j \in Mounted(p) : \A h \in 1 .. j : ~ Throws(Pages[p][h])}}
Trigger(p, w, thrown) ==
    [v \in Widgets |->
        IF v \in Called(p) THEN Asked(fetches[v], v, Len(rateLog), v = w /\ ~ thrown)
                           ELSE fetches[v]]
Succeeded(w) ==
    /\ casts[w].at = "stored"
    /\ known' = [known EXCEPT ![PageOf(w)] = Len(rateLog)]
    /\ LET thrown == \E v \in Range(Pages[PageOf(w)]) : Throws(v)
       IN  /\ fetches' = Trigger(PageOf(w), w, thrown)
           /\ Casting(w, [at |-> IF thrown THEN "failed" ELSE "refresh"])
           /\ mishap' = (mishap \/ thrown)
    /\ UNCHANGED <<rateItems, rateLog, user, widgets, messages, events>>

\* finally: whatever came of it, the widget can be used again.
\* Mutant: the lock is not released.
FinallyLocked(widget) == widget
Finally(widget) == [widget EXCEPT !.lock = FALSE]
Finishes(w) ==
    /\ \/ casts[w].at = "failed"
       \/ casts[w].at = "refresh" /\ AllAnswered(w)
    /\ widgets' = [widgets EXCEPT ![w] = Finally(@)]
    /\ Casting(w, NoCast)
    /\ UNCHANGED <<rateItems, rateLog, user, known, fetches, messages, events, mishap>>

\* A request of a cast fails, before or after the server has done its part.
CastFails(w) ==
    /\ casts[w].at \in {"create", "created", "post", "wait", "stored"}
    /\ Mishap
    /\ Casting(w, [at |-> "failed"])
    /\ UNCHANGED <<rateItems, rateLog, user, known, widgets, fetches, messages>>
\* A request for the totals fails: what is shown stays, and a widget that has
\* not loaded them never becomes ready.
FetchFails(w) ==
    /\ fetches[w] # <<>>
    /\ fetches' = [fetches EXCEPT ![w] = Tail(@)]
    /\ widgets' = [widgets EXCEPT ![w].at = IF @ = "loading" THEN "broken" ELSE @]
    /\ Mishap
    /\ UNCHANGED <<rateItems, rateLog, user, known, casts, messages>>

--------------------------------------------------------------------------------
(* The specification.                                                           *)

\* One user has all the pages, and may have rated before.
Rater == CHOOSE u \in Raters : TRUE
RatingInit ==
    /\ rateItems \in {<<>>, <<Rater>>}
    /\ rateLog = [i \in DOMAIN rateItems |->
                    [item |-> i, subject |-> rateItems[i], rate |-> 1, page |-> Elsewhere]]
    /\ user = [p \in DOMAIN Pages |-> Rater]
    /\ known = [p \in DOMAIN Pages |-> Len(rateLog)]
    /\ \E absent \in SUBSET {w \in Widgets : ~ IsFirst(w)} :
           widgets = [w \in Widgets |-> IF w \in absent THEN Absent ELSE Loaded(w)]
    /\ casts = [w \in Widgets |-> NoCast]
    /\ fetches = [w \in Widgets |-> <<>>]
    /\ messages = {} /\ events = 0 /\ mishap = FALSE

\* Nobody rates.
RatingIdle ==
    /\ rateItems = <<>> /\ rateLog = <<>>
    /\ user = [p \in DOMAIN Pages |-> Nobody] /\ known = [p \in DOMAIN Pages |-> 0]
    /\ widgets = [w \in Widgets |-> Absent]
    /\ casts = [w \in Widgets |-> NoCast] /\ fetches = [w \in Widgets |-> <<>>]
    /\ messages = {} /\ events = 0 /\ mishap = FALSE

\* What goes on by itself.
CastGoesOn(w) ==
    \/ ServerCreates(w) \/ Created(w) \/ ServerTakesRate(w) \/ GotNewest(w)
    \/ Succeeded(w) \/ Finishes(w)
WidgetGoesOn(w) ==
    \/ GotPool(w) \/ Ready(w) \/ GotRates(w) \/ Told(w) \/ CastGoesOn(w)
RatingNext ==
    \/ \E w \in Widgets : Mount(w) \/ Cast(w) \/ WidgetGoesOn(w) \/ CastFails(w) \/ FetchFails(w)
    \/ \E p \in DOMAIN Pages : SwitchUser(p)
RatingSpec == RatingInit /\ [][RatingNext]_ratingVars

--------------------------------------------------------------------------------
(* Properties.                                                                  *)

\* All rates of a user are versions of one item, which this user created, however
\* many widgets and pages cast at the same time, and whoever uses a page after
\* somebody else ("The backend must make sure that there is never more than one
\* rate item per subject-object pair", Rate.ts).  Items that nobody could use
\* may be left over.
OneRatePerUser ==
    \A m, n \in DOMAIN rateLog :
        /\ rateLog[m].subject = rateLog[n].subject => rateLog[m].item = rateLog[n].item
        /\ rateLog[m].subject = rateItems[rateLog[m].item]

\* The widgets of a page show the same: when a page that stored the last rate of
\* its user has come to rest, all its widgets show that rate, whether
\* they could listen to its item or not (adhRateEventManager: "used to sync these
\* directives locally").
Resting(p) ==
    \A w \in Range(Pages[p]) :
        casts[w] = NoCast /\ fetches[w] = <<>> /\ w \notin messages
WidgetsAgree ==
    \A p \in DOMAIN Pages :
        LET last == RateOf(user[p], Len(rateLog))
        IN  ~ mishap /\ Resting(p) /\ last # NoVersion /\ rateLog[last[2]].page = p =>
                \A w \in Range(Pages[p]) : widgets[w].at = "ready" => widgets[w].shown = last
================================================================================
