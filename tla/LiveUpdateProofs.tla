---------------------------- MODULE LiveUpdateProofs ----------------------------
(***************************************************************************)
(* The proofs about LiveUpdate: for any paths, requests and bounds, the    *)
(* registrations are accounted for, the server's subscriptions follow      *)
(* them, a stale answer is announced, and a listing follows the events.    *)
(* The operators on the browser's state are reasoned about one by one, as  *)
(* relations of constants; an action is then a line or two.                *)
(***************************************************************************)
EXTENDS LiveUpdate, SequenceTheorems, FiniteSetTheorems, TLAPS

\* --------------------------------------------------------------------- types
Owners == {"cache", "listing"}
Thens == {"show", "watch"}
Ids == Nat \ {0}

Handler == [id : Ids, owner : Owners]
Callback == [then : Thens, path : Path, ver : Nat]
Turn == [path : Path, id : Ids, owner : Owners]
Promise == {NoPromise, Failed} \cup [state : {"pending"}, request : RequestIds]
             \cup [state : {"ok"}, ver : Nat, forced : BOOLEAN]
Entry == [off : Nat, promise : Promise, unheard : BOOLEAN]
Request == {NoRequest} \cup [state : {"sent"}, path : Path, then : Seq(Thens)]
             \cup [state : {"read"}, path : Path, then : Seq(Thens),
                   ver : UNION {[S -> Nat] : S \in SUBSET Path}]
Browser ==
    [readyState : {"connecting", "open", "closing", "closed"}, connected : BOOLEAN,
     registrations : [Path -> Nat], handlers : [Path -> Seq(Handler)],
     up : [Path -> Seq({"subscribe", "unsubscribe"})], visiting : Seq(Turn),
     cache : [Path -> Entry], requests : [RequestIds -> Request],
     soon : Seq(Callback), thrown : BOOLEAN,
     leaked : [Path -> Nat]]
Offs == {NoOff} \cup [path : Path, id : Nat]

Watching == [path : Path \cup {NoPath}, alive : BOOLEAN,
             shown : [path : Path \cup {NoPath}, ver : Nat], off : Offs, missed : BOOLEAN]

TypeOK ==
    /\ browser \in Browser
    /\ listing \in Watching
    /\ version \in [Path -> Nat \ {0}]
    /\ unpublished \subseteq Path
    /\ subs \subseteq Path
    /\ down \in [Path -> Nat]

\* ------------------------------------------------------- the inductive invariant
\* The count is that of the handlers, whose ids tell them apart.
HandlersAt(b, p) ==
    /\ b.registrations[p] = Len(b.handlers[p])
    /\ \A j, k \in DOMAIN b.handlers[p] :
         b.handlers[p][j].id = b.handlers[p][k].id => j = k

\* The last frame on its way, or else the server, says whether p is registered.
FramesAt(b, sub, p) ==
    /\ b.readyState = "open" =>
         IF b.up[p] = <<>> THEN p \in sub <=> b.registrations[p] > 0
         ELSE b.up[p][Len(b.up[p])] = "subscribe" <=> b.registrations[p] > 0
    /\ b.readyState \in {"connecting", "closed"} => b.up[p] = <<>>
    /\ b.readyState = "connecting" => p \notin sub

\* A handler that is to be visited and still there is the one it was.
TurnsAt(b, p) ==
    \A k \in DOMAIN b.visiting : \A j \in DOMAIN b.handlers[p] :
        b.visiting[k].path = p /\ b.visiting[k].id = b.handlers[p][j].id
          => b.visiting[k].owner = b.handlers[p][j].owner

RegisteredAt(b, sub, p) == HandlersAt(b, p) /\ FramesAt(b, sub, p) /\ TurnsAt(b, p)

\* Registrations are those of the entry, of the listing, and of nobody.
CountAt(b, off, p) ==
    b.registrations[p] = b.leaked[p] + (IF IsCached(b, p) THEN 1 ELSE 0)
                                     + (IF off.path = p THEN 1 ELSE 0)

Has(b, p, id, owner) ==
    \E k \in DOMAIN b.handlers[p] : b.handlers[p][k] = [id |-> id, owner |-> owner]

\* An entry has its handler.
EntryAt(b, p) ==
    /\ IsCached(b, p) => Has(b, p, b.cache[p].off, "cache")
    /\ ~IsCached(b, p) => b.cache[p] = NoEntry

ListingAt(b, off, p) == off.path = p => Has(b, p, off.id, "listing")

\* The promise of an entry is that of a request for its path.
AwaitsAt(b, p) ==
    LET promise == b.cache[p].promise
    IN  promise.state = "pending" => /\ b.requests[promise.request] # NoRequest
                                     /\ b.requests[promise.request].path = p

\* No answer is newer than the resource.
KnownAt(b, ver, p) ==
    b.cache[p].promise.state = "ok" => b.cache[p].promise.ver <= ver[p]
Known(b, ver) ==
    /\ \A p \in Path : KnownAt(b, ver, p)
    /\ \A i \in RequestIds : b.requests[i].state = "read" =>
         \A q \in {b.requests[i].path} \cup Children(b.requests[i].path) :
             q \in DOMAIN b.requests[i].ver /\ b.requests[i].ver[q] <= ver[q]
    /\ \A k \in DOMAIN b.soon : b.soon[k].ver <= ver[b.soon[k].path]

PathOk(b, off, sub, p) ==
    /\ RegisteredAt(b, sub, p) /\ CountAt(b, off, p)
    /\ EntryAt(b, p) /\ ListingAt(b, off, p) /\ AwaitsAt(b, p)

BrowserOk(b, off, sub) ==
    /\ b \in Browser
    /\ off \in Offs
    /\ ~b.thrown
    /\ b.connected <=> b.readyState \in {"open", "closing"}
    /\ \A p \in Path : PathOk(b, off, sub, p)

\* There are entries only while the service is connected.
Linked(b) == \A p \in Path : IsCached(b, p) => b.connected

\* What an entry holds, or will hold when the answer under way is there, is old.
OldAt(b, ver, p) ==
    LET promise == b.cache[p].promise
    IN  \/ promise.state = "ok" /\ ~promise.forced /\ promise.ver < ver[p]
        \/ /\ promise.state = "pending"
           /\ b.requests[promise.request].state = "read"
           /\ b.requests[promise.request].ver[p] < ver[p]

AnnouncedAt(b, unpub, events, p) ==
    \/ p \in unpub \/ events[p] > 0 \/ b.cache[p].unheard
    \/ \E k \in DOMAIN b.visiting : b.visiting[k].path = p /\ b.visiting[k].id = b.cache[p].off

FreshAt(b, ver, unpub, events, p) ==
    b.readyState = "open" /\ OldAt(b, ver, p) => AnnouncedAt(b, unpub, events, p)

StateOk(b, off, sub, ver, unpub, events) ==
    /\ BrowserOk(b, off, sub) /\ Linked(b) /\ Known(b, ver)
    /\ \A p \in Path : FreshAt(b, ver, unpub, events, p)

\* A promise will call the listing back.
Coming(b) ==
    \/ \E i \in RequestIds : /\ b.requests[i] # NoRequest
                             /\ \E j \in DOMAIN b.requests[i].then : b.requests[i].then[j] = "show"
    \/ \E k \in DOMAIN b.soon : b.soon[k].then = "show"

\* What a listing that watches its pool and missed nothing shows is new, or an
\* event comes, or the listing's turn in an event, or an answer.
ListingFollows(b, l, ver, unpub, events) ==
    /\ b.readyState # "closed"
    /\ l.alive /\ l.off.path = l.path /\ l.path # NoPath /\ ~l.missed
    => \/ l.shown = [path |-> l.path, ver |-> ver[l.path]]
       \/ l.path \in unpub \/ events[l.path] > 0
       \/ Coming(b)
       \/ \E k \in DOMAIN b.visiting : b.visiting[k].path = l.path /\ b.visiting[k].id = l.off.id

\* Before the listing has a path, nothing was asked for.
Untouched(b) ==
    /\ \A p \in Path : b.handlers[p] = <<>>
    /\ \A i \in RequestIds : b.requests[i] = NoRequest
    /\ b.visiting = <<>> /\ b.soon = <<>>

Inv ==
    /\ TypeOK
    /\ StateOk(browser, listing.off, subs, version, unpublished, down)
    /\ ListingFollows(browser, listing, version, unpublished, down)
    /\ ~listing.alive => listing.off = NoOff
    /\ listing.path = NoPath => Untouched(browser)

\* ----------------------------------------------------------- the event manager
\* There is always an id that no handler of the path and no turn to come holds.
LEMMA FreeIdIsFree ==
    ASSUME NEW b \in Browser, NEW p \in Path
    PROVE  /\ FreeId(b, p) \in Ids
           /\ \A k \in DOMAIN b.handlers[p] : b.handlers[p][k].id # FreeId(b, p)
           /\ \A k \in DOMAIN b.visiting : b.visiting[k].id # FreeId(b, p)
<1> DEFINE h == b.handlers[p]
           v == b.visiting
           n == Len(h)
           m == Len(v)
           Free(i) == /\ \A k \in DOMAIN h : h[k].id # i
                      /\ \A k \in DOMAIN v : v[k].id # i
           Holds(k, i) == IF k <= n THEN h[k].id = i ELSE v[k - n].id = i
<1>1. h \in Seq(Handler) /\ v \in Seq(Turn)
  BY DEF Browser
<1>2. n \in Nat /\ m \in Nat /\ DOMAIN h = 1..n /\ DOMAIN v = 1..m
  BY <1>1, LenProperties
<1> HIDE DEF h, v, n, m
<1>3. \E i \in 1..(n + m + 1) : Free(i)
  <2> SUFFICES ASSUME \A i \in 1..(n + m + 1) : ~Free(i)
               PROVE  FALSE
    OBVIOUS
  <2> DEFINE A == 1..(n + m + 1)
             B == 1..(n + m)
             f == [i \in A |-> CHOOSE k \in B : Holds(k, i)]
  <2>1. ASSUME NEW i \in A
        PROVE  \E k \in B : Holds(k, i)
    <3>1. CASE \E k \in 1..n : h[k].id = i
      <4>1. PICK k \in 1..n : h[k].id = i
        BY <3>1
      <4>2. k \in 1..(n + m) /\ k <= n
        BY <1>2, <4>1
      <4> QED
        BY <4>1, <4>2
    <3>2. CASE \E k \in 1..m : v[k].id = i
      <4>1. PICK k \in 1..m : v[k].id = i
        BY <3>2
      <4>2. k + n \in 1..(n + m) /\ ~(k + n <= n) /\ (k + n) - n = k
        BY <1>2, <4>1
      <4>3. Holds(k + n, i)
        BY <4>1, <4>2
      <4> QED
        BY <4>2, <4>3
    <3> QED
      BY <1>2, <3>1, <3>2
  <2>2. ASSUME NEW i \in A
        PROVE  f[i] \in B /\ Holds(f[i], i)
    BY <2>1
  <2> HIDE DEF f
  <2>3. f \in [A -> B]
    BY <2>2 DEF f
  <2>4. /\ IsFiniteSet(A) /\ Cardinality(A) = n + m + 1
        /\ IsFiniteSet(B) /\ Cardinality(B) = n + m
    <3>1. n + m \in Int /\ n + m + 1 \in Int /\ 1 \in Int /\ ~(1 > n + m + 1)
          /\ (1 > n + m => n + m = 0)
      BY <1>2
    <3>2. (n + m + 1) - 1 + 1 = n + m + 1 /\ (n + m) - 1 + 1 = n + m
      BY <1>2
    <3> QED
      BY <3>1, <3>2, FS_Interval
  <2>5. \E i, j \in A : i # j /\ f[i] = f[j]
    <3>1. Cardinality(B) < Cardinality(A)
      BY <1>2, <2>4
    <3> HIDE DEF A, B
    <3> QED
      BY <2>3, <2>4, <3>1, FS_PigeonHole
  <2>6. PICK i, j \in A : i # j /\ f[i] = f[j]
    BY <2>5
  <2>7. Holds(f[i], i) /\ Holds(f[i], j)
    BY <2>2, <2>6
  <2> QED
    BY <2>6, <2>7
<1>4. FreeId(b, p) = CHOOSE i \in 1..(n + m + 1) : Free(i)
  BY DEF FreeId, h, v, n, m
<1>5. FreeId(b, p) \in 1..(n + m + 1) /\ Free(FreeId(b, p))
  BY <1>3, <1>4
<1> QED
  BY <1>2, <1>5 DEF Ids, h, v

\* What RemoveAt returns.
LEMMA RemoveAtIs ==
    ASSUME NEW S, NEW s \in Seq(S), NEW i \in 1..Len(s)
    PROVE  /\ RemoveAt(s, i) \in Seq(S)
           /\ Len(RemoveAt(s, i)) = Len(s) - 1
           /\ \A k \in 1..(Len(s) - 1) : RemoveAt(s, i)[k] = IF k < i THEN s[k] ELSE s[k + 1]
<1> DEFINE a == SubSeq(s, 1, i - 1)
           c == SubSeq(s, i + 1, Len(s))
<1>1. Len(s) \in Nat /\ \A k \in 1..Len(s) : s[k] \in S
  BY LenProperties, ElementOfSeq
<1>2. a \in Seq(S) /\ Len(a) = i - 1 /\ \A k \in 1..(i - 1) : a[k] = s[k]
  BY <1>1, SubSeqProperties
<1>3. /\ c \in Seq(S) /\ Len(c) = Len(s) - i
      /\ \A k \in 1..(Len(s) - i) : c[k] = s[i + k]
  BY <1>1, SubSeqProperties
<1>4. RemoveAt(s, i) = a \o c
  BY DEF RemoveAt
<1> HIDE DEF a, c
<1>5. /\ a \o c \in Seq(S) /\ Len(a \o c) = Len(a) + Len(c)
      /\ \A k \in 1..(Len(a) + Len(c)) :
           (a \o c)[k] = IF k <= Len(a) THEN a[k] ELSE c[k - Len(a)]
  BY <1>2, <1>3, ConcatProperties
<1>6. Len(a) + Len(c) = Len(s) - 1
  BY <1>1, <1>2, <1>3
<1>7. ASSUME NEW k \in 1..(Len(s) - 1)
      PROVE  (a \o c)[k] = IF k < i THEN s[k] ELSE s[k + 1]
  <2>1. (a \o c)[k] = IF k <= Len(a) THEN a[k] ELSE c[k - Len(a)]
    BY <1>5, <1>6
  <2>2. CASE k < i
    <3>1. k <= Len(a) /\ k \in 1..(i - 1)
      BY <1>1, <1>2, <2>2
    <3> QED
      BY <1>2, <2>1, <2>2, <3>1
  <2>3. CASE ~(k < i)
    <3>1. /\ ~(k <= Len(a)) /\ k - Len(a) \in 1..(Len(s) - i)
          /\ i + (k - Len(a)) = k + 1
      BY <1>1, <1>2, <2>3
    <3> QED
      BY <1>3, <2>1, <2>3, <3>1
  <2> QED
    BY <2>2, <2>3
<1> QED
  BY <1>4, <1>5, <1>6, <1>7

\* ------------------------------------------------------------------ registering
\* What becomes of one path's frames when its first registration begins or its last
\* one ends.
Sent(b, p, action) == IF b.readyState = "open" THEN Append(b.up[p], action) ELSE b.up[p]

\* Nothing but the registrations, handlers and frames of p has changed.
OnlyRegistered(b, c, p) ==
    /\ c.readyState = b.readyState /\ c.connected = b.connected
    /\ c.visiting = b.visiting /\ c.cache = b.cache /\ c.requests = b.requests
    /\ c.soon = b.soon /\ c.leaked = b.leaked /\ c.thrown = b.thrown
    /\ \A q \in Path \ {p} : /\ c.registrations[q] = b.registrations[q]
                             /\ c.handlers[q] = b.handlers[q]
                             /\ c.up[q] = b.up[q]

\* A registration is counted, its handler comes last, and the first one is sent.
LEMMA RegisterIs ==
    ASSUME NEW b \in Browser, NEW p \in Path, NEW owner \in Owners
    PROVE  LET c == Register(b, p, owner)
           IN  /\ c \in Browser
               /\ OnlyRegistered(b, c, p)
               /\ c.registrations[p] = b.registrations[p] + 1
               /\ c.handlers[p] = Append(b.handlers[p], [id |-> FreeId(b, p), owner |-> owner])
               /\ c.up[p] = IF b.registrations[p] = 0 THEN Sent(b, p, "subscribe") ELSE b.up[p]
<1> DEFINE counted == [b EXCEPT !.registrations[p] = @ + 1]
           up == IF b.registrations[p] = 0 THEN Sent(b, p, "subscribe") ELSE b.up[p]
           s == IF b.registrations[p] = 0 THEN Send(counted, "subscribe", p) ELSE counted
           handler == [id |-> FreeId(b, p), owner |-> owner]
<1>1. handler \in Handler
  BY FreeIdIsFree DEF Handler
<1>2. /\ b.registrations \in [Path -> Nat] /\ b.handlers \in [Path -> Seq(Handler)]
      /\ b.up \in [Path -> Seq({"subscribe", "unsubscribe"})]
  BY DEF Browser
<1>3. s = [b EXCEPT !.registrations[p] = @ + 1, !.up[p] = up]
  <2>1. counted.readyState = b.readyState /\ counted.up = b.up
    BY DEF Browser
  <2>2. [counted EXCEPT !.up[p] = Append(@, "subscribe")]
          = [b EXCEPT !.registrations[p] = @ + 1, !.up[p] = Append(@, "subscribe")]
    BY DEF Browser
  <2>3. counted = [b EXCEPT !.registrations[p] = @ + 1, !.up[p] = b.up[p]]
    BY <1>2 DEF Browser
  <2> QED
    BY <2>1, <2>2, <2>3 DEF Send, Sent
<1>4. up \in Seq({"subscribe", "unsubscribe"})
  BY <1>2 DEF Sent
<1>5. FreeId(s, p) = FreeId(b, p)
  <2>1. s.handlers = b.handlers /\ s.visiting = b.visiting
    BY <1>3 DEF Browser
  <2> QED
    BY <2>1 DEF FreeId
<1> HIDE DEF up, handler
<1>6. Register(b, p, owner) = On(s, p, owner)
  BY DEF Register
<1>7. On(s, p, owner) = [s EXCEPT !.handlers[p] = Append(@, handler)]
  BY <1>5 DEF On, handler
<1>8. s \in Browser /\ s.handlers = b.handlers
  <2>1. [b.registrations EXCEPT ![p] = @ + 1] \in [Path -> Nat]
    BY <1>2
  <2>2. [b.up EXCEPT ![p] = up] \in [Path -> Seq({"subscribe", "unsubscribe"})]
    BY <1>2, <1>4
  <2> QED
    BY <1>3, <2>1, <2>2 DEF Browser
<1>9. [b.handlers EXCEPT ![p] = Append(@, handler)] \in [Path -> Seq(Handler)]
  BY <1>1, <1>2
<1> DEFINE c == Register(b, p, owner)
           handlers == [b.handlers EXCEPT ![p] = Append(@, handler)]
<1>10. c = [s EXCEPT !.handlers = handlers]
  BY <1>6, <1>7, <1>8
<1>11. c = [b EXCEPT !.registrations = [b.registrations EXCEPT ![p] = @ + 1],
                     !.up = [b.up EXCEPT ![p] = up], !.handlers = handlers]
  BY <1>3, <1>10
<1> HIDE DEF c, handlers, s
<1>12. c \in Browser
  BY <1>8, <1>9, <1>10 DEF Browser, handlers
<1>13. /\ c.registrations = [b.registrations EXCEPT ![p] = @ + 1]
       /\ c.up = [b.up EXCEPT ![p] = up] /\ c.handlers = handlers
       /\ c.readyState = b.readyState /\ c.connected = b.connected
       /\ c.visiting = b.visiting /\ c.cache = b.cache /\ c.requests = b.requests
       /\ c.soon = b.soon /\ c.leaked = b.leaked /\ c.thrown = b.thrown
  BY <1>11 DEF Browser
<1>14. OnlyRegistered(b, c, p)
  BY <1>2, <1>13 DEF OnlyRegistered, handlers
<1>15. c.registrations[p] = b.registrations[p] + 1 /\ c.up[p] = up /\ c.handlers[p] = Append(b.handlers[p], handler)
  BY <1>2, <1>13 DEF handlers
<1> QED
  BY <1>12, <1>14, <1>15 DEF up, handler, c

\* A registration ended is no longer counted, its handler is gone, and the last
\* one is sent.
LEMMA UnregisterIs ==
    ASSUME NEW b \in Browser, NEW p \in Path, NEW id, HandlersAt(b, p),
           NEW i \in DOMAIN b.handlers[p], b.handlers[p][i].id = id
    PROVE  LET c == Unregister(b, p, id)
           IN  /\ c \in Browser
               /\ OnlyRegistered(b, c, p)
               /\ c.registrations[p] = b.registrations[p] - 1
               /\ c.handlers[p] = RemoveAt(b.handlers[p], i)
               /\ c.up[p] = IF b.registrations[p] = 1 THEN Sent(b, p, "unsubscribe") ELSE b.up[p]
<1> DEFINE handlers == [b.handlers EXCEPT ![p] = RemoveAt(@, i)]
           registrations == [b.registrations EXCEPT ![p] = @ - 1]
           up == IF b.registrations[p] = 1 THEN Sent(b, p, "unsubscribe") ELSE b.up[p]
           left == [Off(b, p, id) EXCEPT !.registrations[p] = @ - 1]
           c == Unregister(b, p, id)
<1>1. /\ b.registrations \in [Path -> Nat] /\ b.handlers \in [Path -> Seq(Handler)]
      /\ b.up \in [Path -> Seq({"subscribe", "unsubscribe"})]
  BY DEF Browser
<1>2. DOMAIN b.handlers[p] = 1..Len(b.handlers[p]) /\ Len(b.handlers[p]) \in Nat
  BY <1>1, LenProperties
<1>3. b.registrations[p] \in Nat \ {0}
  BY <1>2 DEF HandlersAt
<1>4. Place(b, p, id) = i /\ Handles(b, p, id)
  BY DEF Place, Handles, HandlersAt
<1>5. Off(b, p, id) = [b EXCEPT !.handlers = handlers]
  BY <1>4 DEF Off
<1>6. handlers \in [Path -> Seq(Handler)]
  BY <1>1, <1>2, RemoveAtIs
<1>7. registrations \in [Path -> Nat]
  BY <1>1, <1>3
<1>8. up \in Seq({"subscribe", "unsubscribe"})
  BY <1>1 DEF Sent
<1> HIDE DEF handlers
<1>9. left = [b EXCEPT !.handlers = handlers, !.registrations = registrations]
  BY <1>5 DEF Browser
<1>10. left.registrations[p] = b.registrations[p] - 1 /\ left.up = b.up
       /\ left.readyState = b.readyState
  BY <1>1, <1>9 DEF Browser
<1>11. c = IF left.registrations[p] = 0 THEN Send(left, "unsubscribe", p) ELSE left
  BY <1>3 DEF Unregister
<1> HIDE DEF left
<1>12. left.registrations[p] = 0 <=> b.registrations[p] = 1
  BY <1>3, <1>10
<1>13. c = [b EXCEPT !.handlers = handlers, !.registrations = registrations,
                     !.up = [b.up EXCEPT ![p] = up]]
  <2>1. CASE b.registrations[p] = 1 /\ b.readyState = "open"
    <3>1. c = [left EXCEPT !.up[p] = Append(b.up[p], "unsubscribe")]
      BY <1>10, <1>11, <1>12, <2>1 DEF Send
    <3>2. up = Append(b.up[p], "unsubscribe")
      BY <2>1 DEF Sent
    <3> QED
      BY <1>9, <1>10, <3>1, <3>2
  <2>2. CASE ~(b.registrations[p] = 1 /\ b.readyState = "open")
    <3>1. c = left
      BY <1>10, <1>11, <1>12, <2>2 DEF Send
    <3>2. up = b.up[p] /\ [b.up EXCEPT ![p] = up] = b.up
      BY <1>1, <2>2 DEF Sent
    <3>3. b.up = left.up /\ left = [left EXCEPT !.up = b.up]
      BY <1>6, <1>7, <1>9 DEF Browser
    <3> QED
      BY <1>9, <3>1, <3>2, <3>3
  <2> QED
    BY <2>1, <2>2
<1> HIDE DEF c, registrations, up
<1>14. [b.up EXCEPT ![p] = up] \in [Path -> Seq({"subscribe", "unsubscribe"})]
  BY <1>1, <1>8
<1>15. c \in Browser
  BY <1>6, <1>7, <1>13, <1>14 DEF Browser
<1>16. /\ c.registrations = registrations
       /\ c.up = [b.up EXCEPT ![p] = up] /\ c.handlers = handlers
       /\ c.readyState = b.readyState /\ c.connected = b.connected
       /\ c.visiting = b.visiting /\ c.cache = b.cache /\ c.requests = b.requests
       /\ c.soon = b.soon /\ c.leaked = b.leaked /\ c.thrown = b.thrown
  BY <1>13 DEF Browser
<1>17. OnlyRegistered(b, c, p)
  BY <1>1, <1>16 DEF OnlyRegistered, handlers, registrations
<1>18. /\ c.registrations[p] = b.registrations[p] - 1 /\ c.up[p] = up
       /\ c.handlers[p] = RemoveAt(b.handlers[p], i)
  BY <1>1, <1>16 DEF handlers, registrations
<1> QED
  BY <1>15, <1>17, <1>18 DEF up, c

\* A last frame more says what it says.
LEMMA AppendIs ==
    ASSUME NEW S, NEW s \in Seq(S), NEW e \in S
    PROVE  /\ Append(s, e) \in Seq(S) /\ Append(s, e) # <<>>
           /\ Len(Append(s, e)) = Len(s) + 1 /\ Len(s) \in Nat
           /\ DOMAIN s = 1..Len(s) /\ DOMAIN Append(s, e) = 1..(Len(s) + 1)
           /\ \A k \in 1..Len(s) : Append(s, e)[k] = s[k]
           /\ Append(s, e)[Len(s) + 1] = e
OBVIOUS

\* Registering keeps the handlers that were there, and adds one.
LEMMA RegisterOk ==
    ASSUME NEW b \in Browser, NEW p \in Path, NEW owner \in Owners, NEW sub,
           RegisteredAt(b, sub, p)
    PROVE  LET c == Register(b, p, owner)
           IN  /\ c \in Browser
               /\ OnlyRegistered(b, c, p)
               /\ RegisteredAt(c, sub, p)
               /\ c.registrations[p] = b.registrations[p] + 1
               /\ Has(c, p, FreeId(b, p), owner)
               /\ \A id, o : Has(b, p, id, o) => Has(c, p, id, o)
<1> DEFINE c == Register(b, p, owner)
           h == b.handlers[p]
           new == [id |-> FreeId(b, p), owner |-> owner]
<1>1. /\ c \in Browser /\ OnlyRegistered(b, c, p)
      /\ c.registrations[p] = b.registrations[p] + 1
      /\ c.handlers[p] = Append(h, new)
      /\ c.up[p] = IF b.registrations[p] = 0 THEN Sent(b, p, "subscribe") ELSE b.up[p]
  BY RegisterIs
<1>2. /\ new \in Handler /\ FreeId(b, p) \in Ids
      /\ \A k \in DOMAIN h : h[k].id # FreeId(b, p)
      /\ \A k \in DOMAIN b.visiting : b.visiting[k].id # FreeId(b, p)
  BY FreeIdIsFree DEF Handler
<1>3. h \in Seq(Handler) /\ b.registrations[p] \in Nat
  BY DEF Browser
<1> HIDE DEF c, new
<1>4. /\ Len(c.handlers[p]) = Len(h) + 1 /\ Len(h) \in Nat /\ DOMAIN h = 1..Len(h)
      /\ DOMAIN c.handlers[p] = 1..(Len(h) + 1)
      /\ \A k \in 1..Len(h) : c.handlers[p][k] = h[k]
      /\ c.handlers[p][Len(h) + 1] = new
  BY <1>1, <1>2, <1>3, AppendIs
<1>5. new.id = FreeId(b, p) /\ new.owner = owner
  BY DEF new
<1>6. HandlersAt(c, p)
  <2>1. b.registrations[p] = Len(h) /\ \A j, k \in DOMAIN h : h[j].id = h[k].id => j = k
    BY DEF RegisteredAt, HandlersAt
  <2>2. ASSUME NEW j \in DOMAIN c.handlers[p], NEW k \in DOMAIN c.handlers[p],
               c.handlers[p][j].id = c.handlers[p][k].id
        PROVE  j = k
    <3>1. j \in DOMAIN h \/ j = Len(h) + 1
      BY <1>4, <2>2
    <3>2. k \in DOMAIN h \/ k = Len(h) + 1
      BY <1>4, <2>2
    <3>3. \A x \in DOMAIN h : c.handlers[p][x] = h[x]
      BY <1>4
    <3>4. \A x \in DOMAIN h : c.handlers[p][x].id # c.handlers[p][Len(h) + 1].id
      BY <1>2, <1>4, <1>5, <3>3
    <3> QED
      BY <2>1, <2>2, <3>1, <3>2, <3>3, <3>4
  <2> QED
    BY <1>1, <1>4, <2>1, <2>2 DEF HandlersAt
<1>7. FramesAt(c, sub, p)
  <2>1. c.readyState = b.readyState /\ FramesAt(b, sub, p)
    BY <1>1 DEF OnlyRegistered, RegisteredAt
  <2>2. CASE b.registrations[p] = 0 /\ b.readyState = "open"
    <3>1. c.up[p] = Append(b.up[p], "subscribe") /\ c.registrations[p] > 0
      BY <1>1, <1>3, <2>2 DEF Sent
    <3>2. b.up[p] \in Seq({"subscribe", "unsubscribe"})
      BY DEF Browser
    <3>3. c.up[p] # <<>> /\ c.up[p][Len(c.up[p])] = "subscribe"
      BY <3>1, <3>2, AppendIs
    <3> QED
      BY <2>1, <2>2, <3>1, <3>3 DEF FramesAt
  <2>3. CASE ~(b.registrations[p] = 0 /\ b.readyState = "open")
    <3>1. c.up[p] = b.up[p] /\ (b.readyState = "open" => b.registrations[p] > 0)
          /\ c.registrations[p] > 0
      BY <1>1, <1>3, <2>3 DEF Sent
    <3> QED
      BY <2>1, <3>1 DEF FramesAt
  <2> QED
    BY <2>2, <2>3
<1>8. TurnsAt(c, p)
  <2>1. c.visiting = b.visiting /\ TurnsAt(b, p)
    BY <1>1 DEF OnlyRegistered, RegisteredAt
  <2>2. \A j \in DOMAIN c.handlers[p] :
           (j \in DOMAIN h /\ c.handlers[p][j] = h[j]) \/ c.handlers[p][j].id = FreeId(b, p)
    BY <1>4, <1>5
  <2> QED
    BY <1>2, <2>1, <2>2 DEF TurnsAt
<1>9. Has(c, p, FreeId(b, p), owner)
  <2>1. Len(h) + 1 \in DOMAIN c.handlers[p]
    BY <1>4
  <2> QED
    BY <1>4, <2>1 DEF Has, new
<1>10. \A id, o : Has(b, p, id, o) => Has(c, p, id, o)
  <2>1. \A k \in DOMAIN h : k \in DOMAIN c.handlers[p] /\ c.handlers[p][k] = h[k]
    BY <1>4
  <2> QED
    BY <2>1 DEF Has
<1> QED
  BY <1>1, <1>6, <1>7, <1>8, <1>9, <1>10 DEF RegisteredAt, c

\* Ending a registration keeps the handlers of the others.
LEMMA UnregisterOk ==
    ASSUME NEW b \in Browser, NEW p \in Path, NEW id, NEW owner, NEW sub,
           RegisteredAt(b, sub, p), Has(b, p, id, owner)
    PROVE  LET c == Unregister(b, p, id)
           IN  /\ c \in Browser
               /\ OnlyRegistered(b, c, p)
               /\ RegisteredAt(c, sub, p)
               /\ c.registrations[p] = b.registrations[p] - 1
               /\ \A other, o : other # id /\ Has(b, p, other, o) => Has(c, p, other, o)
<1> DEFINE c == Unregister(b, p, id)
           h == b.handlers[p]
<1>1. PICK i \in DOMAIN h : h[i] = [id |-> id, owner |-> owner]
  BY DEF Has
<1>2. HandlersAt(b, p) /\ h[i].id = id
  BY <1>1 DEF RegisteredAt
<1>3. /\ c \in Browser /\ OnlyRegistered(b, c, p)
      /\ c.registrations[p] = b.registrations[p] - 1
      /\ c.handlers[p] = RemoveAt(h, i)
      /\ c.up[p] = IF b.registrations[p] = 1 THEN Sent(b, p, "unsubscribe") ELSE b.up[p]
  BY <1>2, UnregisterIs
<1>4. /\ h \in Seq(Handler) /\ b.registrations[p] \in Nat
      /\ b.up[p] \in Seq({"subscribe", "unsubscribe"})
  BY DEF Browser
<1>5. DOMAIN h = 1..Len(h) /\ Len(h) \in Nat /\ i \in 1..Len(h)
  BY <1>4, LenProperties
<1> HIDE DEF c
<1>6. /\ c.handlers[p] \in Seq(Handler) /\ Len(c.handlers[p]) = Len(h) - 1
      /\ \A k \in 1..(Len(h) - 1) : c.handlers[p][k] = IF k < i THEN h[k] ELSE h[k + 1]
  BY <1>3, <1>4, <1>5, RemoveAtIs
<1>7. DOMAIN c.handlers[p] = 1..(Len(h) - 1)
  BY <1>6, LenProperties
<1>8. HandlersAt(c, p)
  <2>1. b.registrations[p] = Len(h) /\ \A j, k \in DOMAIN h : h[j].id = h[k].id => j = k
    BY <1>2 DEF HandlersAt
  <2>2. ASSUME NEW j \in DOMAIN c.handlers[p], NEW k \in DOMAIN c.handlers[p],
               c.handlers[p][j].id = c.handlers[p][k].id
        PROVE  j = k
    <3> DEFINE Old(x) == IF x < i THEN x ELSE x + 1
    <3>1. \A x \in DOMAIN c.handlers[p] :
             Old(x) \in DOMAIN h /\ c.handlers[p][x] = h[Old(x)]
      <4>1. TAKE x \in DOMAIN c.handlers[p]
      <4>2. x \in 1..(Len(h) - 1) /\ x \in 1..Len(h) /\ x + 1 \in 1..Len(h)
        BY <1>5, <1>7
      <4>3. c.handlers[p][x] = IF x < i THEN h[x] ELSE h[x + 1]
        BY <1>6, <4>2
      <4> QED
        BY <1>5, <4>2, <4>3
    <3>2. Old(j) = Old(k)
      BY <2>1, <2>2, <3>1
    <3> QED
      BY <1>5, <1>7, <3>2
  <2> QED
    BY <1>3, <1>6, <2>1, <2>2 DEF HandlersAt
<1>9. FramesAt(c, sub, p)
  <2>1. c.readyState = b.readyState /\ FramesAt(b, sub, p)
    BY <1>3 DEF OnlyRegistered, RegisteredAt
  <2>2. b.registrations[p] > 0
    BY <1>2, <1>5 DEF HandlersAt
  <2>3. CASE b.registrations[p] = 1 /\ b.readyState = "open"
    <3>1. c.up[p] = Append(b.up[p], "unsubscribe") /\ ~(c.registrations[p] > 0)
      BY <1>3, <1>4, <2>3 DEF Sent
    <3>2. c.up[p] # <<>> /\ c.up[p][Len(c.up[p])] = "unsubscribe"
      BY <1>4, <3>1, AppendIs
    <3> QED
      BY <2>1, <2>3, <3>1, <3>2 DEF FramesAt
  <2>4. CASE ~(b.registrations[p] = 1 /\ b.readyState = "open")
    <3>1. c.up[p] = b.up[p] /\ (b.readyState = "open" => c.registrations[p] > 0)
      BY <1>3, <1>4, <2>2, <2>4 DEF Sent
    <3> QED
      BY <2>1, <2>2, <3>1 DEF FramesAt
  <2> QED
    BY <2>3, <2>4
<1>10. TurnsAt(c, p)
  <2>1. c.visiting = b.visiting /\ TurnsAt(b, p)
    BY <1>3 DEF OnlyRegistered, RegisteredAt
  <2>2. \A k \in DOMAIN c.handlers[p] : \E j \in DOMAIN h : c.handlers[p][k] = h[j]
    <3>1. TAKE k \in DOMAIN c.handlers[p]
    <3>2. k \in DOMAIN h /\ k + 1 \in DOMAIN h
      BY <1>5, <1>7
    <3> QED
      BY <1>6, <1>7, <3>2
  <2> QED
    BY <2>1, <2>2 DEF TurnsAt
<1>11. ASSUME NEW other, NEW o, other # id, Has(b, p, other, o)
       PROVE  Has(c, p, other, o)
  <2>1. PICK j \in DOMAIN h : h[j] = [id |-> other, owner |-> o]
    BY <1>11 DEF Has
  <2>2. j # i
    BY <1>1, <1>11, <2>1
  <2>3. CASE j < i
    <3>1. j \in 1..(Len(h) - 1)
      BY <1>5, <2>1, <2>3
    <3> QED
      BY <1>6, <1>7, <2>1, <2>3, <3>1 DEF Has
  <2>4. CASE j > i
    <3>1. j - 1 \in 1..(Len(h) - 1) /\ ~(j - 1 < i) /\ (j - 1) + 1 = j
      BY <1>5, <2>1, <2>4
    <3> QED
      BY <1>6, <1>7, <2>1, <3>1 DEF Has
  <2> QED
    BY <1>5, <2>1, <2>2, <2>3, <2>4
<1> QED
  BY <1>3, <1>8, <1>9, <1>10, <1>11 DEF RegisteredAt, c

\* ----------------------------------------------------------------- the entries
\* Nothing but the registrations, handlers, frames and entry of p has changed.
OnlyAt(b, c, p) ==
    /\ c.readyState = b.readyState /\ c.connected = b.connected
    /\ c.visiting = b.visiting /\ c.requests = b.requests
    /\ c.soon = b.soon /\ c.leaked = b.leaked /\ c.thrown = b.thrown
    /\ \A q \in Path \ {p} : /\ c.registrations[q] = b.registrations[q]
                             /\ c.handlers[q] = b.handlers[q]
                             /\ c.up[q] = b.up[q]
                             /\ c.cache[q] = b.cache[q]

\* What is right about a path rests on that path's part of the state.
LEMMA SamePart ==
    ASSUME NEW b, NEW c, NEW off, NEW sub, NEW q,
           c.readyState = b.readyState, c.visiting = b.visiting, c.requests = b.requests,
           c.leaked[q] = b.leaked[q],
           c.registrations[q] = b.registrations[q], c.handlers[q] = b.handlers[q],
           c.up[q] = b.up[q], c.cache[q] = b.cache[q], PathOk(b, off, sub, q)
    PROVE  PathOk(c, off, sub, q)
BY DEF PathOk, RegisteredAt, HandlersAt, FramesAt, TurnsAt, CountAt, EntryAt, ListingAt,
       AwaitsAt, Has, IsCached

\* So do its registrations.
LEMMA SameRegistered ==
    ASSUME NEW b, NEW c, NEW sub, NEW q, c.readyState = b.readyState, c.visiting = b.visiting,
           c.registrations[q] = b.registrations[q], c.handlers[q] = b.handlers[q],
           c.up[q] = b.up[q], RegisteredAt(b, sub, q)
    PROVE  RegisteredAt(c, sub, q)
<1>1. HandlersAt(c, q)
  BY DEF RegisteredAt, HandlersAt
<1>2. FramesAt(c, sub, q)
  BY DEF RegisteredAt, FramesAt
<1>3. TurnsAt(c, q)
  BY DEF RegisteredAt, TurnsAt
<1> QED
  BY <1>1, <1>2, <1>3 DEF RegisteredAt

\* The paths that an operation leaves alone stay right.
LEMMA OthersOk ==
    ASSUME NEW b, NEW c, NEW off, NEW sub, NEW p, OnlyAt(b, c, p),
           \A q \in Path : PathOk(b, off, sub, q)
    PROVE  \A q \in Path \ {p} : PathOk(c, off, sub, q)
BY SamePart DEF OnlyAt

\* One id has one owner.
LEMMA OneOwner ==
    ASSUME NEW b, NEW p, HandlersAt(b, p), NEW id, NEW o1, NEW o2,
           Has(b, p, id, o1), Has(b, p, id, o2)
    PROVE  o1 = o2
<1>1. PICK j \in DOMAIN b.handlers[p] : b.handlers[p][j] = [id |-> id, owner |-> o1]
  BY DEF Has
<1>2. PICK k \in DOMAIN b.handlers[p] : b.handlers[p][k] = [id |-> id, owner |-> o2]
  BY DEF Has
<1>3. j = k
  BY <1>1, <1>2 DEF HandlersAt
<1> QED
  BY <1>1, <1>2, <1>3

\* The types of the sentinels.
LEMMA EntryTypes ==
    /\ NoEntry \in Entry /\ NoPromise \in Promise /\ Failed \in Promise
    /\ NoEntry.off = 0 /\ NoEntry.promise = NoPromise /\ NoEntry.unheard = FALSE
    /\ NoPromise.state = "none" /\ Failed.state = "failed"
    /\ \A i \in RequestIds : /\ Pending(i) \in Promise /\ Pending(i).state = "pending"
                             /\ Pending(i).request = i
    /\ \A ver \in Nat, forced \in BOOLEAN :
         /\ Settled(ver, forced) \in Promise /\ Settled(ver, forced).state = "ok"
         /\ Settled(ver, forced).ver = ver /\ Settled(ver, forced).forced = forced
BY DEF NoEntry, NoPromise, Failed, Entry, Promise, Pending, Settled

\* A dropped entry is gone with its registration, and all else stays right.
LEMMA InvalidateOk ==
    ASSUME NEW b, NEW off, NEW sub, BrowserOk(b, off, sub), NEW p \in Path
    PROVE  LET c == Invalidate(b, p)
           IN  /\ BrowserOk(c, off, sub) /\ OnlyAt(b, c, p)
               /\ c.cache[p] = NoEntry
               /\ ~IsCached(b, p) => c = b
<1> DEFINE u == Unregister(b, p, b.cache[p].off)
           c == Invalidate(b, p)
<1>1. b \in Browser /\ PathOk(b, off, sub, p) /\ ~b.thrown
  BY DEF BrowserOk
<1>2. CASE ~IsCached(b, p)
  <2>1. c = b
    BY <1>2 DEF Invalidate
  <2>2. b.cache[p] = NoEntry
    BY <1>1, <1>2 DEF PathOk, EntryAt
  <2> QED
    BY <2>1, <2>2 DEF OnlyAt
<1>3. CASE IsCached(b, p)
  <2>1. RegisteredAt(b, sub, p) /\ Has(b, p, b.cache[p].off, "cache")
    BY <1>1, <1>3 DEF PathOk, EntryAt
  <2>2. /\ u \in Browser /\ OnlyRegistered(b, u, p) /\ RegisteredAt(u, sub, p)
        /\ u.registrations[p] = b.registrations[p] - 1
        /\ \A id, o : id # b.cache[p].off /\ Has(b, p, id, o) => Has(u, p, id, o)
    BY <1>1, <2>1, UnregisterOk
  <2> HIDE DEF u
  <2>3. c = [u EXCEPT !.cache[p] = NoEntry]
    BY <1>3 DEF Invalidate, u
  <2>4. /\ c \in Browser
        /\ c.cache = [u.cache EXCEPT ![p] = NoEntry] /\ u.cache \in [Path -> Entry]
        /\ c.readyState = u.readyState /\ c.connected = u.connected
        /\ c.registrations = u.registrations /\ c.handlers = u.handlers /\ c.up = u.up
        /\ c.visiting = u.visiting /\ c.requests = u.requests /\ c.soon = u.soon
        /\ c.thrown = u.thrown /\ c.leaked = u.leaked
    <3>1. u.cache \in [Path -> Entry]
      BY <2>2 DEF Browser
    <3>2. [u.cache EXCEPT ![p] = NoEntry] \in [Path -> Entry]
      BY <3>1, EntryTypes
    <3> QED
      BY <2>2, <2>3, <3>1, <3>2 DEF Browser
  <2> HIDE DEF c
  <2>5. OnlyAt(b, c, p) /\ c.cache[p] = NoEntry /\ ~IsCached(c, p)
    BY <2>2, <2>4, EntryTypes DEF OnlyAt, OnlyRegistered, IsCached
  <2>6. RegisteredAt(c, sub, p)
    BY <2>2, <2>4, SameRegistered
  <2>7. CountAt(c, off, p)
    <3>1. CountAt(b, off, p) /\ b.leaked[p] \in Nat /\ b.registrations[p] \in Nat
      BY <1>1 DEF PathOk, Browser
    <3> QED
      BY <1>3, <2>2, <2>4, <2>5, <3>1 DEF CountAt, OnlyRegistered
  <2>8. ListingAt(c, off, p)
    <3> SUFFICES ASSUME off.path = p
                 PROVE  Has(c, p, off.id, "listing")
      BY DEF ListingAt
    <3>1. Has(b, p, off.id, "listing")
      BY <1>1 DEF PathOk, ListingAt
    <3>2. off.id # b.cache[p].off
      BY <2>1, <3>1, OneOwner DEF RegisteredAt
    <3>3. Has(u, p, off.id, "listing")
      BY <2>2, <3>1, <3>2
    <3> QED
      BY <2>4, <3>3 DEF Has
  <2>9. EntryAt(c, p) /\ AwaitsAt(c, p)
    BY <2>5, EntryTypes DEF EntryAt, AwaitsAt
  <2>10. \A q \in Path \ {p} : PathOk(c, off, sub, q)
    BY <2>5, OthersOk DEF BrowserOk
  <2>11. PathOk(c, off, sub, p)
    BY <2>6, <2>7, <2>8, <2>9 DEF PathOk
  <2>12. BrowserOk(c, off, sub)
    BY <2>4, <2>5, <2>10, <2>11 DEF BrowserOk, OnlyAt
  <2> QED
    BY <1>3, <2>5, <2>12 DEF c
<1> QED
  BY <1>2, <1>3

\* An entry that is made has its registration.
LEMMA GetOrSetCachedOk ==
    ASSUME NEW b, NEW off, NEW sub, BrowserOk(b, off, sub), NEW p \in Path
    PROVE  LET c == GetOrSetCached(b, p)
           IN  /\ BrowserOk(c, off, sub) /\ OnlyAt(b, c, p)
               /\ IsCached(c, p)
               /\ IsCached(b, p) => c = b
               /\ ~IsCached(b, p) => /\ c.cache[p].promise = NoPromise
                                     /\ c.cache[p].unheard = FALSE
<1> DEFINE u == Register(b, p, "cache")
           id == RegisteredId(b, p)
           entry == [NoEntry EXCEPT !.off = id]
           c == GetOrSetCached(b, p)
<1>1. b \in Browser /\ PathOk(b, off, sub, p) /\ ~b.thrown
  BY DEF BrowserOk
<1>2. CASE IsCached(b, p)
  BY <1>2 DEF GetOrSetCached, OnlyAt
<1>3. CASE ~IsCached(b, p)
  <2>1. RegisteredAt(b, sub, p)
    BY <1>1 DEF PathOk
  <2>2. /\ u \in Browser /\ OnlyRegistered(b, u, p) /\ RegisteredAt(u, sub, p)
        /\ u.registrations[p] = b.registrations[p] + 1
        /\ Has(u, p, id, "cache")
        /\ \A i, o : Has(b, p, i, o) => Has(u, p, i, o)
    BY <1>1, <2>1, RegisterOk DEF RegisteredId, Owners
  <2>3. id \in Ids
    BY <1>1, FreeIdIsFree DEF RegisteredId
  <2>4. entry = [off |-> id, promise |-> NoPromise, unheard |-> FALSE] /\ entry \in Entry
    <3>1. entry = [off |-> id, promise |-> NoPromise, unheard |-> FALSE]
      <4>1. NoEntry \in [off : {0}, promise : {NoPromise}, unheard : {FALSE}]
        BY DEF NoEntry
      <4>2. entry \in [off : {id}, promise : {NoPromise}, unheard : {FALSE}]
        BY <4>1
      <4> HIDE DEF entry
      <4> QED
        BY <4>2
    <3> QED
      BY <2>3, <3>1, EntryTypes DEF Entry, Ids
  <2> HIDE DEF u, id, entry
  <2>5. c = [u EXCEPT !.cache[p] = entry]
    BY <1>3 DEF GetOrSetCached, u, id, entry
  <2>6. /\ c \in Browser
        /\ c.cache = [u.cache EXCEPT ![p] = entry] /\ u.cache \in [Path -> Entry]
        /\ c.readyState = u.readyState /\ c.connected = u.connected
        /\ c.registrations = u.registrations /\ c.handlers = u.handlers /\ c.up = u.up
        /\ c.visiting = u.visiting /\ c.requests = u.requests /\ c.soon = u.soon
        /\ c.thrown = u.thrown /\ c.leaked = u.leaked
    <3>1. u.cache \in [Path -> Entry]
      BY <2>2 DEF Browser
    <3>2. [u.cache EXCEPT ![p] = entry] \in [Path -> Entry]
      BY <2>4, <3>1
    <3> QED
      BY <2>2, <2>5, <3>1, <3>2 DEF Browser
  <2> HIDE DEF c
  <2>7. /\ OnlyAt(b, c, p) /\ c.cache[p] = entry /\ IsCached(c, p)
        /\ entry.off = id /\ entry.promise = NoPromise /\ entry.unheard = FALSE
    BY <2>2, <2>3, <2>4, <2>6 DEF OnlyAt, OnlyRegistered, IsCached, Ids
  <2>8. RegisteredAt(c, sub, p)
    BY <2>2, <2>6, SameRegistered
  <2>9. CountAt(c, off, p)
    <3>1. CountAt(b, off, p) /\ b.leaked[p] \in Nat /\ b.registrations[p] \in Nat
      BY <1>1 DEF PathOk, Browser
    <3> QED
      BY <1>3, <2>2, <2>6, <2>7, <3>1 DEF CountAt, OnlyRegistered
  <2>10. ListingAt(c, off, p)
    BY <1>1, <2>2, <2>6 DEF PathOk, ListingAt, Has
  <2>11. EntryAt(c, p) /\ AwaitsAt(c, p)
    BY <2>2, <2>6, <2>7, EntryTypes DEF EntryAt, AwaitsAt, Has
  <2>12. \A q \in Path \ {p} : PathOk(c, off, sub, q)
    BY <2>7, OthersOk DEF BrowserOk
  <2>13. PathOk(c, off, sub, p)
    BY <2>8, <2>9, <2>10, <2>11 DEF PathOk
  <2>14. BrowserOk(c, off, sub)
    BY <2>6, <2>7, <2>12, <2>13 DEF BrowserOk, OnlyAt
  <2> QED
    BY <1>3, <2>7, <2>14 DEF c
<1> QED
  BY <1>2, <1>3

\* A promise forced into the cache.
LEMMA PutCachedOk ==
    ASSUME NEW b, NEW off, NEW sub, BrowserOk(b, off, sub), NEW p \in Path, NEW ver \in Nat
    PROVE  LET c == PutCached(b, p, ver)
           IN  /\ BrowserOk(c, off, sub) /\ OnlyAt(b, c, p)
               /\ ~b.connected => c = b
               /\ b.connected => c.cache[p].promise = Settled(ver, TRUE)
<1> DEFINE u == GetOrSetCached(b, p)
           c == PutCached(b, p, ver)
           promise == Settled(ver, TRUE)
<1>1. CASE ~b.connected
  BY <1>1 DEF PutCached, OnlyAt
<1>2. CASE b.connected
  <2>1. BrowserOk(u, off, sub) /\ OnlyAt(b, u, p) /\ IsCached(u, p)
    BY GetOrSetCachedOk
  <2>2. promise \in Promise /\ promise.state = "ok"
    BY EntryTypes
  <2> HIDE DEF u, promise
  <2>3. c = [u EXCEPT !.cache[p].promise = promise]
    BY <1>2 DEF PutCached, u, promise
  <2>4. u \in Browser /\ u.cache \in [Path -> Entry] /\ u.cache[p] \in Entry
    BY <2>1 DEF BrowserOk, Browser
  <2> DEFINE entry == [u.cache[p] EXCEPT !.promise = promise]
  <2>5. /\ entry \in Entry /\ entry.promise = promise /\ entry.off = u.cache[p].off
        /\ entry.unheard = u.cache[p].unheard
    BY <2>2, <2>4 DEF Entry
  <2> HIDE DEF entry
  <2>6. /\ c \in Browser
        /\ c.cache = [u.cache EXCEPT ![p] = entry]
        /\ c.readyState = u.readyState /\ c.connected = u.connected
        /\ c.registrations = u.registrations /\ c.handlers = u.handlers /\ c.up = u.up
        /\ c.visiting = u.visiting /\ c.requests = u.requests /\ c.soon = u.soon
        /\ c.thrown = u.thrown /\ c.leaked = u.leaked
    <3>1. [u.cache EXCEPT ![p] = entry] \in [Path -> Entry]
      BY <2>4, <2>5
    <3>2. c = [u EXCEPT !.cache = [u.cache EXCEPT ![p] = entry]]
      BY <2>3 DEF entry
    <3> QED
      BY <2>4, <3>1, <3>2 DEF Browser
  <2> HIDE DEF c
  <2>7. c.cache[p] = entry /\ OnlyAt(u, c, p) /\ IsCached(c, p)
    BY <2>1, <2>4, <2>5, <2>6 DEF OnlyAt, IsCached
  <2>8. PathOk(c, off, sub, p)
    <3>1. PathOk(u, off, sub, p)
      BY <2>1 DEF BrowserOk
    <3> QED
      BY <2>1, <2>2, <2>5, <2>6, <2>7, <3>1
         DEF PathOk, RegisteredAt, HandlersAt, FramesAt, TurnsAt, CountAt, EntryAt, ListingAt,
             AwaitsAt, Has, IsCached
  <2>9. \A q \in Path \ {p} : PathOk(c, off, sub, q)
    BY <2>1, <2>7, OthersOk DEF BrowserOk
  <2>10. BrowserOk(c, off, sub) /\ OnlyAt(b, c, p)
    BY <2>1, <2>6, <2>7, <2>8, <2>9 DEF BrowserOk, OnlyAt
  <2> QED
    BY <1>2, <2>5, <2>7, <2>10 DEF c, promise
<1> QED
  BY <1>1, <1>2

\* The turns of all paths together.
LEMMA TogetherOk ==
    ASSUME NEW b, NEW off, NEW sub, BrowserOk(b, off, sub), NEW each,
           \A p \in Path : BrowserOk(each[p], off, sub) /\ OnlyAt(b, each[p], p)
    PROVE  LET c == Together(b, each)
           IN  /\ BrowserOk(c, off, sub)
               /\ c.readyState = b.readyState /\ c.connected = b.connected
               /\ c.visiting = b.visiting /\ c.requests = b.requests
               /\ c.soon = b.soon /\ c.leaked = b.leaked
               /\ \A p \in Path : /\ c.cache[p] = each[p].cache[p]
                                  /\ c.handlers[p] = each[p].handlers[p]
<1> DEFINE c == Together(b, each)
           registrations == [p \in Path |-> each[p].registrations[p]]
           handlers == [p \in Path |-> each[p].handlers[p]]
           up == [p \in Path |-> each[p].up[p]]
           cache == [p \in Path |-> each[p].cache[p]]
           thrown == \E p \in Path : each[p].thrown
<1>1. b \in Browser /\ \A p \in Path : each[p] \in Browser /\ ~each[p].thrown
  BY DEF BrowserOk
<1>2. /\ registrations \in [Path -> Nat] /\ handlers \in [Path -> Seq(Handler)]
      /\ up \in [Path -> Seq({"subscribe", "unsubscribe"})] /\ cache \in [Path -> Entry]
      /\ thrown = FALSE
  BY <1>1 DEF Browser
<1>3. c = [b EXCEPT !.registrations = registrations, !.handlers = handlers, !.up = up,
                    !.cache = cache, !.thrown = thrown]
  BY DEF Together
<1>4. \A p \in Path : /\ registrations[p] = each[p].registrations[p]
                      /\ handlers[p] = each[p].handlers[p]
                      /\ up[p] = each[p].up[p] /\ cache[p] = each[p].cache[p]
  OBVIOUS
<1> HIDE DEF registrations, handlers, up, cache, thrown, c
<1>5. /\ c \in Browser
      /\ c.registrations = registrations /\ c.handlers = handlers /\ c.up = up
      /\ c.cache = cache /\ c.thrown = FALSE
      /\ c.readyState = b.readyState /\ c.connected = b.connected
      /\ c.visiting = b.visiting /\ c.requests = b.requests
      /\ c.soon = b.soon /\ c.leaked = b.leaked
  BY <1>1, <1>2, <1>3 DEF Browser
<1>6. ASSUME NEW p \in Path
      PROVE  PathOk(c, off, sub, p)
  <2>1. PathOk(each[p], off, sub, p) /\ OnlyAt(b, each[p], p)
    BY DEF BrowserOk
  <2>2. /\ each[p].readyState = c.readyState /\ each[p].visiting = c.visiting
        /\ each[p].requests = c.requests /\ each[p].leaked[p] = c.leaked[p]
    BY <1>5, <2>1 DEF OnlyAt
  <2> QED
    BY <1>4, <1>5, <2>1, <2>2, SamePart
<1>7. BrowserOk(c, off, sub)
  BY <1>5, <1>6 DEF BrowserOk
<1> QED
  BY <1>4, <1>5, <1>7 DEF c

\* All entries go at once.
LEMMA InvalidateAllOk ==
    ASSUME NEW b, NEW off, NEW sub, BrowserOk(b, off, sub)
    PROVE  LET c == InvalidateAll(b)
           IN  /\ BrowserOk(c, off, sub)
               /\ c.readyState = b.readyState /\ c.connected = b.connected
               /\ c.visiting = b.visiting /\ c.requests = b.requests
               /\ c.soon = b.soon /\ c.leaked = b.leaked
               /\ \A p \in Path : c.cache[p] = NoEntry
               /\ \A p \in Path : ~IsCached(b, p) => c.handlers[p] = b.handlers[p]
<1> DEFINE each == [p \in Path |-> Invalidate(b, p)]
<1>1. \A p \in Path : /\ BrowserOk(each[p], off, sub) /\ OnlyAt(b, each[p], p)
                      /\ each[p].cache[p] = NoEntry
                      /\ ~IsCached(b, p) => each[p] = b
  BY InvalidateOk
<1>2. InvalidateAll(b) = Together(b, each)
  BY DEF InvalidateAll
<1> HIDE DEF each
<1> QED
  BY <1>1, <1>2, TogetherOk

\* ---------------------------------------------------------------- the requests
\* Answers are stored for the elements of a pool, and only for these.
LEMMA ImportOk ==
    ASSUME NEW b, NEW off, NEW sub, BrowserOk(b, off, sub), NEW r,
           \A q \in Children(r.path) : r.ver[q] \in Nat
    PROVE  LET c == Import(b, r)
           IN  /\ BrowserOk(c, off, sub)
               /\ c.readyState = b.readyState /\ c.connected = b.connected
               /\ c.visiting = b.visiting /\ c.requests = b.requests
               /\ c.soon = b.soon /\ c.leaked = b.leaked
               /\ \A p \in Path : \/ c.cache[p] = b.cache[p]
                                  \/ /\ p \in Children(r.path) /\ b.connected
                                     /\ c.cache[p].promise = Settled(r.ver[p], TRUE)
               /\ \A p \in Path \ Children(r.path) : c.cache[p] = b.cache[p]
<1> DEFINE each == [q \in Path |-> IF q \in Children(r.path) THEN PutCached(b, q, r.ver[q]) ELSE b]
<1>1. ASSUME NEW q \in Path
      PROVE  /\ BrowserOk(each[q], off, sub) /\ OnlyAt(b, each[q], q)
             /\ \/ each[q].cache[q] = b.cache[q]
                \/ /\ q \in Children(r.path) /\ b.connected
                   /\ each[q].cache[q].promise = Settled(r.ver[q], TRUE)
             /\ q \notin Children(r.path) => each[q].cache[q] = b.cache[q]
  <2>1. CASE q \in Children(r.path)
    <3>1. each[q] = PutCached(b, q, r.ver[q]) /\ r.ver[q] \in Nat
      BY <2>1
    <3> DEFINE v == r.ver[q]
               e == PutCached(b, q, v)
    <3>2. v \in Nat /\ each[q] = e
      BY <3>1
    <3> HIDE DEF each, v
    <3>3. /\ BrowserOk(e, off, sub) /\ OnlyAt(b, e, q)
          /\ ~b.connected => e = b
          /\ b.connected => e.cache[q].promise = Settled(v, TRUE)
      BY <3>2, PutCachedOk
    <3> QED
      BY <2>1, <3>2, <3>3 DEF v
  <2>2. CASE q \notin Children(r.path)
    BY <2>2 DEF OnlyAt
  <2> QED
    BY <2>1, <2>2
<1>2. Import(b, r) = Together(b, each)
  BY DEF Import
<1> DEFINE c == Import(b, r)
<1> HIDE DEF each, c
<1>3. /\ BrowserOk(c, off, sub)
      /\ c.readyState = b.readyState /\ c.connected = b.connected
      /\ c.visiting = b.visiting /\ c.requests = b.requests
      /\ c.soon = b.soon /\ c.leaked = b.leaked
      /\ \A p \in Path : c.cache[p] = each[p].cache[p]
  <2>1. \A p \in Path : BrowserOk(each[p], off, sub) /\ OnlyAt(b, each[p], p)
    BY <1>1
  <2>2. c = Together(b, each)
    BY <1>2 DEF c
  <2> QED
    BY <2>1, <2>2, TogetherOk
<1>4. \A p \in Path : \/ c.cache[p] = b.cache[p]
                      \/ /\ p \in Children(r.path) /\ b.connected
                         /\ c.cache[p].promise = Settled(r.ver[p], TRUE)
  BY <1>1, <1>3
<1>5. \A p \in Path \ Children(r.path) : c.cache[p] = b.cache[p]
  BY <1>1, <1>3
<1> QED
  BY <1>3, <1>4, <1>5 DEF c

\* The kinds of request.
LEMMA RequestTypes ==
    /\ NoRequest \in Request /\ NoRequest.state = "none"
    /\ \A r \in Request : r # NoRequest =>
         /\ r.state \in {"sent", "read"} /\ r.path \in Path /\ r.then \in Seq(Thens)
    /\ \A r \in Request : r.state \in {"sent", "read"} => r # NoRequest
BY DEF NoRequest, Request

\* Nothing that a browser shows or knows is new when only what it waits for changes.
LEMMA SameFresh ==
    ASSUME NEW b, NEW c, NEW ver, NEW unpub, NEW events, NEW q,
           FreshAt(b, ver, unpub, events, q),
           c.readyState = b.readyState, c.visiting = b.visiting, c.cache[q] = b.cache[q],
           b.cache[q].promise.state = "pending" =>
             LET i == b.cache[q].promise.request
             IN  /\ c.requests[i].state = b.requests[i].state
                 /\ c.requests[i].state = "read" => c.requests[i].ver = b.requests[i].ver
    PROVE  FreshAt(c, ver, unpub, events, q)
BY DEF FreshAt, OldAt, AnnouncedAt

\* Callbacks of a settled promise.
LEMMA CallsAre ==
    ASSUME NEW thens \in Seq(Thens), NEW p \in Path, NEW ver, ver \in Nat
    PROVE  /\ Calls(thens, p, ver) \in Seq(Callback)
           /\ Len(Calls(thens, p, ver)) = Len(thens) /\ Len(thens) \in Nat
           /\ DOMAIN thens = 1..Len(thens)
           /\ \A j \in 1..Len(thens) :
                /\ Calls(thens, p, ver)[j].then = thens[j]
                /\ Calls(thens, p, ver)[j].path = p /\ Calls(thens, p, ver)[j].ver = ver
<1>1. Len(thens) \in Nat /\ DOMAIN thens = 1..Len(thens) /\ \A j \in 1..Len(thens) : thens[j] \in Thens
  BY LenProperties, ElementOfSeq
<1>2. \A j \in 1..Len(thens) : Call(thens[j], p, ver) \in Callback
  BY <1>1 DEF Call, Callback
<1>3. Calls(thens, p, ver) = [j \in 1..Len(thens) |-> Call(thens[j], p, ver)]
  BY <1>1 DEF Calls
<1>4. /\ Calls(thens, p, ver) \in Seq(Callback)
      /\ Len(Calls(thens, p, ver)) = Len(thens)
  BY <1>1, <1>2, <1>3
<1>5. \A j \in 1..Len(thens) : Calls(thens, p, ver)[j] = Call(thens[j], p, ver)
  BY <1>3
<1>6. \A k : Call(k, p, ver).then = k /\ Call(k, p, ver).path = p /\ Call(k, p, ver).ver = ver
  BY DEF Call
<1> QED
  BY <1>1, <1>4, <1>5, <1>6

\* They come after those that are there.
LEMMA CallsJoin ==
    ASSUME NEW before \in Seq(Callback),
           NEW thens \in Seq(Thens), NEW p \in Path, NEW ver, ver \in Nat
    PROVE  LET soon == before \o Calls(thens, p, ver)
           IN  /\ soon \in Seq(Callback)
               /\ \A k \in DOMAIN before : k \in DOMAIN soon /\ soon[k] = before[k]
               /\ \A k \in DOMAIN soon : \/ k \in DOMAIN before /\ soon[k] = before[k]
                                         \/ soon[k].path = p /\ soon[k].ver = ver
               /\ \A j \in DOMAIN thens : \E k \in DOMAIN soon : soon[k].then = thens[j]
<1> DEFINE calls == Calls(thens, p, ver)
           soon == before \o calls
           n == Len(before)
           m == Len(thens)
<1>1. /\ calls \in Seq(Callback)
      /\ Len(calls) = m /\ m \in Nat /\ DOMAIN thens = 1..m
      /\ \A j \in 1..m : calls[j].then = thens[j] /\ calls[j].path = p /\ calls[j].ver = ver
  BY CallsAre
<1>2. n \in Nat /\ DOMAIN before = 1..n
  BY LenProperties
<1> HIDE DEF calls
<1>3. /\ soon \in Seq(Callback)
      /\ Len(soon) = n + m
      /\ \A k \in 1..(n + m) : soon[k] = IF k <= n THEN before[k] ELSE calls[k - n]
  <2>1. /\ soon \in Seq(Callback)
        /\ Len(soon) = Len(before) + Len(calls)
        /\ \A k \in 1..(Len(before) + Len(calls)) :
             soon[k] = IF k <= Len(before) THEN before[k] ELSE calls[k - Len(before)]
    <3>1. calls \in Seq(Callback)
      BY <1>1
    <3> QED
      BY <3>1, ConcatProperties
  <2> HIDE DEF soon
  <2> QED
    BY <1>1, <2>1
<1>4. DOMAIN soon = 1..(n + m)
  BY <1>3, LenProperties
<1> HIDE DEF soon, n, m
<1>5. ASSUME NEW k \in DOMAIN before
      PROVE  k \in DOMAIN soon /\ soon[k] = before[k]
  BY <1>1, <1>2, <1>3, <1>4
<1>6. ASSUME NEW k \in DOMAIN soon
      PROVE  \/ k \in DOMAIN before /\ soon[k] = before[k]
             \/ soon[k].path = p /\ soon[k].ver = ver
  <2>1. CASE k <= n
    BY <1>1, <1>2, <1>3, <1>4, <2>1
  <2>2. CASE ~(k <= n)
    <3>1. k - n \in 1..m /\ soon[k] = calls[k - n]
      BY <1>1, <1>2, <1>3, <1>4, <2>2
    <3> QED
      BY <1>1, <3>1
  <2> QED
    BY <2>1, <2>2
<1>7. ASSUME NEW j \in DOMAIN thens
      PROVE  \E k \in DOMAIN soon : soon[k].then = thens[j]
  <2>1. j + n \in DOMAIN soon /\ ~(j + n <= n) /\ (j + n) - n = j
    BY <1>1, <1>2, <1>4
  <2>2. soon[j + n] = calls[j]
    BY <1>3, <1>4, <2>1
  <2> QED
    BY <1>1, <2>1, <2>2
<1> QED
  BY <1>3, <1>5, <1>6, <1>7 DEF soon, calls

\* A settled request is gone, its promise has its value if it is still there, and
\* who waited is called.
LEMMA SettleIs ==
    ASSUME NEW b \in Browser, NEW id \in RequestIds, b.requests[id] # NoRequest,
           NEW promise \in Promise, NEW ver, ver \in Nat
    PROVE  LET c == Settle(b, id, promise, ver)
               r == b.requests[id]
           IN  /\ c \in Browser /\ r.path \in Path
               /\ c.readyState = b.readyState /\ c.connected = b.connected
               /\ c.visiting = b.visiting /\ c.leaked = b.leaked /\ c.thrown = b.thrown
               /\ c.registrations = b.registrations /\ c.handlers = b.handlers /\ c.up = b.up
               /\ c.requests = [b.requests EXCEPT ![id] = NoRequest]
               /\ \A k \in DOMAIN b.soon : k \in DOMAIN c.soon /\ c.soon[k] = b.soon[k]
               /\ \A k \in DOMAIN c.soon :
                    \/ k \in DOMAIN b.soon /\ c.soon[k] = b.soon[k]
                    \/ c.soon[k].path = r.path /\ c.soon[k].ver = ver
               /\ \A j \in DOMAIN r.then : \E k \in DOMAIN c.soon : c.soon[k].then = r.then[j]
               /\ \A p \in Path : /\ c.cache[p].off = b.cache[p].off
                                  /\ c.cache[p].unheard = b.cache[p].unheard
               /\ \A p \in Path \ {r.path} : c.cache[p] = b.cache[p]
               /\ b.cache[r.path].promise = Pending(id) => c.cache[r.path].promise = promise
               /\ b.cache[r.path].promise # Pending(id) => c.cache[r.path] = b.cache[r.path]
<1> DEFINE c == Settle(b, id, promise, ver)
           r == b.requests[id]
           calls == Calls(r.then, r.path, ver)
           soon == b.soon \o calls
           new == IF b.cache[r.path].promise = Pending(id) THEN promise
                  ELSE b.cache[r.path].promise
           entry == [b.cache[r.path] EXCEPT !.promise = new]
<1>1. /\ r \in Request /\ r # NoRequest /\ b.requests \in [RequestIds -> Request]
      /\ b.cache \in [Path -> Entry] /\ b.soon \in Seq(Callback)
  BY DEF Browser
<1>2. r.path \in Path /\ r.then \in Seq(Thens)
  BY <1>1, RequestTypes
<1> HIDE DEF r
<1>3. /\ soon \in Seq(Callback)
      /\ \A k \in DOMAIN b.soon : k \in DOMAIN soon /\ soon[k] = b.soon[k]
      /\ \A k \in DOMAIN soon : \/ k \in DOMAIN b.soon /\ soon[k] = b.soon[k]
                                \/ soon[k].path = r.path /\ soon[k].ver = ver
      /\ \A j \in DOMAIN r.then : \E k \in DOMAIN soon : soon[k].then = r.then[j]
  <2>1. b.soon \in Seq(Callback) /\ r.then \in Seq(Thens) /\ r.path \in Path
    BY <1>1, <1>2
  <2> DEFINE before == b.soon
             thens == r.then
             p == r.path
  <2> HIDE DEF before, thens, p
  <2>2. before \in Seq(Callback) /\ thens \in Seq(Thens) /\ p \in Path
    BY <2>1 DEF before, thens, p
  <2>3. /\ before \o Calls(thens, p, ver) \in Seq(Callback)
        /\ \A k \in DOMAIN before : /\ k \in DOMAIN (before \o Calls(thens, p, ver))
                                   /\ (before \o Calls(thens, p, ver))[k] = before[k]
        /\ \A k \in DOMAIN (before \o Calls(thens, p, ver)) :
             \/ k \in DOMAIN before /\ (before \o Calls(thens, p, ver))[k] = before[k]
             \/ /\ (before \o Calls(thens, p, ver))[k].path = p
                /\ (before \o Calls(thens, p, ver))[k].ver = ver
        /\ \A j \in DOMAIN thens : \E k \in DOMAIN (before \o Calls(thens, p, ver)) :
             (before \o Calls(thens, p, ver))[k].then = thens[j]
    BY <2>2, CallsJoin
  <2> QED
    BY <2>3 DEF before, thens, p
<1>4. new \in Promise /\ b.cache[r.path] \in Entry
  BY <1>1, <1>2 DEF Entry
<1>5. /\ entry \in Entry /\ entry.promise = new /\ entry.off = b.cache[r.path].off
      /\ entry.unheard = b.cache[r.path].unheard
  BY <1>4 DEF Entry
<1>6. new = b.cache[r.path].promise => entry = b.cache[r.path]
  BY <1>4 DEF Entry
<1>7. c = [b EXCEPT !.requests = [b.requests EXCEPT ![id] = NoRequest],
                    !.cache = [b.cache EXCEPT ![r.path] = entry],
                    !.soon = soon]
  BY DEF Settle, r
<1> HIDE DEF c, calls, entry, soon
<1>8. /\ [b.requests EXCEPT ![id] = NoRequest] \in [RequestIds -> Request]
      /\ [b.cache EXCEPT ![r.path] = entry] \in [Path -> Entry]
  BY <1>1, <1>2, <1>5, RequestTypes
<1>9. /\ c \in Browser
      /\ c.readyState = b.readyState /\ c.connected = b.connected
      /\ c.visiting = b.visiting /\ c.leaked = b.leaked /\ c.thrown = b.thrown
      /\ c.registrations = b.registrations /\ c.handlers = b.handlers /\ c.up = b.up
      /\ c.requests = [b.requests EXCEPT ![id] = NoRequest]
      /\ c.cache = [b.cache EXCEPT ![r.path] = entry]
      /\ c.soon = soon
  BY <1>3, <1>7, <1>8 DEF Browser
<1>10. /\ \A p \in Path : /\ c.cache[p].off = b.cache[p].off
                          /\ c.cache[p].unheard = b.cache[p].unheard
       /\ \A p \in Path \ {r.path} : c.cache[p] = b.cache[p]
       /\ c.cache[r.path] = entry
  BY <1>1, <1>2, <1>5, <1>9
<1>11. /\ b.cache[r.path].promise = Pending(id) => c.cache[r.path].promise = promise
       /\ b.cache[r.path].promise # Pending(id) => c.cache[r.path] = b.cache[r.path]
  BY <1>5, <1>6, <1>10
<1> QED
  BY <1>2, <1>3, <1>9, <1>10, <1>11 DEF c, r

\* When a request is settled with what the entry that waits for it may hold, all
\* stays right, and the listing that waits for it will be called.
LEMMA SettleOk ==
    ASSUME NEW b, NEW off, NEW sub, NEW vers \in [Path -> Nat], NEW unpub, NEW events,
           StateOk(b, off, sub, vers, unpub, events),
           NEW id \in RequestIds, b.requests[id] # NoRequest,
           NEW promise \in Promise, NEW ver, ver \in Nat, ver <= vers[b.requests[id].path],
           promise.state # "pending",
           promise.state = "ok" => /\ b.requests[id].state = "read"
                                   /\ promise.ver = b.requests[id].ver[b.requests[id].path]
                                   /\ promise.ver <= vers[b.requests[id].path]
    PROVE  LET c == Settle(b, id, promise, ver)
           IN  /\ StateOk(c, off, sub, vers, unpub, events)
               /\ c.readyState = b.readyState /\ c.visiting = b.visiting
               /\ Coming(b) => Coming(c)
<1> DEFINE c == Settle(b, id, promise, ver)
           r == b.requests[id]
<1>1. /\ b \in Browser /\ b.requests \in [RequestIds -> Request]
      /\ b.cache \in [Path -> Entry] /\ b.soon \in Seq(Callback)
      /\ r \in Request /\ r # NoRequest
  BY DEF StateOk, BrowserOk, Browser
<1>2. r.path \in Path /\ r.then \in Seq(Thens) /\ r.state \in {"sent", "read"}
  BY <1>1, RequestTypes
<1>3. /\ c \in Browser /\ r.path \in Path
      /\ c.readyState = b.readyState /\ c.connected = b.connected
      /\ c.visiting = b.visiting /\ c.leaked = b.leaked /\ c.thrown = b.thrown
      /\ c.registrations = b.registrations /\ c.handlers = b.handlers /\ c.up = b.up
      /\ c.requests = [b.requests EXCEPT ![id] = NoRequest]
      /\ \A k \in DOMAIN b.soon : k \in DOMAIN c.soon /\ c.soon[k] = b.soon[k]
      /\ \A k \in DOMAIN c.soon :
           \/ k \in DOMAIN b.soon /\ c.soon[k] = b.soon[k]
           \/ c.soon[k].path = r.path /\ c.soon[k].ver = ver
      /\ \A j \in DOMAIN r.then : \E k \in DOMAIN c.soon : c.soon[k].then = r.then[j]
      /\ \A p \in Path : /\ c.cache[p].off = b.cache[p].off
                         /\ c.cache[p].unheard = b.cache[p].unheard
      /\ \A p \in Path \ {r.path} : c.cache[p] = b.cache[p]
      /\ b.cache[r.path].promise = Pending(id) => c.cache[r.path].promise = promise
      /\ b.cache[r.path].promise # Pending(id) => c.cache[r.path] = b.cache[r.path]
  BY <1>1, SettleIs
<1> HIDE DEF c
<1>6. \A p \in Path : AwaitsAt(b, p)
  BY DEF StateOk, BrowserOk, PathOk
<1>7. ASSUME NEW p \in Path, b.cache[p].promise.state = "pending"
      PROVE  \/ /\ p = r.path /\ c.cache[p].promise = promise
             \/ /\ c.cache[p] = b.cache[p] /\ b.cache[p].promise.request # id
                /\ b.cache[p].promise.request \in RequestIds
                /\ c.requests[b.cache[p].promise.request] = b.requests[b.cache[p].promise.request]
  <2>1. b.cache[p].promise \in [state : {"pending"}, request : RequestIds]
    BY <1>1, <1>7, EntryTypes DEF Entry, Promise
  <2>2. b.cache[p].promise.request \in RequestIds
    BY <2>1
  <2>3. CASE b.cache[p].promise.request = id
    <3>1. p = r.path
      BY <1>6, <1>7, <2>3 DEF AwaitsAt
    <3>2. b.cache[p].promise = Pending(id)
      BY <2>1, <2>3 DEF Pending
    <3> QED
      BY <1>3, <3>1, <3>2
  <2>4. CASE b.cache[p].promise.request # id
    <3>1. b.cache[p].promise # Pending(id)
      BY <2>4, EntryTypes
    <3>2. c.cache[p] = b.cache[p]
      BY <1>3, <3>1
    <3> QED
      BY <1>1, <1>3, <2>2, <2>4, <3>2
  <2> QED
    BY <2>3, <2>4
<1>8. ASSUME NEW p \in Path, b.cache[p].promise.state # "pending"
      PROVE  c.cache[p] = b.cache[p]
  <2>1. b.cache[p].promise # Pending(id)
    BY <1>8, EntryTypes
  <2> QED
    BY <1>3, <2>1
<1>9. BrowserOk(c, off, sub)
  <2>1. ASSUME NEW p \in Path
        PROVE  PathOk(c, off, sub, p)
    <3>1. PathOk(b, off, sub, p)
      BY DEF StateOk, BrowserOk
    <3>2. RegisteredAt(c, sub, p)
      BY <1>3, <3>1, SameRegistered DEF PathOk
    <3>3. CountAt(c, off, p) /\ ListingAt(c, off, p)
      BY <1>3, <3>1 DEF PathOk, CountAt, ListingAt, Has, IsCached
    <3>4. EntryAt(c, p)
      <4>1. IsCached(c, p) <=> IsCached(b, p)
        BY <1>3 DEF IsCached
      <4>2. ~IsCached(b, p) => c.cache[p] = NoEntry
        <5>1. ~IsCached(b, p) => b.cache[p] = NoEntry
          BY <3>1 DEF PathOk, EntryAt
        <5> QED
          BY <1>8, <5>1, EntryTypes
      <4> QED
        BY <1>3, <3>1, <4>1, <4>2 DEF PathOk, EntryAt, Has
    <3>5. AwaitsAt(c, p)
      BY <1>6, <1>7, <1>8 DEF AwaitsAt
    <3> QED
      BY <3>2, <3>3, <3>4, <3>5 DEF PathOk
  <2> QED
    BY <1>3, <2>1 DEF StateOk, BrowserOk
<1>10. Linked(c)
  BY <1>3 DEF StateOk, Linked, IsCached
<1>11. Known(c, vers)
  <2>1. Known(b, vers)
    BY DEF StateOk
  <2>2. ASSUME NEW p \in Path
        PROVE  KnownAt(c, vers, p)
    BY <1>7, <1>8, <2>1 DEF Known, KnownAt
  <2>3. ASSUME NEW i \in RequestIds, c.requests[i].state = "read"
        PROVE  c.requests[i] = b.requests[i]
    BY <1>1, <1>3, <2>3, RequestTypes
  <2>4. ASSUME NEW k \in DOMAIN c.soon
        PROVE  c.soon[k].ver <= vers[c.soon[k].path]
    BY <1>3, <2>1 DEF Known
  <2> QED
    BY <2>1, <2>2, <2>3, <2>4 DEF Known
<1>12. ASSUME NEW p \in Path
       PROVE  FreshAt(c, vers, unpub, events, p)
  <2>1. FreshAt(b, vers, unpub, events, p)
    BY DEF StateOk
  <2>2. CASE b.cache[p].promise.state # "pending"
    BY <1>3, <1>8, <2>1, <2>2, SameFresh
  <2>3. CASE b.cache[p].promise.state = "pending" /\ c.cache[p] = b.cache[p]
                /\ c.requests[b.cache[p].promise.request] = b.requests[b.cache[p].promise.request]
    BY <1>3, <2>1, <2>3, SameFresh
  <2>4. CASE b.cache[p].promise.state = "pending" /\ p = r.path /\ c.cache[p].promise = promise
    <3>1. CASE promise.state # "ok"
      BY <2>4, <3>1 DEF FreshAt, OldAt
    <3>2. CASE promise.state = "ok" /\ b.cache[p].promise = Pending(id)
      <4>1. b.cache[p].promise.request = id
        BY <3>2, EntryTypes
      <4>2. OldAt(c, vers, p) => OldAt(b, vers, p)
        BY <2>4, <3>2, <4>1 DEF OldAt
      <4>3. AnnouncedAt(b, unpub, events, p) => AnnouncedAt(c, unpub, events, p)
        BY <1>3 DEF AnnouncedAt
      <4> QED
        BY <1>3, <2>1, <4>2, <4>3 DEF FreshAt
    <3>3. CASE b.cache[p].promise # Pending(id)
      <4>1. c.cache[p] = b.cache[p]
        BY <1>3, <2>4, <3>3
      <4> QED
        BY <1>7, <2>3, <2>4, <3>1, <4>1
    <3> QED
      BY <3>1, <3>2, <3>3
  <2> QED
    BY <1>7, <2>2, <2>3, <2>4
<1>13. Coming(b) => Coming(c)
  <2>1. ASSUME NEW k \in DOMAIN b.soon, b.soon[k].then = "show"
        PROVE  Coming(c)
    BY <1>3, <2>1 DEF Coming
  <2>2. ASSUME NEW i \in RequestIds, b.requests[i] # NoRequest,
               NEW j \in DOMAIN b.requests[i].then, b.requests[i].then[j] = "show"
        PROVE  Coming(c)
    <3>1. CASE i = id
      <4>1. \E k \in DOMAIN c.soon : c.soon[k].then = "show"
        BY <1>3, <2>2, <3>1
      <4> QED
        BY <4>1 DEF Coming
    <3>2. CASE i # id
      <4>1. c.requests[i] = b.requests[i]
        BY <1>1, <1>3, <3>2
      <4> QED
        BY <2>2, <4>1 DEF Coming
    <3> QED
      BY <3>1, <3>2
  <2> QED
    BY <2>1, <2>2 DEF Coming
<1> QED
  BY <1>3, <1>9, <1>10, <1>11, <1>12, <1>13 DEF StateOk, c

\* A caller is called in its turn, and those before it too.
LEMMA ThenIs ==
    ASSUME NEW thens \in Seq(Thens), NEW k \in Thens
    PROVE  LET all == Then(thens, k)
           IN  /\ all \in Seq(Thens)
               /\ \A j \in DOMAIN thens : j \in DOMAIN all /\ all[j] = thens[j]
               /\ \E j \in DOMAIN all : all[j] = k
<1>1. CASE k = "show" /\ k \in Range(thens)
  BY <1>1 DEF Then, Range
<1>2. CASE ~(k = "show" /\ k \in Range(thens))
  <2> DEFINE all == Append(thens, k)
  <2>1. Then(thens, k) = all
    BY <1>2 DEF Then
  <2>2. /\ all \in Seq(Thens) /\ Len(thens) \in Nat
        /\ DOMAIN thens = 1..Len(thens) /\ DOMAIN all = 1..(Len(thens) + 1)
        /\ \A j \in 1..Len(thens) : all[j] = thens[j]
        /\ all[Len(thens) + 1] = k
    BY AppendIs
  <2> HIDE DEF all
  <2>3. /\ \A j \in DOMAIN thens : j \in DOMAIN all /\ all[j] = thens[j]
        /\ Len(thens) + 1 \in DOMAIN all
    BY <2>2
  <2> QED
    BY <2>1, <2>2, <2>3
<1> QED
  BY <1>1, <1>2

\* The kinds of promise.
LEMMA PromiseTypes ==
    \A promise \in Promise :
      /\ promise.state \in {"none", "failed", "pending", "ok"}
      /\ promise.state = "none" => promise = NoPromise
      /\ promise.state = "pending" => /\ promise.request \in RequestIds
                                      /\ promise = Pending(promise.request)
      /\ promise.state = "ok" => promise.ver \in Nat
BY DEF NoPromise, Failed, Promise, Pending

\* What only asks, or waits, leaves entries as right and as new as they were, if what
\* was asked for is, and an answer that is read brings what is known or new.
LEMMA WaitingOk ==
    ASSUME NEW b, NEW off, NEW sub, NEW vers \in [Path -> Nat], NEW unpub, NEW events,
           StateOk(b, off, sub, vers, unpub, events), NEW c \in Browser,
           c.readyState = b.readyState, c.connected = b.connected, c.visiting = b.visiting,
           c.registrations = b.registrations, c.handlers = b.handlers, c.up = b.up,
           c.cache = b.cache, c.thrown = b.thrown, c.leaked = b.leaked,
           \A i \in RequestIds : b.requests[i] # NoRequest =>
             /\ c.requests[i] # NoRequest /\ c.requests[i].path = b.requests[i].path
             /\ c.requests[i].state = "read" =>
                  \/ b.requests[i].state = "read" /\ c.requests[i].ver = b.requests[i].ver
                  \/ ~(c.requests[i].ver[c.requests[i].path] < vers[c.requests[i].path]),
           Known(c, vers)
    PROVE  StateOk(c, off, sub, vers, unpub, events)
<1>1. /\ b \in Browser /\ b.cache \in [Path -> Entry]
      /\ \A p \in Path : PathOk(b, off, sub, p)
  BY DEF StateOk, BrowserOk, Browser
<1>2. ASSUME NEW p \in Path, b.cache[p].promise.state = "pending"
      PROVE  /\ b.cache[p].promise.request \in RequestIds
             /\ b.requests[b.cache[p].promise.request] # NoRequest
             /\ b.requests[b.cache[p].promise.request].path = p
  <2>1. b.cache[p].promise \in Promise
    BY <1>1 DEF Entry
  <2> QED
    BY <1>1, <1>2, <2>1, PromiseTypes DEF PathOk, AwaitsAt
<1>3. ASSUME NEW p \in Path
      PROVE  PathOk(c, off, sub, p)
  <2>1. PathOk(b, off, sub, p)
    BY <1>1
  <2>2. AwaitsAt(c, p)
    BY <1>2 DEF AwaitsAt
  <2> QED
    BY <2>1, <2>2 DEF PathOk, RegisteredAt, HandlersAt, FramesAt, TurnsAt, CountAt, EntryAt,
                      ListingAt, Has, IsCached
<1>4. ASSUME NEW p \in Path
      PROVE  FreshAt(c, vers, unpub, events, p)
  <2>1. FreshAt(b, vers, unpub, events, p)
    BY DEF StateOk
  <2>2. OldAt(c, vers, p) => OldAt(b, vers, p)
    BY <1>2 DEF OldAt
  <2>3. AnnouncedAt(b, unpub, events, p) => AnnouncedAt(c, unpub, events, p)
    BY DEF AnnouncedAt
  <2> QED
    BY <2>1, <2>2, <2>3 DEF FreshAt
<1>5. Linked(c)
  BY DEF StateOk, Linked, IsCached
<1> QED
  BY <1>3, <1>4, <1>5 DEF StateOk, BrowserOk

\* What makes, drops or fills entries with answers to other requests leaves the state
\* right and new.
LEMMA EntriesOk ==
    ASSUME NEW b, NEW off, NEW sub, NEW vers \in [Path -> Nat], NEW unpub, NEW events,
           StateOk(b, off, sub, vers, unpub, events),
           NEW c, NEW off2, NEW sub2, BrowserOk(c, off2, sub2),
           c.readyState = b.readyState, c.connected = b.connected, c.visiting = b.visiting,
           c.requests = b.requests, c.soon = b.soon,
           \A p \in Path : \/ c.cache[p] = b.cache[p]
                           \/ /\ IsCached(c, p) => c.connected
                              /\ \/ c.cache[p].promise = NoPromise
                                 \/ \E ver \in Nat : /\ c.cache[p].promise = Settled(ver, TRUE)
                                                     /\ ver <= vers[p]
    PROVE  StateOk(c, off2, sub2, vers, unpub, events)
<1>1. Linked(c)
  BY DEF StateOk, Linked, IsCached
<1>2. ASSUME NEW p \in Path
      PROVE  KnownAt(c, vers, p) /\ FreshAt(c, vers, unpub, events, p)
  <2>1. KnownAt(b, vers, p) /\ FreshAt(b, vers, unpub, events, p)
    BY DEF StateOk, Known
  <2>2. CASE c.cache[p] = b.cache[p]
    BY <2>1, <2>2 DEF KnownAt, FreshAt, OldAt, AnnouncedAt
  <2>3. CASE c.cache[p].promise = NoPromise
    BY <2>3, EntryTypes DEF KnownAt, FreshAt, OldAt
  <2>4. ASSUME NEW ver \in Nat, c.cache[p].promise = Settled(ver, TRUE), ver <= vers[p]
        PROVE  KnownAt(c, vers, p) /\ FreshAt(c, vers, unpub, events, p)
    <3>1. /\ c.cache[p].promise.state = "ok" /\ c.cache[p].promise.ver = ver
          /\ c.cache[p].promise.forced
      BY <2>4 DEF Settled
    <3> QED
      BY <2>4, <3>1 DEF KnownAt, FreshAt, OldAt
  <2> QED
    BY <2>2, <2>3, <2>4
<1>3. Known(c, vers)
  BY <1>2 DEF StateOk, Known
<1> QED
  BY <1>1, <1>2, <1>3 DEF StateOk

\* A request for a path whose entry has none yet becomes what the entry waits for.
LEMMA PendOk ==
    ASSUME NEW b, NEW off, NEW sub, NEW vers \in [Path -> Nat], NEW unpub, NEW events,
           StateOk(b, off, sub, vers, unpub, events),
           NEW p \in Path, IsCached(b, p), NEW id \in RequestIds,
           b.requests[id] # NoRequest, b.requests[id].path = p, b.requests[id].state = "sent"
    PROVE  LET c == [b EXCEPT !.cache[p].promise = Pending(id)]
           IN  /\ StateOk(c, off, sub, vers, unpub, events)
               /\ c.readyState = b.readyState /\ c.connected = b.connected
               /\ c.visiting = b.visiting /\ c.requests = b.requests /\ c.soon = b.soon
<1> DEFINE promise == Pending(id)
           c == [b EXCEPT !.cache[p].promise = promise]
           entry == [b.cache[p] EXCEPT !.promise = promise]
<1>1. promise \in Promise /\ promise.state = "pending" /\ promise.request = id
  BY EntryTypes
<1> HIDE DEF promise
<1>2. /\ b \in Browser /\ b.cache \in [Path -> Entry] /\ b.cache[p] \in Entry
      /\ \A q \in Path : PathOk(b, off, sub, q)
  BY DEF StateOk, BrowserOk, Browser
<1>3. /\ entry \in Entry /\ entry.promise = promise /\ entry.off = b.cache[p].off
      /\ entry.unheard = b.cache[p].unheard
  BY <1>1, <1>2 DEF Entry
<1>4. c = [b EXCEPT !.cache = [b.cache EXCEPT ![p] = entry]]
  OBVIOUS
<1> HIDE DEF entry, c
<1>5. [b.cache EXCEPT ![p] = entry] \in [Path -> Entry]
  BY <1>2, <1>3
<1>6. /\ c \in Browser
      /\ c.cache = [b.cache EXCEPT ![p] = entry]
      /\ c.readyState = b.readyState /\ c.connected = b.connected
      /\ c.registrations = b.registrations /\ c.handlers = b.handlers /\ c.up = b.up
      /\ c.visiting = b.visiting /\ c.requests = b.requests /\ c.soon = b.soon
      /\ c.thrown = b.thrown /\ c.leaked = b.leaked
  BY <1>2, <1>4, <1>5 DEF Browser
<1>7. c.cache[p] = entry /\ OnlyAt(b, c, p) /\ IsCached(c, p)
  BY <1>2, <1>3, <1>6 DEF OnlyAt, IsCached
<1>8. PathOk(c, off, sub, p)
  BY <1>1, <1>2, <1>3, <1>6, <1>7
     DEF PathOk, RegisteredAt, HandlersAt, FramesAt, TurnsAt, CountAt, EntryAt, ListingAt,
         AwaitsAt, Has, IsCached
<1>9. \A q \in Path \ {p} : PathOk(c, off, sub, q)
  BY <1>2, <1>7, OthersOk
<1>10. BrowserOk(c, off, sub)
  BY <1>6, <1>8, <1>9 DEF StateOk, BrowserOk
<1>11. Linked(c)
  BY <1>3, <1>6, <1>7 DEF StateOk, Linked, IsCached, OnlyAt
<1>12. ASSUME NEW q \in Path
       PROVE  KnownAt(c, vers, q) /\ FreshAt(c, vers, unpub, events, q)
  <2>1. KnownAt(b, vers, q) /\ FreshAt(b, vers, unpub, events, q)
    BY DEF StateOk, Known
  <2>2. CASE q = p
    BY <1>1, <1>3, <1>6, <1>7, <2>2 DEF KnownAt, FreshAt, OldAt
  <2>3. CASE q # p
    BY <1>6, <1>7, <2>1, <2>3 DEF KnownAt, FreshAt, OldAt, AnnouncedAt, OnlyAt
  <2> QED
    BY <2>2, <2>3
<1>13. Known(c, vers)
  BY <1>6, <1>12 DEF StateOk, Known
<1> QED
  BY <1>6, <1>10, <1>11, <1>12, <1>13 DEF StateOk, c, promise

\* What waits for the listing still waits, and is joined by a caller k.
Joined(b, c, k) ==
    /\ c.readyState = b.readyState /\ c.visiting = b.visiting
    /\ Coming(b) => Coming(c)
    /\ k = "show" => Coming(c)

\* Who waits for a request under way.
LEMMA AwaitPending ==
    ASSUME NEW b, NEW off, NEW sub, NEW vers \in [Path -> Nat], NEW unpub, NEW events,
           StateOk(b, off, sub, vers, unpub, events),
           NEW id \in RequestIds, b.requests[id] # NoRequest, NEW k \in Thens
    PROVE  LET c == [b EXCEPT !.requests[id].then = Then(@, k)]
           IN  StateOk(c, off, sub, vers, unpub, events) /\ Joined(b, c, k)
<1> DEFINE c == [b EXCEPT !.requests[id].then = Then(@, k)]
           r == b.requests[id]
           all == Then(r.then, k)
           request == [r EXCEPT !.then = all]
<1>1. /\ b \in Browser /\ b.requests \in [RequestIds -> Request]
      /\ r \in Request /\ r # NoRequest
  BY DEF StateOk, BrowserOk, Browser
<1>2. c = [b EXCEPT !.requests = [b.requests EXCEPT ![id] = request]]
  OBVIOUS
<1> HIDE DEF r, c
<1>3. r.then \in Seq(Thens)
  BY <1>1, RequestTypes
<1>4. /\ all \in Seq(Thens)
      /\ \A j \in DOMAIN r.then : j \in DOMAIN all /\ all[j] = r.then[j]
      /\ \E j \in DOMAIN all : all[j] = k
  <2> DEFINE thens == r.then
  <2> HIDE DEF thens
  <2>1. thens \in Seq(Thens)
    BY <1>3 DEF thens
  <2>2. /\ Then(thens, k) \in Seq(Thens)
        /\ \A j \in DOMAIN thens : j \in DOMAIN Then(thens, k) /\ Then(thens, k)[j] = thens[j]
        /\ \E j \in DOMAIN Then(thens, k) : Then(thens, k)[j] = k
    BY <2>1, ThenIs
  <2> QED
    BY <2>2 DEF thens
<1> HIDE DEF all
<1>5. /\ request \in Request /\ request # NoRequest /\ request.path = r.path
      /\ request.state = r.state /\ request.then = all
      /\ r.state = "read" => request.ver = r.ver
  <2>1. CASE r \in [state : {"sent"}, path : Path, then : Seq(Thens)]
    BY <1>4, <2>1 DEF Request, NoRequest
  <2>2. CASE r \in [state : {"read"}, path : Path, then : Seq(Thens),
                    ver : UNION {[S -> Nat] : S \in SUBSET Path}]
    BY <1>4, <2>2 DEF Request, NoRequest
  <2> QED
    BY <1>1, <2>1, <2>2 DEF Request
<1> HIDE DEF request
<1>6. [b.requests EXCEPT ![id] = request] \in [RequestIds -> Request]
  BY <1>1, <1>5
<1>7. /\ c \in Browser /\ c.requests = [b.requests EXCEPT ![id] = request]
      /\ c.readyState = b.readyState /\ c.connected = b.connected
      /\ c.registrations = b.registrations /\ c.handlers = b.handlers /\ c.up = b.up
      /\ c.visiting = b.visiting /\ c.cache = b.cache /\ c.soon = b.soon
      /\ c.thrown = b.thrown /\ c.leaked = b.leaked
  BY <1>1, <1>2, <1>6 DEF Browser
<1>8. \A i \in RequestIds \ {id} : c.requests[i] = b.requests[i]
  BY <1>1, <1>7
<1>9. c.requests[id] = request /\ r = b.requests[id]
  BY <1>1, <1>7 DEF r
<1>10. Known(c, vers)
  <2>1. Known(b, vers)
    BY DEF StateOk
  <2>2. ASSUME NEW i \in RequestIds, c.requests[i].state = "read"
        PROVE  /\ b.requests[i].state = "read" /\ c.requests[i].path = b.requests[i].path
               /\ c.requests[i].ver = b.requests[i].ver
    BY <1>5, <1>8, <1>9, <2>2
  <2>3. \A i \in RequestIds : c.requests[i].state = "read" =>
          \A q \in {c.requests[i].path} \cup Children(c.requests[i].path) :
              q \in DOMAIN c.requests[i].ver /\ c.requests[i].ver[q] <= vers[q]
    BY <2>1, <2>2 DEF Known
  <2> QED
    BY <1>7, <2>1, <2>3 DEF Known, KnownAt
<1>11. StateOk(c, off, sub, vers, unpub, events)
  <2>1. \A i \in RequestIds : b.requests[i] # NoRequest =>
             /\ c.requests[i] # NoRequest /\ c.requests[i].path = b.requests[i].path
             /\ c.requests[i].state = "read" =>
                  \/ b.requests[i].state = "read" /\ c.requests[i].ver = b.requests[i].ver
                  \/ ~(c.requests[i].ver[c.requests[i].path] < vers[c.requests[i].path])
    BY <1>5, <1>8, <1>9
  <2> QED
    BY <1>7, <1>10, <2>1, WaitingOk
<1>12. Joined(b, c, k)
  <2>1. k = "show" => Coming(c)
    BY <1>4, <1>5, <1>9 DEF Coming
  <2>2. Coming(b) => Coming(c)
    <3>1. ASSUME NEW j \in DOMAIN b.soon, b.soon[j].then = "show"
          PROVE  Coming(c)
      BY <1>7, <3>1 DEF Coming
    <3>2. ASSUME NEW i \in RequestIds, b.requests[i] # NoRequest,
                 NEW j \in DOMAIN b.requests[i].then, b.requests[i].then[j] = "show"
          PROVE  Coming(c)
      <4>1. c.requests[i] # NoRequest /\ j \in DOMAIN c.requests[i].then
            /\ c.requests[i].then[j] = "show"
        BY <1>4, <1>5, <1>8, <1>9, <3>2
      <4> QED
        BY <4>1 DEF Coming
    <3> QED
      BY <3>1, <3>2 DEF Coming
  <2> QED
    BY <1>7, <2>1, <2>2 DEF Joined
<1> QED
  BY <1>11, <1>12 DEF c

\* A promise that is settled already calls back soon.
LEMMA AwaitSettled ==
    ASSUME NEW b, NEW off, NEW sub, NEW vers \in [Path -> Nat], NEW unpub, NEW events,
           StateOk(b, off, sub, vers, unpub, events),
           NEW p \in Path, NEW k \in Thens, NEW ver \in Nat, ver <= vers[p]
    PROVE  LET c == [b EXCEPT !.soon = Append(@, Call(k, p, ver))]
           IN  StateOk(c, off, sub, vers, unpub, events) /\ Joined(b, c, k)
<1> DEFINE call == Call(k, p, ver)
           before == b.soon
           soon == Append(before, call)
           c == [b EXCEPT !.soon = soon]
<1>1. b \in Browser /\ before \in Seq(Callback)
  BY DEF StateOk, BrowserOk, Browser
<1>2. call \in Callback /\ call.then = k /\ call.path = p /\ call.ver = ver
  BY DEF Call, Callback
<1> HIDE DEF call, before
<1>3. /\ soon \in Seq(Callback) /\ Len(before) \in Nat
      /\ DOMAIN before = 1..Len(before) /\ DOMAIN soon = 1..(Len(before) + 1)
      /\ \A j \in 1..Len(before) : soon[j] = before[j]
      /\ soon[Len(before) + 1] = call
  BY <1>1, <1>2, AppendIs
<1> HIDE DEF soon, c
<1>4. /\ c \in Browser /\ c.soon = soon
      /\ c.readyState = b.readyState /\ c.connected = b.connected
      /\ c.registrations = b.registrations /\ c.handlers = b.handlers /\ c.up = b.up
      /\ c.visiting = b.visiting /\ c.cache = b.cache /\ c.requests = b.requests
      /\ c.thrown = b.thrown /\ c.leaked = b.leaked
  BY <1>1, <1>3 DEF Browser, c
<1>5. /\ \A j \in DOMAIN before : j \in DOMAIN soon /\ soon[j] = before[j]
      /\ Len(before) + 1 \in DOMAIN soon
      /\ \A j \in DOMAIN soon : (j \in DOMAIN before /\ soon[j] = before[j]) \/ soon[j] = call
  BY <1>3
<1>6. Known(c, vers)
  <2>1. \A j \in DOMAIN c.soon : c.soon[j].ver <= vers[c.soon[j].path]
    BY <1>2, <1>4, <1>5 DEF StateOk, Known, before
  <2> QED
    BY <1>4, <2>1 DEF StateOk, Known, KnownAt
<1>7. StateOk(c, off, sub, vers, unpub, events)
  BY <1>4, <1>6, WaitingOk
<1>8. Joined(b, c, k)
  BY <1>2, <1>3, <1>4, <1>5 DEF Joined, Coming, before
<1> QED
  BY <1>7, <1>8 DEF c, soon, before, call

\* A request is made for a path.
LEMMA AskOk ==
    ASSUME NEW b, NEW off, NEW sub, NEW vers \in [Path -> Nat], NEW unpub, NEW events,
           StateOk(b, off, sub, vers, unpub, events),
           NEW id \in Idle(b), NEW p \in Path, NEW k \in Thens
    PROVE  LET c == [b EXCEPT !.requests[id] = [state |-> "sent", path |-> p, then |-> <<k>>]]
           IN  /\ StateOk(c, off, sub, vers, unpub, events) /\ Joined(b, c, k)
               /\ c.requests[id] = [state |-> "sent", path |-> p, then |-> <<k>>]
               /\ c.cache = b.cache
<1> DEFINE request == [state |-> "sent", path |-> p, then |-> <<k>>]
           c == [b EXCEPT !.requests[id] = request]
<1>1. /\ b \in Browser /\ b.requests \in [RequestIds -> Request]
      /\ id \in RequestIds /\ b.requests[id] = NoRequest
  BY DEF StateOk, BrowserOk, Browser, Idle
<1>2. /\ request \in Request /\ request.then[1] = k /\ 1 \in DOMAIN request.then
      /\ request.state = "sent" /\ request # NoRequest
  BY DEF Request, NoRequest
<1> HIDE DEF request, c
<1>3. [b.requests EXCEPT ![id] = request] \in [RequestIds -> Request]
  BY <1>1, <1>2
<1>4. /\ c \in Browser /\ c.requests = [b.requests EXCEPT ![id] = request]
      /\ c.readyState = b.readyState /\ c.connected = b.connected
      /\ c.registrations = b.registrations /\ c.handlers = b.handlers /\ c.up = b.up
      /\ c.visiting = b.visiting /\ c.cache = b.cache /\ c.soon = b.soon
      /\ c.thrown = b.thrown /\ c.leaked = b.leaked
  BY <1>1, <1>3 DEF Browser, c
<1>5. /\ c.requests[id] = request
      /\ \A i \in RequestIds \ {id} : c.requests[i] = b.requests[i]
      /\ \A i \in RequestIds : b.requests[i] # NoRequest => c.requests[i] = b.requests[i]
  BY <1>1, <1>4
<1>6. Known(c, vers)
  <2>1. \A i \in RequestIds : c.requests[i].state = "read" => c.requests[i] = b.requests[i]
    BY <1>2, <1>5
  <2> QED
    BY <1>4, <2>1 DEF StateOk, Known, KnownAt
<1>7. \A i \in RequestIds : b.requests[i] # NoRequest =>
        /\ c.requests[i] # NoRequest /\ c.requests[i].path = b.requests[i].path
        /\ c.requests[i].state = "read" =>
             \/ b.requests[i].state = "read" /\ c.requests[i].ver = b.requests[i].ver
             \/ ~(c.requests[i].ver[c.requests[i].path] < vers[c.requests[i].path])
  BY <1>5
<1>8. StateOk(c, off, sub, vers, unpub, events)
  BY <1>4, <1>6, <1>7, WaitingOk
<1>9. Joined(b, c, k)
  <2>1. Coming(b) => Coming(c)
    BY <1>4, <1>5 DEF Coming
  <2>2. k = "show" => Coming(c)
    BY <1>1, <1>2, <1>5 DEF Coming
  <2> QED
    BY <1>4, <2>1, <2>2 DEF Joined
<1> QED
  BY <1>4, <1>5, <1>8, <1>9 DEF c, request

\* Who asks will be called, whether there is an answer, a request under way, or neither.
LEMMA GetOk ==
    ASSUME NEW b, NEW off, NEW sub, NEW vers \in [Path -> Nat], NEW unpub, NEW events,
           StateOk(b, off, sub, vers, unpub, events),
           NEW p \in Path, NEW k \in Thens, Hit(b, p) \/ Idle(b) # {}
    PROVE  LET c == Get(b, p, k)
           IN  StateOk(c, off, sub, vers, unpub, events) /\ Joined(b, c, k)
<1>1. /\ b \in Browser /\ b.cache[p].promise \in Promise /\ PathOk(b, off, sub, p)
      /\ KnownAt(b, vers, p)
  BY DEF StateOk, BrowserOk, Browser, Entry, Known
<1>2. CASE Hit(b, p)
  <2> DEFINE promise == b.cache[p].promise
  <2>1. Get(b, p, k) = Await(b, p, k) /\ promise # NoPromise /\ promise \in Promise
    BY <1>1, <1>2 DEF Get, Hit
  <2>2. CASE promise.state = "pending"
    <3> DEFINE id == promise.request
               c == [b EXCEPT !.requests[id].then = Then(@, k)]
    <3>1. id \in RequestIds /\ b.requests[id] # NoRequest
      BY <1>1, <2>2, PromiseTypes DEF PathOk, AwaitsAt
    <3>2. Get(b, p, k) = c
      BY <2>1, <2>2 DEF Await
    <3> HIDE DEF promise, id
    <3>3. StateOk(c, off, sub, vers, unpub, events) /\ Joined(b, c, k)
      BY <3>1, AwaitPending
    <3> QED
      BY <3>2, <3>3
  <2>3. CASE promise.state = "ok"
    <3> DEFINE ver == promise.ver
               c == [b EXCEPT !.soon = Append(@, Call(k, p, ver))]
    <3>1. ver \in Nat /\ ver <= vers[p]
      BY <1>1, <2>3, PromiseTypes DEF KnownAt
    <3>2. Get(b, p, k) = c
      BY <2>1, <2>3 DEF Await
    <3> HIDE DEF promise, ver
    <3>3. StateOk(c, off, sub, vers, unpub, events) /\ Joined(b, c, k)
      BY <3>1, AwaitSettled
    <3> QED
      BY <3>2, <3>3
  <2>4. CASE promise.state # "pending" /\ promise.state # "ok"
    <3> DEFINE c == [b EXCEPT !.soon = Append(@, Call(k, p, NoVersion))]
    <3>1. Get(b, p, k) = c
      BY <2>1, <2>4 DEF Await
    <3>2. NoVersion \in Nat /\ NoVersion <= vers[p]
      BY DEF NoVersion
    <3>3. StateOk(c, off, sub, vers, unpub, events) /\ Joined(b, c, k)
      BY <3>2, AwaitSettled
    <3> QED
      BY <3>1, <3>3
  <2> QED
    BY <2>2, <2>3, <2>4
<1>3. CASE ~Hit(b, p)
  <2> DEFINE id == CHOOSE i \in Idle(b) : TRUE
             request == [state |-> "sent", path |-> p, then |-> <<k>>]
  <2>1. id \in Idle(b) /\ id \in RequestIds
    BY <1>3 DEF Idle
  <2>2. Get(b, p, k) = [Memoize(b, p, id) EXCEPT !.requests[id] = request]
    BY <1>3 DEF Get
  <2> HIDE DEF id
  <2>3. CASE ~b.connected
    <3> DEFINE c == [b EXCEPT !.requests[id] = request]
    <3>1. Get(b, p, k) = c
      BY <2>2, <2>3 DEF Memoize
    <3>2. StateOk(c, off, sub, vers, unpub, events) /\ Joined(b, c, k)
      BY <2>1, AskOk
    <3> QED
      BY <3>1, <3>2
  <2>4. CASE b.connected
    <3> DEFINE g == GetOrSetCached(b, p)
               a == [g EXCEPT !.requests[id] = request]
    <3>1. BrowserOk(g, off, sub) /\ OnlyAt(b, g, p) /\ IsCached(g, p)
          /\ (IsCached(b, p) => g = b)
          /\ (~IsCached(b, p) => g.cache[p].promise = NoPromise)
      BY GetOrSetCachedOk DEF StateOk
    <3>2. Get(b, p, k) = [[g EXCEPT !.cache[p].promise = Pending(id)] EXCEPT !.requests[id] = request]
      BY <2>2, <2>4 DEF Memoize
    <3> HIDE DEF g
    <3>3. StateOk(g, off, sub, vers, unpub, events)
      <4>1. \A q \in Path : \/ g.cache[q] = b.cache[q]
                            \/ /\ IsCached(g, q) => g.connected
                               /\ \/ g.cache[q].promise = NoPromise
                                  \/ \E ver \in Nat : /\ g.cache[q].promise = Settled(ver, TRUE)
                                                      /\ ver <= vers[q]
        BY <2>4, <3>1 DEF OnlyAt
      <4>2. /\ g.readyState = b.readyState /\ g.connected = b.connected
            /\ g.visiting = b.visiting /\ g.requests = b.requests /\ g.soon = b.soon
        BY <3>1 DEF OnlyAt
      <4> QED
        BY <3>1, <4>1, <4>2, EntriesOk
    <3>4. id \in Idle(g)
      BY <2>1, <3>1 DEF Idle, OnlyAt
    <3>5. /\ StateOk(a, off, sub, vers, unpub, events) /\ Joined(g, a, k)
          /\ a.requests[id] = request /\ a.cache = g.cache
      BY <3>3, <3>4, AskOk
    <3>6. Joined(b, a, k)
      BY <3>1, <3>5 DEF Joined, Coming, OnlyAt
    <3>7. Get(b, p, k) = [a EXCEPT !.cache[p].promise = Pending(id)]
      BY <3>1, <3>2 DEF BrowserOk, Browser
    <3>8. IsCached(a, p)
      BY <3>1, <3>5 DEF IsCached
    <3>9. request # NoRequest /\ request.path = p /\ request.state = "sent"
      BY DEF NoRequest
    <3> HIDE DEF a, request
    <3> DEFINE c == [a EXCEPT !.cache[p].promise = Pending(id)]
    <3>10. /\ StateOk(c, off, sub, vers, unpub, events)
           /\ c.readyState = a.readyState /\ c.visiting = a.visiting
           /\ c.requests = a.requests /\ c.soon = a.soon
      BY <2>1, <3>5, <3>8, <3>9, PendOk
    <3> HIDE DEF c
    <3>11. Joined(b, c, k)
      BY <3>6, <3>10 DEF Joined, Coming
    <3> QED
      BY <3>7, <3>10, <3>11 DEF c
  <2> QED
    BY <2>3, <2>4
<1> QED
  BY <1>2, <1>3

\* The answer comes: what it brings is stored where it is waited for, and who waits for
\* it is called.
LEMMA ReceiveOk ==
    ASSUME NEW b, NEW off, NEW sub, NEW vers \in [Path -> Nat], NEW unpub, NEW events,
           StateOk(b, off, sub, vers, unpub, events),
           NEW id \in RequestIds, b.requests[id].state = "read"
    PROVE  LET c == Receive(b, id)
           IN  /\ StateOk(c, off, sub, vers, unpub, events)
               /\ c.readyState = b.readyState /\ c.visiting = b.visiting
               /\ Coming(b) => Coming(c)
<1> DEFINE r == b.requests[id]
           i == Import(b, r)
           ver == r.ver[r.path]
           promise == Settled(ver, FALSE)
           c == Settle(i, id, promise, ver)
<1>1. /\ r \in Request /\ r.state = "read" /\ Known(b, vers) /\ r # NoRequest
      /\ b.requests[id] = r /\ BrowserOk(b, off, sub)
  BY RequestTypes DEF StateOk, BrowserOk, Browser
<1>2. /\ r.path \in Path /\ r.ver \in UNION {[S -> Nat] : S \in SUBSET Path}
  BY <1>1 DEF Request, NoRequest
<1>3. \A q \in {r.path} \cup Children(r.path) : q \in DOMAIN r.ver /\ r.ver[q] <= vers[q]
  BY <1>1 DEF Known
<1>4. \A q \in {r.path} \cup Children(r.path) : r.ver[q] \in Nat
  BY <1>2, <1>3
<1>5. Receive(b, id) = c
  BY DEF Receive
<1> HIDE DEF r, i
<1>6. /\ BrowserOk(i, off, sub)
      /\ i.readyState = b.readyState /\ i.connected = b.connected
      /\ i.visiting = b.visiting /\ i.requests = b.requests
      /\ i.soon = b.soon /\ i.leaked = b.leaked
      /\ \A p \in Path : \/ i.cache[p] = b.cache[p]
                         \/ /\ p \in Children(r.path) /\ b.connected
                            /\ i.cache[p].promise = Settled(r.ver[p], TRUE)
  <2>1. BrowserOk(b, off, sub) /\ \A q \in Children(r.path) : r.ver[q] \in Nat
    BY <1>1, <1>4
  <2>2. i = Import(b, r)
    BY DEF i
  <2>3. LET m == Import(b, r)
        IN  /\ BrowserOk(m, off, sub)
            /\ m.readyState = b.readyState /\ m.connected = b.connected
            /\ m.visiting = b.visiting /\ m.requests = b.requests
            /\ m.soon = b.soon /\ m.leaked = b.leaked
            /\ \A p \in Path : \/ m.cache[p] = b.cache[p]
                               \/ /\ p \in Children(r.path) /\ b.connected
                                  /\ m.cache[p].promise = Settled(r.ver[p], TRUE)
            /\ \A p \in Path \ Children(r.path) : m.cache[p] = b.cache[p]
    BY <2>1, ImportOk, Zenon
  <2> QED
    BY <2>2, <2>3
<1>7. StateOk(i, off, sub, vers, unpub, events)
  <2>1. \A p \in Path : \/ i.cache[p] = b.cache[p]
                        \/ /\ IsCached(i, p) => i.connected
                           /\ \/ i.cache[p].promise = NoPromise
                              \/ \E v \in Nat : /\ i.cache[p].promise = Settled(v, TRUE)
                                                /\ v <= vers[p]
    BY <1>3, <1>4, <1>6
  <2> QED
    BY <1>6, <2>1, EntriesOk
<1>8. ver \in Nat /\ ver <= vers[r.path] /\ i.requests[id] = r
  BY <1>1, <1>3, <1>4, <1>6
<1>9. ver = r.ver[r.path]
  OBVIOUS
<1> HIDE DEF ver
<1>10. promise \in Promise /\ promise.state = "ok" /\ promise.ver = ver
  BY <1>8, EntryTypes
<1> HIDE DEF promise
<1>11. /\ StateOk(c, off, sub, vers, unpub, events)
       /\ c.readyState = i.readyState /\ c.visiting = i.visiting
       /\ Coming(i) => Coming(c)
  <2>1. /\ i.requests[id] # NoRequest /\ ver <= vers[i.requests[id].path]
        /\ promise.state # "pending"
        /\ promise.state = "ok" => /\ i.requests[id].state = "read"
                                   /\ promise.ver = i.requests[id].ver[i.requests[id].path]
                                   /\ promise.ver <= vers[i.requests[id].path]
    BY <1>1, <1>8, <1>9, <1>10
  <2> QED
    BY <1>7, <1>8, <1>10, <2>1, SettleOk
<1> HIDE DEF c
<1>12. Coming(b) => Coming(c)
  BY <1>6, <1>11 DEF Coming
<1> QED
  BY <1>5, <1>6, <1>11, <1>12

\* There is no answer: the failure is stored where it is waited for.
LEMMA FailOk ==
    ASSUME NEW b, NEW off, NEW sub, NEW vers \in [Path -> Nat], NEW unpub, NEW events,
           StateOk(b, off, sub, vers, unpub, events),
           NEW id \in RequestIds, b.requests[id].state # "none"
    PROVE  LET c == Fail(b, id)
           IN  /\ StateOk(c, off, sub, vers, unpub, events)
               /\ c.readyState = b.readyState /\ c.visiting = b.visiting
               /\ Coming(b) => Coming(c)
<1> DEFINE c == Settle(b, id, Failed, NoVersion)
<1>1. b.requests[id] \in Request /\ b.requests[id] # NoRequest /\ b.requests[id].path \in Path
  BY RequestTypes DEF StateOk, BrowserOk, Browser
<1>2. NoVersion \in Nat /\ NoVersion <= vers[b.requests[id].path]
  BY <1>1 DEF NoVersion
<1>3. Failed \in Promise /\ Failed.state # "pending" /\ Failed.state # "ok"
  BY EntryTypes
<1>4. /\ StateOk(c, off, sub, vers, unpub, events)
      /\ c.readyState = b.readyState /\ c.visiting = b.visiting
      /\ Coming(b) => Coming(c)
  BY <1>1, <1>2, <1>3, SettleOk
<1> QED
  BY <1>4 DEF Fail

\* The server reads a resource.
LEMMA AnsweredOk ==
    ASSUME NEW b, NEW off, NEW sub, NEW vers \in [Path -> Nat], NEW unpub, NEW events,
           StateOk(b, off, sub, vers, unpub, events),
           NEW id \in RequestIds, b.requests[id].state = "sent"
    PROVE  LET c == Answered(b, id, vers)
           IN  /\ StateOk(c, off, sub, vers, unpub, events)
               /\ c.readyState = b.readyState /\ c.visiting = b.visiting
               /\ Coming(b) => Coming(c)
<1> DEFINE r == b.requests[id]
           S == {r.path} \cup Children(r.path)
           ver == [q \in S |-> vers[q]]
           request == [state |-> "read", path |-> r.path, then |-> r.then, ver |-> ver]
           c == Answered(b, id, vers)
<1>1. /\ b \in Browser /\ b.requests \in [RequestIds -> Request]
      /\ r \in Request /\ r # NoRequest /\ r.path \in Path /\ r.then \in Seq(Thens)
  BY RequestTypes DEF StateOk, BrowserOk, Browser
<1>2. c = [b EXCEPT !.requests = [b.requests EXCEPT ![id] = request]]
  BY DEF Answered
<1>3. S \in SUBSET Path /\ r.path \in S
  BY <1>1 DEF Children
<1>4. b.requests[id] = r
  OBVIOUS
<1> HIDE DEF r, c
<1>5. S = {r.path} \cup Children(r.path)
  OBVIOUS
<1> HIDE DEF S
<1>6. ver \in UNION {[T -> Nat] : T \in SUBSET Path} /\ DOMAIN ver = S
      /\ \A q \in S : ver[q] = vers[q]
  <2>1. ver \in [S -> Nat]
    BY <1>3
  <2> QED
    BY <1>3, <2>1
<1> HIDE DEF ver
<1>7. /\ request \in Request /\ request # NoRequest /\ request.path = r.path
      /\ request.state = "read" /\ request.then = r.then /\ request.ver = ver
  BY <1>1, <1>6 DEF Request, NoRequest
<1> HIDE DEF request
<1>8. [b.requests EXCEPT ![id] = request] \in [RequestIds -> Request]
  BY <1>1, <1>7
<1>9. /\ c \in Browser /\ c.requests = [b.requests EXCEPT ![id] = request]
      /\ c.readyState = b.readyState /\ c.connected = b.connected
      /\ c.registrations = b.registrations /\ c.handlers = b.handlers /\ c.up = b.up
      /\ c.visiting = b.visiting /\ c.cache = b.cache /\ c.soon = b.soon
      /\ c.thrown = b.thrown /\ c.leaked = b.leaked
  BY <1>1, <1>2, <1>8 DEF Browser
<1>10. /\ c.requests[id] = request
       /\ \A i \in RequestIds \ {id} : c.requests[i] = b.requests[i]
  BY <1>1, <1>9
<1>11. ASSUME NEW q \in S
       PROVE  ver[q] <= vers[q] /\ ~(ver[q] < vers[q])
  BY <1>3, <1>6
<1>12. Known(c, vers)
  <2>1. Known(b, vers)
    BY DEF StateOk
  <2>2. ASSUME NEW i \in RequestIds, c.requests[i].state = "read",
               NEW q \in {c.requests[i].path} \cup Children(c.requests[i].path)
        PROVE  q \in DOMAIN c.requests[i].ver /\ c.requests[i].ver[q] <= vers[q]
    <3>1. CASE i = id
      BY <1>5, <1>6, <1>7, <1>10, <1>11, <2>2, <3>1
    <3>2. CASE i # id
      BY <1>10, <2>1, <2>2, <3>2 DEF Known
    <3> QED
      BY <3>1, <3>2
  <2> QED
    BY <1>9, <2>1, <2>2 DEF Known, KnownAt
<1>13. StateOk(c, off, sub, vers, unpub, events)
  <2>1. \A i \in RequestIds : b.requests[i] # NoRequest =>
             /\ c.requests[i] # NoRequest /\ c.requests[i].path = b.requests[i].path
             /\ c.requests[i].state = "read" =>
                  \/ b.requests[i].state = "read" /\ c.requests[i].ver = b.requests[i].ver
                  \/ ~(c.requests[i].ver[c.requests[i].path] < vers[c.requests[i].path])
    BY <1>3, <1>4, <1>7, <1>10, <1>11
  <2> QED
    BY <1>9, <1>12, <2>1, WaitingOk
<1>14. Coming(b) => Coming(c)
  <2>1. \A i \in RequestIds : b.requests[i] # NoRequest =>
             c.requests[i] # NoRequest /\ c.requests[i].then = b.requests[i].then
    BY <1>4, <1>7, <1>10
  <2> QED
    BY <1>9, <2>1 DEF Coming
<1> QED
  BY <1>9, <1>13, <1>14 DEF c

\* ------------------------------------------------- the listing's registration
\* A registration is of a path, or none.
LEMMA OffTypes ==
    /\ NoOff \in Offs /\ NoOff.path \notin Path
    /\ \A off \in Offs : off # NoOff => off.path \in Path
BY LiveAssumption DEF NoOff, Offs

\* When the listing ends its registration, what is left is right.
LEMMA UnlistenOk ==
    ASSUME NEW b, NEW off, NEW sub, NEW vers \in [Path -> Nat], NEW unpub, NEW events,
           StateOk(b, off, sub, vers, unpub, events), off # NoOff
    PROVE  LET c == Unregister(b, off.path, off.id)
           IN  /\ StateOk(c, NoOff, sub, vers, unpub, events)
               /\ c.readyState = b.readyState /\ c.visiting = b.visiting
               /\ c.requests = b.requests /\ c.soon = b.soon
<1> DEFINE p == off.path
           c == Unregister(b, p, off.id)
<1>1. /\ b \in Browser /\ off \in Offs /\ ~b.thrown
      /\ b.connected <=> b.readyState \in {"open", "closing"}
      /\ \A q \in Path : PathOk(b, off, sub, q)
  BY DEF StateOk, BrowserOk
<1>2. p \in Path
  BY <1>1, OffTypes
<1>3. PathOk(b, off, sub, p) /\ Has(b, p, off.id, "listing")
  BY <1>1, <1>2 DEF PathOk, ListingAt
<1>4. off.path = p
  OBVIOUS
<1> HIDE DEF p
<1>5. /\ c \in Browser /\ OnlyRegistered(b, c, p) /\ RegisteredAt(c, sub, p)
      /\ c.registrations[p] = b.registrations[p] - 1
      /\ \A other, o : other # off.id /\ Has(b, p, other, o) => Has(c, p, other, o)
  BY <1>1, <1>2, <1>3, UnregisterOk DEF PathOk
<1> HIDE DEF c
<1>6. PathOk(c, NoOff, sub, p)
  <2>1. CountAt(c, NoOff, p)
    <3>1. b.registrations[p] = b.leaked[p] + (IF IsCached(b, p) THEN 1 ELSE 0) + 1
      BY <1>3, <1>4 DEF PathOk, CountAt
    <3>2. b.registrations[p] \in Nat /\ b.leaked[p] \in Nat
      BY <1>1, <1>2 DEF Browser
    <3>3. (IsCached(c, p) <=> IsCached(b, p)) /\ c.leaked = b.leaked
      BY <1>5 DEF OnlyRegistered, IsCached
    <3>4. NoOff.path # p
      BY <1>2, OffTypes
    <3> QED
      BY <1>5, <3>1, <3>2, <3>3, <3>4 DEF CountAt
  <2>2. EntryAt(c, p)
    <3>1. c.cache = b.cache
      BY <1>5 DEF OnlyRegistered
    <3>2. ASSUME IsCached(b, p)
          PROVE  Has(c, p, b.cache[p].off, "cache")
      <4>1. Has(b, p, b.cache[p].off, "cache")
        BY <1>3, <3>2 DEF PathOk, EntryAt
      <4>2. b.cache[p].off # off.id
        <5> SUFFICES ASSUME b.cache[p].off = off.id
                     PROVE  FALSE
          OBVIOUS
        <5>1. Has(b, p, off.id, "cache") /\ HandlersAt(b, p)
          BY <1>3, <4>1 DEF PathOk, RegisteredAt
        <5> QED
          BY <1>3, <5>1, OneOwner
      <4> QED
        BY <1>5, <4>1, <4>2
    <3> QED
      BY <1>3, <3>1, <3>2 DEF PathOk, EntryAt, IsCached
  <2>3. ListingAt(c, NoOff, p)
    BY <1>2, OffTypes DEF ListingAt
  <2>4. AwaitsAt(c, p)
    BY <1>3, <1>5 DEF PathOk, AwaitsAt, OnlyRegistered
  <2> QED
    BY <1>5, <2>1, <2>2, <2>3, <2>4 DEF PathOk
<1>7. ASSUME NEW q \in Path, q # p
      PROVE  PathOk(c, NoOff, sub, q)
  <2>1. PathOk(c, off, sub, q)
    BY <1>1, <1>5, <1>7, SamePart DEF OnlyRegistered
  <2>2. off.path # q /\ NoOff.path # q
    BY <1>4, <1>7, OffTypes
  <2> QED
    BY <2>1, <2>2 DEF PathOk, CountAt, ListingAt
<1>8. BrowserOk(c, NoOff, sub)
  BY <1>1, <1>5, <1>6, <1>7, OffTypes DEF BrowserOk, OnlyRegistered
<1>9. /\ c.readyState = b.readyState /\ c.connected = b.connected /\ c.visiting = b.visiting
      /\ c.requests = b.requests /\ c.soon = b.soon
      /\ \A q \in Path : c.cache[q] = b.cache[q]
  BY <1>5 DEF OnlyRegistered
<1>10. StateOk(c, NoOff, sub, vers, unpub, events)
  BY <1>8, <1>9, EntriesOk
<1> QED
  BY <1>9, <1>10 DEF c, p

\* One more registration that nobody can end.
LEMMA LeakIs ==
    ASSUME NEW b \in Browser, NEW p \in Path
    PROVE  LET c == [b EXCEPT !.leaked[p] = @ + 1]
           IN  /\ c \in Browser
               /\ c.leaked[p] = b.leaked[p] + 1
               /\ \A q \in Path \ {p} : c.leaked[q] = b.leaked[q]
               /\ c.readyState = b.readyState /\ c.connected = b.connected
               /\ c.registrations = b.registrations /\ c.handlers = b.handlers /\ c.up = b.up
               /\ c.visiting = b.visiting /\ c.cache = b.cache /\ c.requests = b.requests
               /\ c.soon = b.soon /\ c.thrown = b.thrown
<1> DEFINE leaked == [b.leaked EXCEPT ![p] = @ + 1]
<1>1. leaked \in [Path -> Nat] /\ b.leaked \in [Path -> Nat]
  BY DEF Browser
<1>2. leaked[p] = b.leaked[p] + 1 /\ \A q \in Path \ {p} : leaked[q] = b.leaked[q]
  BY <1>1
<1>3. [b EXCEPT !.leaked[p] = @ + 1] = [b EXCEPT !.leaked = leaked]
  OBVIOUS
<1> HIDE DEF leaked
<1>4. [b EXCEPT !.leaked = leaked].leaked = leaked
  BY DEF Browser
<1> QED
  BY <1>1, <1>2, <1>3, <1>4 DEF Browser

\* A full cache gives up an entry, whose registration nobody can end any more.
LEMMA EvictOk ==
    ASSUME NEW b, NEW off, NEW sub, NEW vers \in [Path -> Nat], NEW unpub, NEW events,
           StateOk(b, off, sub, vers, unpub, events), NEW p \in Path, IsCached(b, p)
    PROVE  LET c == [Evict(b, p) EXCEPT !.leaked[p] = @ + 1]
           IN  /\ StateOk(c, off, sub, vers, unpub, events)
               /\ c.readyState = b.readyState /\ c.visiting = b.visiting
               /\ c.requests = b.requests /\ c.soon = b.soon
<1> DEFINE e == Evict(b, p)
           c == [e EXCEPT !.leaked[p] = @ + 1]
<1>1. /\ b \in Browser /\ off \in Offs /\ ~b.thrown
      /\ b.connected <=> b.readyState \in {"open", "closing"}
      /\ \A q \in Path : PathOk(b, off, sub, q)
      /\ b.cache \in [Path -> Entry] /\ b.registrations \in [Path -> Nat]
      /\ b.leaked \in [Path -> Nat]
  BY DEF StateOk, BrowserOk, Browser
<1>2. e = [b EXCEPT !.cache = [b.cache EXCEPT ![p] = NoEntry]]
  BY DEF Evict
<1> HIDE DEF e
<1>3. [b.cache EXCEPT ![p] = NoEntry] \in [Path -> Entry]
  BY <1>1, EntryTypes
<1>4. /\ e \in Browser /\ e.cache = [b.cache EXCEPT ![p] = NoEntry]
      /\ e.readyState = b.readyState /\ e.connected = b.connected
      /\ e.registrations = b.registrations /\ e.handlers = b.handlers /\ e.up = b.up
      /\ e.visiting = b.visiting /\ e.leaked = b.leaked /\ e.requests = b.requests
      /\ e.soon = b.soon /\ e.thrown = b.thrown
  BY <1>1, <1>2, <1>3 DEF Browser
<1>5. /\ c \in Browser /\ c.leaked[p] = e.leaked[p] + 1
      /\ \A q \in Path \ {p} : c.leaked[q] = e.leaked[q]
      /\ c.readyState = e.readyState /\ c.connected = e.connected
      /\ c.registrations = e.registrations /\ c.handlers = e.handlers /\ c.up = e.up
      /\ c.visiting = e.visiting /\ c.cache = e.cache /\ c.requests = e.requests
      /\ c.soon = e.soon /\ c.thrown = e.thrown
  BY <1>4, LeakIs
<1> HIDE DEF c
<1>6. c.cache[p] = NoEntry /\ \A q \in Path \ {p} : c.cache[q] = b.cache[q]
  BY <1>1, <1>4, <1>5
<1>7. ~IsCached(c, p)
  BY <1>6, EntryTypes DEF IsCached
<1>8. PathOk(c, off, sub, p)
  <2>1. PathOk(b, off, sub, p)
    BY <1>1
  <2>2. RegisteredAt(c, sub, p) /\ ListingAt(c, off, p)
    BY <1>4, <1>5, <2>1
       DEF PathOk, RegisteredAt, HandlersAt, FramesAt, TurnsAt, ListingAt, Has
  <2>3. CountAt(c, off, p)
    <3>1. b.registrations[p] \in Nat /\ b.leaked[p] \in Nat
      BY <1>1
    <3>2. /\ b.registrations[p] = b.leaked[p] + 1 + (IF off.path = p THEN 1 ELSE 0)
          /\ c.registrations[p] = b.registrations[p] /\ c.leaked[p] = b.leaked[p] + 1
      BY <1>4, <1>5, <2>1 DEF PathOk, CountAt
    <3> QED
      BY <1>7, <3>1, <3>2 DEF CountAt
  <2>4. EntryAt(c, p) /\ AwaitsAt(c, p)
    BY <1>6, <1>7, EntryTypes DEF EntryAt, AwaitsAt
  <2> QED
    BY <2>2, <2>3, <2>4 DEF PathOk
<1>9. ASSUME NEW q \in Path \ {p}
      PROVE  PathOk(c, off, sub, q)
  <2>1. /\ c.readyState = b.readyState /\ c.visiting = b.visiting /\ c.requests = b.requests
        /\ c.leaked[q] = b.leaked[q]
        /\ c.registrations[q] = b.registrations[q] /\ c.handlers[q] = b.handlers[q]
        /\ c.up[q] = b.up[q] /\ c.cache[q] = b.cache[q] /\ PathOk(b, off, sub, q)
    BY <1>1, <1>4, <1>5, <1>6
  <2> QED
    BY <2>1, SamePart
<1>10. BrowserOk(c, off, sub)
  BY <1>1, <1>4, <1>5, <1>8, <1>9 DEF BrowserOk
<1>11. /\ c.readyState = b.readyState /\ c.connected = b.connected /\ c.visiting = b.visiting
       /\ c.requests = b.requests /\ c.soon = b.soon
  BY <1>4, <1>5
<1>12. \A q \in Path : \/ c.cache[q] = b.cache[q]
                       \/ /\ IsCached(c, q) => c.connected
                          /\ \/ c.cache[q].promise = NoPromise
                             \/ \E ver \in Nat : /\ c.cache[q].promise = Settled(ver, TRUE)
                                                 /\ ver <= vers[q]
  BY <1>6, <1>7, EntryTypes
<1>13. StateOk(c, off, sub, vers, unpub, events)
  BY <1>10, <1>11, <1>12, EntriesOk
<1> QED
  BY <1>11, <1>13 DEF c, e

\* All that is right about a path but the account of its registrations and the
\* listing's handler.
RestAt(b, sub, p) == RegisteredAt(b, sub, p) /\ EntryAt(b, p) /\ AwaitsAt(b, p)

\* The listing registers: a handler more, and what was right but the account.
LEMMA ListenIs ==
    ASSUME NEW b, NEW off, NEW sub, BrowserOk(b, off, sub), NEW p \in Path
    PROVE  LET c == Register(b, p, "listing")
               new == [path |-> p, id |-> RegisteredId(b, p)]
           IN  /\ c \in Browser /\ new \in Offs /\ new # NoOff
               /\ c.readyState = b.readyState /\ c.connected = b.connected
               /\ c.visiting = b.visiting /\ c.cache = b.cache /\ c.requests = b.requests
               /\ c.soon = b.soon /\ c.leaked = b.leaked /\ c.thrown = b.thrown
               /\ c.registrations[p] = b.registrations[p] + 1
               /\ \A q \in Path \ {p} : c.registrations[q] = b.registrations[q]
               /\ Has(c, p, new.id, "listing")
               /\ \A q \in Path : RestAt(c, sub, q) /\ ListingAt(c, off, q)
<1> DEFINE c == Register(b, p, "listing")
           new == [path |-> p, id |-> RegisteredId(b, p)]
<1>1. b \in Browser /\ \A q \in Path : PathOk(b, off, sub, q)
  BY DEF BrowserOk
<1>2. "listing" \in Owners /\ RegisteredAt(b, sub, p)
  BY <1>1 DEF Owners, PathOk
<1>3. /\ c \in Browser /\ OnlyRegistered(b, c, p) /\ RegisteredAt(c, sub, p)
      /\ c.registrations[p] = b.registrations[p] + 1
      /\ Has(c, p, FreeId(b, p), "listing")
      /\ \A id, o : Has(b, p, id, o) => Has(c, p, id, o)
  BY <1>1, <1>2, RegisterOk
<1>4. new \in Offs /\ new # NoOff /\ new.id = FreeId(b, p)
  <2>1. FreeId(b, p) \in Ids
    BY <1>1, FreeIdIsFree
  <2>2. new \in [path : Path, id : Nat] /\ new.path \in Path
    BY <2>1 DEF RegisteredId, Ids
  <2> QED
    BY <2>2, OffTypes DEF Offs, RegisteredId
<1> HIDE DEF c, new
<1>5. RestAt(c, sub, p) /\ ListingAt(c, off, p)
  <2>1. PathOk(b, off, sub, p)
    BY <1>1
  <2>2. c.cache = b.cache /\ c.requests = b.requests
    BY <1>3 DEF OnlyRegistered
  <2>3. ListingAt(c, off, p)
    BY <1>3, <2>1 DEF PathOk, ListingAt
  <2>4. EntryAt(c, p)
    BY <1>3, <2>1, <2>2 DEF PathOk, EntryAt, IsCached
  <2>5. AwaitsAt(c, p)
    BY <2>1, <2>2 DEF PathOk, AwaitsAt
  <2> QED
    BY <1>3, <2>3, <2>4, <2>5 DEF RestAt
<1>6. ASSUME NEW q \in Path, q # p
      PROVE  RestAt(c, sub, q) /\ ListingAt(c, off, q)
  <2>1. PathOk(c, off, sub, q)
    BY <1>1, <1>3, <1>6, SamePart DEF OnlyRegistered
  <2> QED
    BY <2>1 DEF PathOk, RestAt
<1> QED
  BY <1>3, <1>4, <1>5, <1>6 DEF OnlyRegistered, c, new

\* A listing that watches nothing registers.
LEMMA ListenOk ==
    ASSUME NEW b, NEW sub, NEW vers \in [Path -> Nat], NEW unpub, NEW events,
           StateOk(b, NoOff, sub, vers, unpub, events), NEW p \in Path
    PROVE  LET c == Register(b, p, "listing")
               new == [path |-> p, id |-> RegisteredId(b, p)]
           IN  /\ StateOk(c, new, sub, vers, unpub, events)
               /\ c.readyState = b.readyState /\ c.visiting = b.visiting
               /\ c.requests = b.requests /\ c.soon = b.soon
<1> DEFINE c == Register(b, p, "listing")
           new == [path |-> p, id |-> RegisteredId(b, p)]
<1>1. /\ BrowserOk(b, NoOff, sub) /\ b \in Browser /\ ~b.thrown
      /\ b.connected <=> b.readyState \in {"open", "closing"}
      /\ \A q \in Path : PathOk(b, NoOff, sub, q)
  BY DEF StateOk, BrowserOk
<1>2. new.path = p
  OBVIOUS
<1>3. /\ c \in Browser /\ new \in Offs /\ new # NoOff
      /\ c.readyState = b.readyState /\ c.connected = b.connected
      /\ c.visiting = b.visiting /\ c.cache = b.cache /\ c.requests = b.requests
      /\ c.soon = b.soon /\ c.leaked = b.leaked /\ c.thrown = b.thrown
      /\ c.registrations[p] = b.registrations[p] + 1
      /\ \A q \in Path \ {p} : c.registrations[q] = b.registrations[q]
      /\ Has(c, p, new.id, "listing")
      /\ \A q \in Path : RestAt(c, sub, q) /\ ListingAt(c, NoOff, q)
  BY <1>1, ListenIs
<1> HIDE DEF c, new
<1>4. ASSUME NEW q \in Path
      PROVE  PathOk(c, new, sub, q)
  <2>1. CountAt(c, new, q)
    <3>1. NoOff.path # q
      BY OffTypes
    <3>2. b.registrations[q] = b.leaked[q] + (IF IsCached(b, q) THEN 1 ELSE 0)
          /\ b.registrations[q] \in Nat /\ b.leaked[q] \in Nat
      BY <1>1, <3>1 DEF PathOk, CountAt, Browser
    <3>3. IsCached(c, q) <=> IsCached(b, q)
      BY <1>3 DEF IsCached
    <3> QED
      BY <1>2, <1>3, <3>2, <3>3 DEF CountAt
  <2>2. ListingAt(c, new, q)
    BY <1>2, <1>3 DEF ListingAt
  <2> QED
    BY <1>3, <2>1, <2>2 DEF PathOk, RestAt
<1>5. BrowserOk(c, new, sub)
  BY <1>1, <1>3, <1>4 DEF BrowserOk
<1>6. StateOk(c, new, sub, vers, unpub, events)
  BY <1>3, <1>5, EntriesOk
<1> QED
  BY <1>3, <1>6 DEF c, new

\* One of two registrations is lost: the earlier one, or the new one.
LEMMA ListenAndLose ==
    ASSUME NEW b, NEW off, NEW sub, NEW vers \in [Path -> Nat], NEW unpub, NEW events,
           StateOk(b, off, sub, vers, unpub, events), NEW p \in Path,
           NEW lost, NEW kept,
           \/ /\ lost = off /\ off # NoOff
              /\ kept = [path |-> p, id |-> RegisteredId(b, p)]
           \/ lost = [path |-> p, id |-> RegisteredId(b, p)] /\ kept = off
    PROVE  LET c == [Register(b, p, "listing") EXCEPT !.leaked[lost.path] = @ + 1]
           IN  /\ StateOk(c, kept, sub, vers, unpub, events)
               /\ c.readyState = b.readyState /\ c.visiting = b.visiting
               /\ c.requests = b.requests /\ c.soon = b.soon
<1> DEFINE u == Register(b, p, "listing")
           new == [path |-> p, id |-> RegisteredId(b, p)]
           l == lost.path
           c == [u EXCEPT !.leaked[l] = @ + 1]
<1>1. /\ BrowserOk(b, off, sub) /\ b \in Browser /\ ~b.thrown /\ off \in Offs
      /\ b.connected <=> b.readyState \in {"open", "closing"}
      /\ \A q \in Path : PathOk(b, off, sub, q)
  BY DEF StateOk, BrowserOk
<1>2. new.path = p /\ \/ lost = off /\ off # NoOff /\ kept = new
                      \/ lost = new /\ kept = off
  OBVIOUS
<1>3. /\ u \in Browser /\ new \in Offs /\ new # NoOff
      /\ u.readyState = b.readyState /\ u.connected = b.connected
      /\ u.visiting = b.visiting /\ u.cache = b.cache /\ u.requests = b.requests
      /\ u.soon = b.soon /\ u.leaked = b.leaked /\ u.thrown = b.thrown
      /\ u.registrations[p] = b.registrations[p] + 1
      /\ \A q \in Path \ {p} : u.registrations[q] = b.registrations[q]
      /\ Has(u, p, new.id, "listing")
      /\ \A q \in Path : RestAt(u, sub, q) /\ ListingAt(u, off, q)
  BY <1>1, ListenIs
<1> HIDE DEF u, new
<1>4. lost.path \in Path /\ kept \in Offs
  BY <1>1, <1>2, <1>3, OffTypes
<1>5. l = lost.path
  OBVIOUS
<1> HIDE DEF l
<1>6. /\ c \in Browser /\ c.leaked[l] = u.leaked[l] + 1
      /\ \A q \in Path \ {l} : c.leaked[q] = u.leaked[q]
      /\ c.readyState = u.readyState /\ c.connected = u.connected
      /\ c.registrations = u.registrations /\ c.handlers = u.handlers /\ c.up = u.up
      /\ c.visiting = u.visiting /\ c.cache = u.cache /\ c.requests = u.requests
      /\ c.soon = u.soon /\ c.thrown = u.thrown
  <2>1. l \in Path
    BY <1>4, <1>5
  <2> QED
    BY <1>3, <2>1, LeakIs
<1> HIDE DEF c
<1>7. ASSUME NEW q \in Path
      PROVE  PathOk(c, kept, sub, q)
  <2>1. CountAt(c, kept, q)
    <3>1. b.registrations[q] = b.leaked[q] + (IF IsCached(b, q) THEN 1 ELSE 0)
                                          + (IF off.path = q THEN 1 ELSE 0)
          /\ b.registrations[q] \in Nat /\ b.leaked[q] \in Nat
      BY <1>1 DEF PathOk, CountAt, Browser
    <3>2. IsCached(c, q) <=> IsCached(b, q)
      BY <1>3, <1>6 DEF IsCached
    <3>3. c.leaked[q] = b.leaked[q] + (IF lost.path = q THEN 1 ELSE 0)
      BY <1>3, <1>5, <1>6, <3>1
    <3>4. c.registrations[q] = b.registrations[q] + (IF new.path = q THEN 1 ELSE 0)
      BY <1>2, <1>3, <1>6, <3>1
    <3> QED
      BY <1>2, <3>1, <3>2, <3>3, <3>4 DEF CountAt
  <2>2. RestAt(c, sub, q) /\ ListingAt(c, off, q)
    BY <1>3, <1>6 DEF RestAt, RegisteredAt, HandlersAt, FramesAt, TurnsAt, EntryAt, ListingAt,
                      AwaitsAt, Has, IsCached
  <2>3. ListingAt(c, kept, q)
    <3>1. Has(c, p, new.id, "listing")
      BY <1>3, <1>6 DEF Has
    <3> QED
      BY <1>2, <2>2, <3>1 DEF ListingAt
  <2> QED
    BY <2>1, <2>2, <2>3 DEF PathOk, RestAt
<1>8. BrowserOk(c, kept, sub)
  BY <1>1, <1>3, <1>4, <1>6, <1>7 DEF BrowserOk
<1>9. /\ c.readyState = b.readyState /\ c.connected = b.connected /\ c.visiting = b.visiting
      /\ c.requests = b.requests /\ c.soon = b.soon /\ \A q \in Path : c.cache[q] = b.cache[q]
  BY <1>3, <1>6
<1>10. StateOk(c, kept, sub, vers, unpub, events)
  BY <1>8, <1>9, EntriesOk
<1> QED
  BY <1>9, <1>10 DEF c, u, l

\* ------------------------------------------------------------------ the socket
\* A path without an entry holds nothing old.
LEMMA NoEntryIsFresh ==
    ASSUME NEW b, NEW ver, NEW unpub, NEW events, NEW p, EntryAt(b, p),
           ~IsCached(b, p)
    PROVE  FreshAt(b, ver, unpub, events, p)
BY EntryTypes DEF EntryAt, FreshAt, OldAt

\* The connection is there: what was registered before is sent.
LEMMA OnOpenOk ==
    ASSUME NEW b, NEW off, NEW sub, NEW vers \in [Path -> Nat], NEW unpub, NEW events,
           StateOk(b, off, sub, vers, unpub, events), b.readyState = "connecting"
    PROVE  LET c == OnOpen(b)
           IN  /\ StateOk(c, off, sub, vers, unpub, events)
               /\ c.visiting = b.visiting /\ c.requests = b.requests /\ c.soon = b.soon
<1> DEFINE Frames == {"subscribe", "unsubscribe"}
           up == [p \in Path |-> IF b.registrations[p] > 0 THEN Append(b.up[p], "subscribe")
                                 ELSE b.up[p]]
           c == OnOpen(b)
<1>1. /\ b \in Browser /\ off \in Offs /\ ~b.thrown /\ ~b.connected
      /\ b.up \in [Path -> Seq(Frames)]
      /\ \A p \in Path : PathOk(b, off, sub, p) /\ ~IsCached(b, p)
  BY DEF StateOk, BrowserOk, Browser, Linked
<1>2. up \in [Path -> Seq(Frames)]
  <2>1. ASSUME NEW p \in Path
        PROVE  /\ Append(b.up[p], "subscribe") \in Seq(Frames)
               /\ b.up[p] \in Seq(Frames)
    BY <1>1
  <2> QED
    BY <2>1
<1>3. ASSUME NEW p \in Path
      PROVE  /\ b.up[p] = <<>> /\ p \notin sub
             /\ up[p] = IF b.registrations[p] > 0 THEN <<"subscribe">> ELSE <<>>
  <2>1. FramesAt(b, sub, p)
    BY <1>1 DEF PathOk, RegisteredAt
  <2>2. b.up[p] = <<>> /\ p \notin sub
    BY <2>1 DEF FramesAt
  <2>3. Append(b.up[p], "subscribe") = <<"subscribe">>
    BY <2>2
  <2> QED
    BY <2>2, <2>3
<1>4. c = [b EXCEPT !.readyState = "open", !.connected = TRUE, !.up = up]
  <2>1. [b EXCEPT !.readyState = "open", !.connected = TRUE].up = b.up
    BY <1>1 DEF Browser
  <2> QED
    BY <1>1, <2>1 DEF OnOpen, Browser
<1> HIDE DEF up, c
<1>5. /\ c \in Browser /\ c.readyState = "open" /\ c.connected = TRUE /\ c.up = up
      /\ c.registrations = b.registrations /\ c.handlers = b.handlers
      /\ c.visiting = b.visiting /\ c.cache = b.cache /\ c.requests = b.requests
      /\ c.soon = b.soon /\ c.thrown = b.thrown /\ c.leaked = b.leaked
  BY <1>1, <1>2, <1>4 DEF Browser
<1>6. ASSUME NEW p \in Path
      PROVE  PathOk(c, off, sub, p) /\ FreshAt(c, vers, unpub, events, p)
  <2>1. PathOk(b, off, sub, p)
    BY <1>1
  <2>2. FramesAt(c, sub, p)
    <3>1. CASE b.registrations[p] > 0
      <4>1. /\ c.up[p] = <<"subscribe">> /\ <<"subscribe">> # <<>>
            /\ Len(<<"subscribe">>) = 1 /\ <<"subscribe">>[1] = "subscribe"
        BY <1>3, <1>5, <3>1
      <4>2. c.up[p] # <<>> /\ c.up[p][Len(c.up[p])] = "subscribe"
        BY <4>1
      <4> QED
        BY <1>3, <1>5, <3>1, <4>2 DEF FramesAt
    <3>2. CASE ~(b.registrations[p] > 0)
      BY <1>3, <1>5, <3>2 DEF FramesAt
    <3> QED
      BY <3>1, <3>2
  <2>3. PathOk(c, off, sub, p)
    BY <1>5, <2>1, <2>2 DEF PathOk, RegisteredAt, HandlersAt, TurnsAt, CountAt, EntryAt,
                            ListingAt, AwaitsAt, Has, IsCached
  <2>4. ~IsCached(c, p)
    BY <1>1, <1>5 DEF IsCached
  <2> QED
    BY <2>3, <2>4, NoEntryIsFresh DEF PathOk
<1>7. BrowserOk(c, off, sub) /\ Linked(c)
  BY <1>1, <1>5, <1>6 DEF BrowserOk, Linked
<1>8. Known(c, vers)
  BY <1>5 DEF StateOk, Known, KnownAt
<1> QED
  BY <1>5, <1>6, <1>7, <1>8 DEF StateOk, c

\* The connection breaks: nothing is said of it yet.
LEMMA ClosingOk ==
    ASSUME NEW b, NEW off, NEW sub, NEW vers \in [Path -> Nat], NEW unpub, NEW events,
           StateOk(b, off, sub, vers, unpub, events), b.readyState = "open"
    PROVE  LET c == Closing(b)
           IN  /\ StateOk(c, off, sub, vers, unpub, events)
               /\ c.visiting = b.visiting /\ c.requests = b.requests /\ c.soon = b.soon
<1> DEFINE c == Closing(b)
<1>1. /\ b \in Browser /\ off \in Offs /\ ~b.thrown /\ b.connected
      /\ \A p \in Path : PathOk(b, off, sub, p)
  BY DEF StateOk, BrowserOk
<1>2. /\ c \in Browser /\ c.readyState = "closing" /\ c.connected = b.connected /\ c.up = b.up
      /\ c.registrations = b.registrations /\ c.handlers = b.handlers
      /\ c.visiting = b.visiting /\ c.cache = b.cache /\ c.requests = b.requests
      /\ c.soon = b.soon /\ c.thrown = b.thrown /\ c.leaked = b.leaked
  BY <1>1 DEF Browser, Closing
<1> HIDE DEF c
<1>3. ASSUME NEW p \in Path
      PROVE  PathOk(c, off, sub, p) /\ FreshAt(c, vers, unpub, events, p)
  <2>1. PathOk(b, off, sub, p)
    BY <1>1
  <2>2. FramesAt(c, sub, p)
    <3>1. c.readyState # "open" /\ c.readyState # "connecting" /\ c.readyState # "closed"
      BY <1>2
    <3> QED
      BY <3>1, Zenon DEF FramesAt
  <2>3. PathOk(c, off, sub, p)
    BY <1>2, <2>1, <2>2 DEF PathOk, RegisteredAt, HandlersAt, TurnsAt, CountAt, EntryAt,
                            ListingAt, AwaitsAt, Has, IsCached
  <2> QED
    BY <1>2, <2>3 DEF FreshAt
<1>4. BrowserOk(c, off, sub) /\ Linked(c)
  BY <1>1, <1>2, <1>3 DEF StateOk, BrowserOk, Linked, IsCached
<1>5. Known(c, vers)
  BY <1>2 DEF StateOk, Known, KnownAt
<1> QED
  BY <1>2, <1>3, <1>4, <1>5 DEF StateOk, c

\* The close event: the server has no subscriptions, the browser no entries.
LEMMA OnCloseOk ==
    ASSUME NEW b, NEW off, NEW sub, NEW vers \in [Path -> Nat], NEW unpub, NEW events,
           StateOk(b, off, sub, vers, unpub, events), NEW events2
    PROVE  LET c == InvalidateAll(OnClose(b))
           IN  /\ StateOk(c, off, {}, vers, unpub, events2)
               /\ c.readyState = "closed" /\ c.visiting = b.visiting
               /\ c.requests = b.requests /\ c.soon = b.soon
               /\ \A p \in Path : ~IsCached(b, p) => c.handlers[p] = b.handlers[p]
<1> DEFINE up == [p \in Path |-> <<>>]
           o == OnClose(b)
           c == InvalidateAll(o)
<1>1. /\ b \in Browser /\ off \in Offs /\ ~b.thrown
      /\ \A p \in Path : PathOk(b, off, sub, p)
  BY DEF StateOk, BrowserOk
<1>2. o = [b EXCEPT !.readyState = "closed", !.connected = FALSE, !.up = up]
  BY DEF OnClose
<1>3. up \in [Path -> Seq({"subscribe", "unsubscribe"})] /\ \A p \in Path : up[p] = <<>>
  OBVIOUS
<1> HIDE DEF up, o
<1>4. /\ o \in Browser /\ o.readyState = "closed" /\ o.connected = FALSE /\ o.up = up
      /\ o.registrations = b.registrations /\ o.handlers = b.handlers
      /\ o.visiting = b.visiting /\ o.cache = b.cache /\ o.requests = b.requests
      /\ o.soon = b.soon /\ o.thrown = b.thrown /\ o.leaked = b.leaked
  BY <1>1, <1>2, <1>3 DEF Browser
<1>5. ASSUME NEW p \in Path
      PROVE  PathOk(o, off, {}, p)
  <2>1. PathOk(b, off, sub, p)
    BY <1>1
  <2>2. FramesAt(o, {}, p)
    BY <1>3, <1>4 DEF FramesAt
  <2> QED
    BY <1>4, <2>1, <2>2 DEF PathOk, RegisteredAt, HandlersAt, TurnsAt, CountAt, EntryAt,
                            ListingAt, AwaitsAt, Has, IsCached
<1>6. BrowserOk(o, off, {})
  BY <1>1, <1>4, <1>5 DEF BrowserOk
<1>7. /\ BrowserOk(c, off, {})
      /\ c.readyState = o.readyState /\ c.connected = o.connected
      /\ c.visiting = o.visiting /\ c.requests = o.requests
      /\ c.soon = o.soon /\ c.leaked = o.leaked
      /\ \A p \in Path : c.cache[p] = NoEntry
      /\ \A p \in Path : ~IsCached(o, p) => c.handlers[p] = o.handlers[p]
  BY <1>6, InvalidateAllOk
<1> HIDE DEF c
<1>8. Linked(c) /\ \A p \in Path : FreshAt(c, vers, unpub, events2, p) /\ KnownAt(c, vers, p)
  BY <1>4, <1>7, EntryTypes DEF Linked, IsCached, FreshAt, KnownAt
<1>9. Known(c, vers)
  BY <1>4, <1>7, <1>8 DEF StateOk, Known
<1>10. \A p \in Path : ~IsCached(b, p) => c.handlers[p] = b.handlers[p]
  BY <1>4, <1>7 DEF IsCached
<1> QED
  BY <1>4, <1>7, <1>8, <1>9, <1>10 DEF StateOk, c, o

\* The server handles a frame: the others that follow it, or else its subscriptions, say
\* the same.
LEMMA SubscribedOk ==
    ASSUME NEW b, NEW off, NEW sub, NEW vers \in [Path -> Nat], NEW unpub, NEW events,
           StateOk(b, off, sub, vers, unpub, events), NEW p \in Path, b.up[p] # <<>>
    PROVE  LET c == [b EXCEPT !.up[p] = Tail(@)]
               sub2 == IF Head(b.up[p]) = "subscribe" THEN sub \cup {p} ELSE sub \ {p}
           IN  /\ StateOk(c, off, sub2, vers, unpub, events)
               /\ c.readyState = b.readyState /\ c.visiting = b.visiting
               /\ c.requests = b.requests /\ c.soon = b.soon /\ c.handlers = b.handlers
<1> DEFINE Frames == {"subscribe", "unsubscribe"}
           frames == b.up[p]
           rest == Tail(frames)
           n == Len(frames)
           up == [b.up EXCEPT ![p] = rest]
           c == [b EXCEPT !.up[p] = Tail(@)]
           sub2 == IF Head(b.up[p]) = "subscribe" THEN sub \cup {p} ELSE sub \ {p}
<1>1. /\ b \in Browser /\ off \in Offs /\ ~b.thrown
      /\ b.connected <=> b.readyState \in {"open", "closing"}
      /\ b.up \in [Path -> Seq(Frames)] /\ frames \in Seq(Frames) /\ frames # <<>>
      /\ \A q \in Path : PathOk(b, off, sub, q)
  BY DEF StateOk, BrowserOk, Browser
<1>2. c = [b EXCEPT !.up = up]
  OBVIOUS
<1>3. frames = b.up[p]
  OBVIOUS
<1> HIDE DEF Frames, frames, c
<1>4. /\ rest \in Seq(Frames) /\ Len(rest) = n - 1 /\ n \in Nat /\ n >= 1
      /\ \A k \in 1..(n - 1) : rest[k] = frames[k + 1]
      /\ Head(frames) = frames[1]
  BY <1>1, HeadTailProperties, LenProperties, EmptySeq
<1>5. rest = <<>> <=> n = 1
  <2>1. rest # <<>> => Len(rest) \in Nat \ {0}
    BY <1>4, EmptySeq
  <2> HIDE DEF rest
  <2>2. rest = <<>> => Len(rest) = 0
    BY EmptySeq
  <2> QED
    BY <1>4, <2>1, <2>2
<1> HIDE DEF rest, n
<1>6. up \in [Path -> Seq(Frames)] /\ up[p] = rest /\ \A q \in Path \ {p} : up[q] = b.up[q]
  BY <1>1, <1>4
<1> HIDE DEF up
<1>7. /\ c \in Browser /\ c.readyState = b.readyState /\ c.connected = b.connected /\ c.up = up
      /\ c.registrations = b.registrations /\ c.handlers = b.handlers
      /\ c.visiting = b.visiting /\ c.cache = b.cache /\ c.requests = b.requests
      /\ c.soon = b.soon /\ c.thrown = b.thrown /\ c.leaked = b.leaked
  BY <1>1, <1>2, <1>6 DEF Browser, Frames
<1>8. p \in sub2 <=> frames[1] = "subscribe"
  BY <1>3, <1>4
<1>9. \A q \in Path \ {p} : q \in sub2 <=> q \in sub
  OBVIOUS
<1> HIDE DEF sub2
<1>10. ASSUME NEW q \in Path
       PROVE  PathOk(c, off, sub2, q)
  <2>1. PathOk(b, off, sub, q)
    BY <1>1
  <2>2. FramesAt(b, sub, q)
    BY <2>1 DEF PathOk, RegisteredAt
  <2>3. FramesAt(c, sub2, q)
    <3>1. CASE q # p
      BY <1>6, <1>7, <1>9, <2>2, <3>1 DEF FramesAt
    <3>2. CASE q = p
      <4>1. b.readyState \in {"open", "closing"}
        BY <1>1, <1>3, <2>2, <3>2 DEF FramesAt, Browser
      <4>2. b.readyState = "open" => (frames[n] = "subscribe" <=> b.registrations[p] > 0)
        BY <1>1, <1>3, <2>2, <3>2 DEF FramesAt, n
      <4>3. CASE n = 1
        BY <1>5, <1>6, <1>7, <1>8, <3>2, <4>1, <4>2, <4>3 DEF FramesAt
      <4>4. CASE n # 1
        <5>1. n - 1 \in 1..(n - 1) /\ (n - 1) + 1 = n
          BY <1>4, <4>4
        <5>2. rest # <<>> /\ rest[Len(rest)] = frames[n]
          BY <1>4, <1>5, <4>4, <5>1
        <5> QED
          BY <1>6, <1>7, <3>2, <4>1, <4>2, <5>2 DEF FramesAt
      <4> QED
        BY <4>3, <4>4
    <3> QED
      BY <3>1, <3>2
  <2> QED
    BY <1>7, <2>1, <2>3 DEF PathOk, RegisteredAt, HandlersAt, TurnsAt, CountAt, EntryAt,
                            ListingAt, AwaitsAt, Has, IsCached
<1>11. BrowserOk(c, off, sub2)
  BY <1>1, <1>7, <1>10 DEF BrowserOk
<1>12. StateOk(c, off, sub2, vers, unpub, events)
  BY <1>7, <1>11, EntriesOk
<1> QED
  BY <1>7, <1>12 DEF c, sub2

\* ------------------------------------------------------------------- an event
\* There is a turn to come of the handler with this id.
Turns(b, p, id) ==
    \E k \in DOMAIN b.visiting : b.visiting[k].path = p /\ b.visiting[k].id = id

\* What announces that an entry is old.
LEMMA AnnouncedIs ==
    ASSUME NEW b, NEW unpub, NEW events, NEW p
    PROVE  AnnouncedAt(b, unpub, events, p) <=>
             \/ p \in unpub \/ events[p] > 0 \/ b.cache[p].unheard
             \/ Turns(b, p, b.cache[p].off)
BY DEF AnnouncedAt, Turns

\* An event is there: every handler of its path will be visited, the entry's too.
LEMMA TriggerOk ==
    ASSUME NEW b, NEW off, NEW sub, NEW vers \in [Path -> Nat], NEW unpub,
           NEW events \in [Path -> Nat],
           StateOk(b, off, sub, vers, unpub, events), b.visiting = <<>>, NEW p \in Path
    PROVE  LET c == Trigger(b, p)
           IN  /\ StateOk(c, off, sub, vers, unpub, [events EXCEPT ![p] = @ - 1])
               /\ c.readyState = b.readyState /\ c.handlers = b.handlers
               /\ c.requests = b.requests /\ c.soon = b.soon
               /\ b.handlers[p] = <<>> => c.visiting = <<>>
               /\ \A id, o : Has(b, p, id, o) => Turns(c, p, id)
<1> DEFINE h == b.handlers[p]
           turns == [k \in DOMAIN h |-> [path |-> p, id |-> h[k].id, owner |-> h[k].owner]]
           c == Trigger(b, p)
           events2 == [events EXCEPT ![p] = @ - 1]
<1>1. /\ b \in Browser /\ off \in Offs /\ ~b.thrown
      /\ b.connected <=> b.readyState \in {"open", "closing"}
      /\ h \in Seq(Handler)
      /\ \A q \in Path : PathOk(b, off, sub, q)
  BY DEF StateOk, BrowserOk, Browser
<1>2. c = [b EXCEPT !.visiting = turns]
  BY DEF Trigger
<1>3. h = b.handlers[p]
  OBVIOUS
<1> HIDE DEF h, c
<1>4. Len(h) \in Nat /\ DOMAIN h = 1..Len(h) /\ \A k \in DOMAIN h : h[k] \in Handler
  BY <1>1, LenProperties, ElementOfSeq
<1>5. /\ turns \in Seq(Turn) /\ DOMAIN turns = DOMAIN h
      /\ \A k \in DOMAIN h : /\ turns[k].path = p /\ turns[k].id = h[k].id
                             /\ turns[k].owner = h[k].owner
  <2>1. \A k \in 1..Len(h) : [path |-> p, id |-> h[k].id, owner |-> h[k].owner] \in Turn
    BY <1>4 DEF Handler, Turn
  <2>2. turns = [k \in 1..Len(h) |-> [path |-> p, id |-> h[k].id, owner |-> h[k].owner]]
    BY <1>4
  <2>3. turns \in Seq(Turn)
    BY <1>4, <2>1, <2>2
  <2> QED
    BY <1>4, <2>3
<1> HIDE DEF turns
<1>6. /\ c \in Browser /\ c.readyState = b.readyState /\ c.connected = b.connected
      /\ c.up = b.up /\ c.registrations = b.registrations /\ c.handlers = b.handlers
      /\ c.visiting = turns /\ c.cache = b.cache /\ c.requests = b.requests
      /\ c.soon = b.soon /\ c.thrown = b.thrown /\ c.leaked = b.leaked
  BY <1>1, <1>2, <1>5 DEF Browser
<1>7. ASSUME NEW q \in Path
      PROVE  PathOk(c, off, sub, q)
  <2>1. PathOk(b, off, sub, q)
    BY <1>1
  <2>2. TurnsAt(c, q)
    <3>1. CASE q = p
      <4>1. \A j, k \in DOMAIN h : h[j].id = h[k].id => j = k
        BY <1>3, <2>1, <3>1 DEF PathOk, RegisteredAt, HandlersAt
      <4> QED
        BY <1>3, <1>5, <1>6, <3>1, <4>1 DEF TurnsAt
    <3>2. CASE q # p
      BY <1>5, <1>6, <3>2 DEF TurnsAt
    <3> QED
      BY <3>1, <3>2
  <2> QED
    BY <1>6, <2>1, <2>2 DEF PathOk, RegisteredAt, HandlersAt, FramesAt, CountAt, EntryAt,
                            ListingAt, AwaitsAt, Has, IsCached
<1>8. BrowserOk(c, off, sub) /\ Linked(c) /\ Known(c, vers)
  BY <1>1, <1>6, <1>7 DEF StateOk, BrowserOk, Linked, IsCached, Known, KnownAt
<1>9. ASSUME NEW id, NEW o, Has(b, p, id, o)
      PROVE  Turns(c, p, id)
  <2>1. PICK k \in DOMAIN h : h[k] = [id |-> id, owner |-> o]
    BY <1>3, <1>9 DEF Has
  <2>2. k \in DOMAIN c.visiting /\ c.visiting[k].path = p /\ c.visiting[k].id = id
    BY <1>5, <1>6, <2>1
  <2> QED
    BY <2>2 DEF Turns
<1>10. ASSUME NEW q \in Path
       PROVE  FreshAt(c, vers, unpub, events2, q)
  <2>1. FreshAt(b, vers, unpub, events, q) /\ EntryAt(b, q)
    BY <1>1 DEF StateOk, PathOk
  <2>2. OldAt(c, vers, q) => OldAt(b, vers, q)
    BY <1>6 DEF OldAt
  <2>3. CASE q # p
    <3>1. events2[q] = events[q]
      BY <2>3
    <3>2. AnnouncedAt(b, unpub, events, q) => AnnouncedAt(c, unpub, events2, q)
      BY <1>6, <3>1 DEF AnnouncedAt
    <3> QED
      BY <1>6, <2>1, <2>2, <3>2 DEF FreshAt
  <2>4. CASE q = p /\ IsCached(b, p)
    <3>1. Turns(c, p, c.cache[p].off)
      BY <1>6, <1>9, <2>1, <2>4 DEF EntryAt
    <3> QED
      BY <2>4, <3>1 DEF FreshAt, AnnouncedAt, Turns
  <2>5. CASE q = p /\ ~IsCached(b, p)
    <3>1. EntryAt(c, q) /\ ~IsCached(c, q)
      BY <1>6, <2>1, <2>5 DEF EntryAt, IsCached
    <3> QED
      BY <3>1, NoEntryIsFresh
  <2> QED
    BY <2>3, <2>4, <2>5
<1>11. h = <<>> => c.visiting = <<>>
  <2>1. h = <<>> => DOMAIN turns = {}
    BY <1>5
  <2>2. DOMAIN turns = {} => turns = <<>>
    BY <1>5
  <2> QED
    BY <1>6, <2>1, <2>2
<1> QED
  BY <1>3, <1>6, <1>8, <1>9, <1>10, <1>11 DEF StateOk, c

\* A turn of the loop: the others are to come.
LEMMA VisitedIs ==
    ASSUME NEW b, NEW off, NEW sub, BrowserOk(b, off, sub), b.visiting # <<>>
    PROVE  LET c == Visited(b)
               h == Head(b.visiting)
           IN  /\ BrowserOk(c, off, sub) /\ h \in Turn
               /\ c.readyState = b.readyState /\ c.connected = b.connected
               /\ c.registrations = b.registrations /\ c.handlers = b.handlers /\ c.up = b.up
               /\ c.cache = b.cache /\ c.requests = b.requests
               /\ c.soon = b.soon /\ c.thrown = b.thrown /\ c.leaked = b.leaked
               /\ 1 \in DOMAIN b.visiting /\ b.visiting[1] = h
               /\ \A p, id : Turns(b, p, id) => \/ h.path = p /\ h.id = id
                                                \/ Turns(c, p, id)
<1> DEFINE v == b.visiting
           h == Head(v)
           rest == Tail(v)
           n == Len(v)
           c == Visited(b)
<1>1. /\ b \in Browser /\ v \in Seq(Turn) /\ v # <<>>
      /\ \A q \in Path : PathOk(b, off, sub, q)
  BY DEF BrowserOk, Browser
<1>2. c = [b EXCEPT !.visiting = rest]
  BY DEF Visited
<1>3. v = b.visiting
  OBVIOUS
<1> HIDE DEF v, c
<1>4. /\ rest \in Seq(Turn) /\ Len(rest) = n - 1 /\ n \in Nat /\ n >= 1
      /\ \A k \in 1..(n - 1) : rest[k] = v[k + 1]
      /\ h = v[1] /\ h \in Turn
      /\ DOMAIN v = 1..n
  BY <1>1, HeadTailProperties, LenProperties, EmptySeq, ElementOfSeq
<1> HIDE DEF rest, n, h
<1>5. DOMAIN rest = 1..(n - 1)
  BY <1>4, LenProperties
<1>6. /\ c \in Browser /\ c.readyState = b.readyState /\ c.connected = b.connected
      /\ c.up = b.up /\ c.registrations = b.registrations /\ c.handlers = b.handlers
      /\ c.visiting = rest /\ c.cache = b.cache /\ c.requests = b.requests
      /\ c.soon = b.soon /\ c.thrown = b.thrown /\ c.leaked = b.leaked
  BY <1>1, <1>2, <1>4 DEF Browser
<1>7. \A k \in DOMAIN rest : k + 1 \in DOMAIN v /\ rest[k] = v[k + 1]
  BY <1>4, <1>5
<1>8. ASSUME NEW q \in Path
      PROVE  PathOk(c, off, sub, q)
  <2>1. PathOk(b, off, sub, q)
    BY <1>1
  <2>2. TurnsAt(c, q)
    <3>1. TurnsAt(b, q)
      BY <2>1 DEF PathOk, RegisteredAt
    <3> QED
      BY <1>3, <1>6, <1>7, <3>1 DEF TurnsAt
  <2> QED
    BY <1>6, <2>1, <2>2 DEF PathOk, RegisteredAt, HandlersAt, FramesAt, CountAt, EntryAt,
                            ListingAt, AwaitsAt, Has, IsCached
<1>9. BrowserOk(c, off, sub)
  BY <1>6, <1>8 DEF BrowserOk
<1>10. ASSUME NEW p, NEW id, Turns(b, p, id)
       PROVE  (h.path = p /\ h.id = id) \/ Turns(c, p, id)
  <2>1. PICK k \in DOMAIN v : v[k].path = p /\ v[k].id = id
    BY <1>3, <1>10 DEF Turns
  <2>2. CASE k = 1
    BY <1>4, <2>1, <2>2
  <2>3. CASE k # 1
    <3>1. k - 1 \in DOMAIN rest /\ k - 1 \in 1..(n - 1) /\ (k - 1) + 1 = k
      BY <1>4, <1>5, <2>3
    <3>2. rest[k - 1] = v[k]
      BY <1>4, <3>1
    <3> QED
      BY <1>6, <2>1, <3>1, <3>2 DEF Turns
  <2> QED
    BY <2>2, <2>3
<1>11. 1 \in DOMAIN v
  BY <1>4
<1> QED
  BY <1>3, <1>4, <1>6, <1>9, <1>10, <1>11 DEF c, h

\* The handler of a turn is the one it was when the event came.
LEMMA TurnsOwner ==
    ASSUME NEW b, NEW p, TurnsAt(b, p), NEW k \in DOMAIN b.visiting, b.visiting[k].path = p,
           NEW owner, Has(b, p, b.visiting[k].id, owner)
    PROVE  b.visiting[k].owner = owner
<1>1. PICK j \in DOMAIN b.handlers[p] :
        b.handlers[p][j] = [id |-> b.visiting[k].id, owner |-> owner]
  BY DEF Has
<1>2. b.handlers[p][j].id = b.visiting[k].id /\ b.handlers[p][j].owner = owner
  BY <1>1
<1> QED
  BY <1>2 DEF TurnsAt

\* After a turn that is not, or no more, an entry's, what is announced still is.
LEMMA VisitedOk ==
    ASSUME NEW b, NEW off, NEW sub, NEW vers \in [Path -> Nat], NEW unpub, NEW events,
           StateOk(b, off, sub, vers, unpub, events), b.visiting # <<>>,
           LET h == Head(b.visiting) IN ~(Handles(b, h.path, h.id) /\ h.owner = "cache")
    PROVE  StateOk(Visited(b), off, sub, vers, unpub, events)
<1> DEFINE c == Visited(b)
           h == Head(b.visiting)
<1>1. /\ BrowserOk(b, off, sub) /\ \A q \in Path : PathOk(b, off, sub, q)
  BY DEF StateOk, BrowserOk
<1>2. ~(Handles(b, h.path, h.id) /\ h.owner = "cache")
  OBVIOUS
<1>3. /\ BrowserOk(c, off, sub) /\ h \in Turn
      /\ c.readyState = b.readyState /\ c.connected = b.connected
      /\ c.cache = b.cache /\ c.requests = b.requests
      /\ c.soon = b.soon
      /\ 1 \in DOMAIN b.visiting /\ b.visiting[1] = h
      /\ \A p, id : Turns(b, p, id) => \/ h.path = p /\ h.id = id
                                       \/ Turns(c, p, id)
  BY <1>1, VisitedIs
<1> HIDE DEF c, h
<1>4. Linked(c) /\ Known(c, vers)
  BY <1>3 DEF StateOk, Linked, IsCached, Known, KnownAt
<1>5. ASSUME NEW p \in Path
      PROVE  FreshAt(c, vers, unpub, events, p)
  <2>1. FreshAt(b, vers, unpub, events, p) /\ EntryAt(b, p) /\ TurnsAt(b, p)
    BY <1>1 DEF StateOk, PathOk, RegisteredAt
  <2>2. CASE ~IsCached(b, p)
    <3>1. EntryAt(c, p) /\ ~IsCached(c, p)
      BY <1>3, <2>2 DEF IsCached, BrowserOk, PathOk
    <3> QED
      BY <3>1, NoEntryIsFresh
  <2>3. CASE IsCached(b, p)
    <3>1. Has(b, p, b.cache[p].off, "cache")
      BY <2>1, <2>3 DEF EntryAt
    <3>2. ~(h.path = p /\ h.id = b.cache[p].off)
      <4> SUFFICES ASSUME h.path = p, h.id = b.cache[p].off
                   PROVE  FALSE
        OBVIOUS
      <4>1. h.owner = "cache"
        BY <1>3, <2>1, <3>1, TurnsOwner
      <4>2. Handles(b, h.path, h.id)
        BY <3>1 DEF Has, Handles
      <4> QED
        BY <1>2, <4>1, <4>2
    <3>3. Turns(b, p, b.cache[p].off) => Turns(c, p, c.cache[p].off)
      BY <1>3, <3>2
    <3>4. OldAt(c, vers, p) => OldAt(b, vers, p)
      BY <1>3 DEF OldAt
    <3>5. AnnouncedAt(b, unpub, events, p) => AnnouncedAt(c, unpub, events, p)
      BY <1>3, <3>3 DEF AnnouncedAt, Turns
    <3> QED
      BY <1>3, <2>1, <3>4, <3>5 DEF FreshAt
  <2> QED
    BY <2>2, <2>3
<1> QED
  BY <1>3, <1>4, <1>5 DEF StateOk, c

\* After the entry's turn there is no entry.
LEMMA DroppedOk ==
    ASSUME NEW b, NEW off, NEW sub, NEW vers \in [Path -> Nat], NEW unpub, NEW events,
           StateOk(b, off, sub, vers, unpub, events), b.visiting # <<>>,
           NEW p \in Path, Head(b.visiting).path = p
    PROVE  LET c == Invalidate(Visited(b), p)
           IN  /\ StateOk(c, off, sub, vers, unpub, events)
               /\ c.readyState = b.readyState /\ c.requests = b.requests /\ c.soon = b.soon
               /\ \A q, id : Turns(b, q, id) => \/ q = p /\ Head(b.visiting).id = id
                                                \/ Turns(c, q, id)
<1> DEFINE v == Visited(b)
           h == Head(b.visiting)
           c == Invalidate(v, p)
<1>1. BrowserOk(b, off, sub) /\ h.path = p
  BY DEF StateOk
<1>2. /\ BrowserOk(v, off, sub) /\ h \in Turn
      /\ v.readyState = b.readyState /\ v.connected = b.connected
      /\ v.cache = b.cache /\ v.requests = b.requests
      /\ v.soon = b.soon
      /\ \A q, id : Turns(b, q, id) => \/ h.path = q /\ h.id = id
                                       \/ Turns(v, q, id)
  BY <1>1, VisitedIs
<1> HIDE DEF v
<1>3. /\ BrowserOk(c, off, sub) /\ OnlyAt(v, c, p) /\ c.cache[p] = NoEntry
  BY <1>2, InvalidateOk
<1> HIDE DEF c, h
<1>4. \A q \in Path \ {p} : c.cache[q] = b.cache[q]
  BY <1>2, <1>3 DEF OnlyAt
<1>5. /\ c.readyState = b.readyState /\ c.connected = b.connected /\ c.requests = b.requests
      /\ c.soon = b.soon /\ c.visiting = v.visiting
  BY <1>2, <1>3 DEF OnlyAt
<1>6. Linked(c)
  BY <1>3, <1>4, <1>5, EntryTypes DEF StateOk, Linked, IsCached
<1>7. \A q, id : Turns(b, q, id) => \/ q = p /\ h.id = id
                                    \/ Turns(c, q, id)
  <2>1. \A q, id : Turns(v, q, id) => Turns(c, q, id)
    BY <1>5 DEF Turns
  <2> QED
    BY <1>1, <1>2, <2>1
<1>8. ASSUME NEW q \in Path
      PROVE  KnownAt(c, vers, q) /\ FreshAt(c, vers, unpub, events, q)
  <2>1. KnownAt(b, vers, q) /\ FreshAt(b, vers, unpub, events, q)
    BY DEF StateOk, Known
  <2>2. CASE q = p
    BY <1>3, <2>2, EntryTypes DEF KnownAt, FreshAt, OldAt
  <2>3. CASE q # p
    <3>1. c.cache[q] = b.cache[q]
      BY <1>4, <2>3
    <3>2. AnnouncedAt(b, unpub, events, q) => AnnouncedAt(c, unpub, events, q)
      BY <1>7, <2>3, <3>1, AnnouncedIs
    <3> QED
      BY <1>5, <2>1, <3>1, <3>2 DEF KnownAt, FreshAt, OldAt
  <2> QED
    BY <2>2, <2>3
<1>9. Known(c, vers)
  BY <1>5, <1>8 DEF StateOk, Known
<1> QED
  BY <1>3, <1>5, <1>6, <1>7, <1>8, <1>9 DEF StateOk, c, h, v

\* ----------------------------------------------------------- changes and calls
\* A change of some resources that are to be published.
LEMMA CommitOk ==
    ASSUME NEW b, NEW off, NEW sub, NEW vers \in [Path -> Nat], NEW unpub, NEW events,
           StateOk(b, off, sub, vers, unpub, events),
           NEW vers2 \in [Path -> Nat], NEW unpub2,
           \A p \in Path : vers[p] <= vers2[p],
           \A p \in Path : p \in unpub2 \/ (p \notin unpub /\ vers2[p] = vers[p])
    PROVE  StateOk(b, off, sub, vers2, unpub2, events)
<1>1. /\ b \in Browser /\ BrowserOk(b, off, sub) /\ b.cache \in [Path -> Entry]
      /\ b.requests \in [RequestIds -> Request] /\ b.soon \in Seq(Callback)
  BY DEF StateOk, BrowserOk, Browser
<1>2. ASSUME NEW p \in Path
      PROVE  KnownAt(b, vers2, p) /\ FreshAt(b, vers2, unpub2, events, p)
  <2>1. KnownAt(b, vers, p) /\ FreshAt(b, vers, unpub, events, p)
    BY DEF StateOk, Known
  <2>2. vers[p] \in Nat /\ vers2[p] \in Nat /\ vers[p] <= vers2[p]
    OBVIOUS
  <2>3. KnownAt(b, vers2, p)
    <3>1. b.cache[p].promise.state = "ok" => b.cache[p].promise.ver \in Nat
      BY <1>1, PromiseTypes DEF Entry
    <3> QED
      BY <2>1, <2>2, <3>1 DEF KnownAt
  <2>4. CASE p \in unpub2
    BY <2>3, <2>4 DEF FreshAt, AnnouncedAt
  <2>5. CASE p \notin unpub /\ vers2[p] = vers[p]
    BY <2>1, <2>3, <2>5 DEF FreshAt, OldAt, AnnouncedAt
  <2> QED
    BY <2>4, <2>5
<1>3. ASSUME NEW i \in RequestIds, b.requests[i].state = "read",
             NEW q \in {b.requests[i].path} \cup Children(b.requests[i].path)
      PROVE  q \in DOMAIN b.requests[i].ver /\ b.requests[i].ver[q] <= vers2[q]
  <2> DEFINE r == b.requests[i]
  <2>1. q \in DOMAIN r.ver /\ r.ver[q] <= vers[q]
    BY <1>3 DEF StateOk, Known
  <2>2. /\ r \in Request /\ r.state = "read"
    BY <1>1, <1>3
  <2> HIDE DEF r
  <2>3. r.path \in Path /\ r.ver \in UNION {[S -> Nat] : S \in SUBSET Path}
    BY <2>2 DEF Request, NoRequest
  <2>4. r.ver[q] \in Nat /\ q \in Path
    BY <2>1, <2>3
  <2>5. vers[q] \in Nat /\ vers2[q] \in Nat /\ vers[q] <= vers2[q]
    BY <2>4
  <2>6. r.ver[q] <= vers2[q]
    BY <2>1, <2>4, <2>5
  <2> QED
    BY <2>1, <2>6 DEF r
<1>4. ASSUME NEW k \in DOMAIN b.soon
      PROVE  b.soon[k].ver <= vers2[b.soon[k].path]
  <2>1. b.soon[k].ver <= vers[b.soon[k].path]
    BY DEF StateOk, Known
  <2>2. b.soon[k] \in Callback
    BY <1>1, LenProperties, ElementOfSeq
  <2>3. b.soon[k].ver \in Nat /\ b.soon[k].path \in Path
    BY <2>2 DEF Callback
  <2> QED
    BY <2>1, <2>3
<1>5. Known(b, vers2)
  BY <1>2, <1>3, <1>4 DEF Known
<1> QED
  BY <1>2, <1>5 DEF StateOk

\* Nobody tells this browser of a change: its entry is marked.
LEMMA UnheardOk ==
    ASSUME NEW b, NEW off, NEW sub, NEW vers \in [Path -> Nat], NEW unpub, NEW events,
           StateOk(b, off, sub, vers, unpub, events), NEW p \in Path
    PROVE  LET c == IF IsCached(b, p) THEN [b EXCEPT !.cache[p].unheard = TRUE] ELSE b
           IN  /\ StateOk(c, off, sub, vers, unpub \ {p}, events)
               /\ c.readyState = b.readyState /\ c.visiting = b.visiting
               /\ c.requests = b.requests /\ c.soon = b.soon /\ c.handlers = b.handlers
<1> DEFINE c == IF IsCached(b, p) THEN [b EXCEPT !.cache[p].unheard = TRUE] ELSE b
<1>1. /\ b \in Browser /\ off \in Offs /\ ~b.thrown
      /\ b.connected <=> b.readyState \in {"open", "closing"}
      /\ b.cache \in [Path -> Entry] /\ b.cache[p] \in Entry
      /\ \A q \in Path : PathOk(b, off, sub, q)
  BY DEF StateOk, BrowserOk, Browser
<1>2. CASE ~IsCached(b, p)
  <2>1. c = b
    BY <1>2
  <2>2. ASSUME NEW q \in Path
        PROVE  FreshAt(b, vers, unpub \ {p}, events, q)
    <3>1. FreshAt(b, vers, unpub, events, q) /\ EntryAt(b, q)
      BY <1>1 DEF StateOk, PathOk
    <3>2. CASE q = p
      BY <1>2, <3>1, <3>2, NoEntryIsFresh
    <3>3. CASE q # p
      BY <3>1, <3>3 DEF FreshAt, AnnouncedAt
    <3> QED
      BY <3>2, <3>3
  <2> QED
    BY <2>1, <2>2 DEF StateOk
<1>3. CASE IsCached(b, p)
  <2> DEFINE entry == [b.cache[p] EXCEPT !.unheard = TRUE]
  <2>1. c = [b EXCEPT !.cache = [b.cache EXCEPT ![p] = entry]]
    BY <1>3
  <2>2. /\ entry \in Entry /\ entry.promise = b.cache[p].promise
        /\ entry.off = b.cache[p].off /\ entry.unheard = TRUE
    BY <1>1 DEF Entry
  <2> HIDE DEF entry, c
  <2>3. [b.cache EXCEPT ![p] = entry] \in [Path -> Entry]
    BY <1>1, <2>2
  <2>4. /\ c \in Browser /\ c.readyState = b.readyState /\ c.connected = b.connected
        /\ c.up = b.up /\ c.registrations = b.registrations /\ c.handlers = b.handlers
        /\ c.visiting = b.visiting /\ c.cache = [b.cache EXCEPT ![p] = entry]
        /\ c.requests = b.requests
        /\ c.soon = b.soon /\ c.thrown = b.thrown /\ c.leaked = b.leaked
    BY <1>1, <2>1, <2>3 DEF Browser
  <2>5. c.cache[p] = entry /\ \A q \in Path \ {p} : c.cache[q] = b.cache[q]
    BY <1>1, <2>4
  <2>6. ASSUME NEW q \in Path
        PROVE  PathOk(c, off, sub, q)
    <3>1. PathOk(b, off, sub, q)
      BY <1>1
    <3>2. CASE q = p
      <4>1. IsCached(c, p)
        BY <1>3, <2>2, <2>5 DEF IsCached
      <4> QED
        BY <1>3, <2>2, <2>4, <2>5, <3>1, <3>2, <4>1
           DEF PathOk, RegisteredAt, HandlersAt, FramesAt, TurnsAt, CountAt, EntryAt, ListingAt,
               AwaitsAt, Has
    <3>3. CASE q # p
      <4>1. c.cache[q] = b.cache[q]
        BY <2>5, <3>3
      <4> QED
        BY <2>4, <3>1, <4>1, SamePart
    <3> QED
      BY <3>2, <3>3
  <2>7. BrowserOk(c, off, sub)
    BY <1>1, <2>4, <2>6 DEF BrowserOk
  <2>8. Linked(c)
    BY <1>3, <2>2, <2>4, <2>5 DEF StateOk, Linked, IsCached
  <2>9. ASSUME NEW q \in Path
        PROVE  KnownAt(c, vers, q) /\ FreshAt(c, vers, unpub \ {p}, events, q)
    <3>1. KnownAt(b, vers, q) /\ FreshAt(b, vers, unpub, events, q)
      BY DEF StateOk, Known
    <3>2. CASE q = p
      BY <2>2, <2>4, <2>5, <3>1, <3>2 DEF KnownAt, FreshAt, AnnouncedAt
    <3>3. CASE q # p
      BY <2>4, <2>5, <3>1, <3>3 DEF KnownAt, FreshAt, OldAt, AnnouncedAt
    <3> QED
      BY <3>2, <3>3
  <2>10. Known(c, vers)
    BY <2>4, <2>9 DEF StateOk, Known
  <2> QED
    BY <2>4, <2>7, <2>8, <2>9, <2>10 DEF StateOk, c
<1> QED
  BY <1>2, <1>3

\* A promise calls back: the others are to.
LEMMA PoppedOk ==
    ASSUME NEW b, NEW off, NEW sub, NEW vers \in [Path -> Nat], NEW unpub, NEW events,
           StateOk(b, off, sub, vers, unpub, events), b.soon # <<>>
    PROVE  LET c == [b EXCEPT !.soon = Tail(@)]
               call == Head(b.soon)
           IN  /\ StateOk(c, off, sub, vers, unpub, events)
               /\ call \in Callback /\ call.ver <= vers[call.path]
               /\ c.readyState = b.readyState /\ c.visiting = b.visiting
               /\ call.then # "show" /\ Coming(b) => Coming(c)
<1> DEFINE v == b.soon
           call == Head(v)
           rest == Tail(v)
           n == Len(v)
           c == [b EXCEPT !.soon = rest]
<1>1. b \in Browser /\ v \in Seq(Callback) /\ v # <<>> /\ b.soon = v
  BY DEF StateOk, BrowserOk, Browser
<1> HIDE DEF v, c
<1>2. /\ rest \in Seq(Callback) /\ Len(rest) = n - 1 /\ n \in Nat /\ n >= 1
      /\ \A k \in 1..(n - 1) : rest[k] = v[k + 1]
      /\ call = v[1] /\ call \in Callback
      /\ DOMAIN v = 1..n
  BY <1>1, HeadTailProperties, LenProperties, EmptySeq, ElementOfSeq
<1>3. c = [b EXCEPT !.soon = rest]
  BY DEF c
<1> HIDE DEF rest, n, call
<1>4. DOMAIN rest = 1..(n - 1)
  BY <1>2, LenProperties
<1>5. /\ c \in Browser /\ c.readyState = b.readyState /\ c.connected = b.connected
      /\ c.up = b.up /\ c.registrations = b.registrations /\ c.handlers = b.handlers
      /\ c.visiting = b.visiting /\ c.cache = b.cache /\ c.requests = b.requests
      /\ c.soon = rest /\ c.thrown = b.thrown /\ c.leaked = b.leaked
  BY <1>1, <1>2, <1>3 DEF Browser
<1>6. \A k \in DOMAIN rest : k + 1 \in DOMAIN v /\ rest[k] = v[k + 1]
  BY <1>2, <1>4
<1>7. \A k \in DOMAIN v : v[k].ver <= vers[v[k].path]
  BY <1>1 DEF StateOk, Known
<1>8. call.ver <= vers[call.path]
  <2>1. 1 \in DOMAIN v
    BY <1>2
  <2> QED
    BY <1>2, <1>7, <2>1
<1>9. Known(c, vers)
  BY <1>5, <1>6, <1>7 DEF StateOk, Known, KnownAt
<1>10. StateOk(c, off, sub, vers, unpub, events)
  BY <1>5, <1>9, WaitingOk
<1>11. ASSUME call.then # "show", Coming(b)
       PROVE  Coming(c)
  <2>1. CASE \E k \in DOMAIN v : v[k].then = "show"
    <3>1. PICK k \in DOMAIN v : v[k].then = "show"
      BY <2>1
    <3>2. k # 1
      BY <1>2, <1>11, <3>1
    <3>3. k - 1 \in DOMAIN rest /\ k - 1 \in 1..(n - 1) /\ (k - 1) + 1 = k
      BY <1>2, <1>4, <3>2
    <3>4. rest[k - 1] = v[k]
      BY <1>2, <3>3
    <3> QED
      BY <1>5, <3>1, <3>3, <3>4 DEF Coming
  <2>2. CASE ~\E k \in DOMAIN v : v[k].then = "show"
    BY <1>1, <1>5, <1>11, <2>2 DEF Coming
  <2> QED
    BY <2>1, <2>2
<1> QED
  BY <1>2, <1>5, <1>8, <1>10, <1>11 DEF c, call, v, rest

\* ------------------------------------------------------------------- the steps
\* What a listing follows it still follows, if it is still told of it.
LEMMA FollowsOk ==
    ASSUME NEW b, NEW c, NEW l, NEW ver, NEW unpub, NEW events,
           ListingFollows(b, l, ver, unpub, events),
           c.readyState # "closed" => b.readyState # "closed",
           Coming(b) => Coming(c),
           l.off.path = l.path /\ Turns(b, l.path, l.off.id)
             => Turns(c, l.path, l.off.id) \/ Coming(c)
    PROVE  ListingFollows(c, l, ver, unpub, events)
BY DEF ListingFollows, Turns

\* Before the listing has a path there are no entries, and it has no registration.
LEMMA UntouchedIs ==
    ASSUME NEW b, NEW off, NEW sub, BrowserOk(b, off, sub), Untouched(b)
    PROVE  off = NoOff /\ \A p \in Path : ~IsCached(b, p)
<1>1. ASSUME NEW p \in Path, NEW id, NEW o
      PROVE  ~Has(b, p, id, o)
  <2>1. DOMAIN b.handlers[p] = {}
    BY DEF Untouched
  <2> QED
    BY <2>1 DEF Has
<1>2. \A p \in Path : ~IsCached(b, p)
  BY <1>1 DEF BrowserOk, PathOk, EntryAt
<1>3. off = NoOff
  <2> SUFFICES ASSUME off # NoOff
               PROVE  FALSE
    OBVIOUS
  <2>1. off.path \in Path
    BY OffTypes DEF BrowserOk
  <2> QED
    BY <1>1, <2>1 DEF BrowserOk, PathOk, ListingAt
<1> QED
  BY <1>2, <1>3

\* A step of the browser alone, after which the listing is told what it was to be told.
LEMMA BrowserStep ==
    ASSUME Inv, UNCHANGED <<listing, version, unpublished, subs, down>>,
           StateOk(browser', listing.off, subs, version, unpublished, down),
           browser'.readyState # "closed" => browser.readyState # "closed",
           Coming(browser) => Coming(browser'),
           listing.off.path = listing.path /\ Turns(browser, listing.path, listing.off.id)
             => Turns(browser', listing.path, listing.off.id) \/ Coming(browser'),
           listing.path = NoPath => Untouched(browser')
    PROVE  Inv'
<1>1. ListingFollows(browser', listing, version, unpublished, down)
  BY FollowsOk DEF Inv
<1>2. browser' \in Browser
  BY DEF StateOk, BrowserOk
<1> QED
  BY <1>1, <1>2 DEF Inv, TypeOK

\* What the invariant says of the versions, of the listing's path and of its handler.
LEMMA InvIs ==
    ASSUME Inv
    PROVE  /\ StateOk(browser, listing.off, subs, version, unpublished, down)
           /\ version \in [Path -> Nat] /\ down \in [Path -> Nat]
           /\ listing \in Watching
           /\ listing.path # NoPath => listing.path \in Path
           /\ listing.path = NoPath => /\ listing.off = NoOff /\ Untouched(browser)
                                       /\ \A p \in Path : ~IsCached(browser, p)
           /\ \A p \in Path : listing.off.path = p => Has(browser, p, listing.off.id, "listing")
<1>1. /\ StateOk(browser, listing.off, subs, version, unpublished, down)
      /\ listing \in Watching /\ down \in [Path -> Nat]
      /\ listing.path = NoPath => Untouched(browser)
      /\ BrowserOk(browser, listing.off, subs)
  BY DEF Inv, TypeOK, StateOk
<1>2. version \in [Path -> Nat]
  BY DEF Inv, TypeOK
<1>3. listing.path # NoPath => listing.path \in Path
  BY <1>1 DEF Watching
<1>4. \A p \in Path : listing.off.path = p => Has(browser, p, listing.off.id, "listing")
  BY <1>1 DEF BrowserOk, PathOk, ListingAt
<1>5. listing.path = NoPath => listing.off = NoOff /\ \A p \in Path : ~IsCached(browser, p)
  BY <1>1, UntouchedIs
<1> QED
  BY <1>1, <1>2, <1>3, <1>4, <1>5

\* Others change a resource.
LEMMA OthersCommitStep ==
    ASSUME Inv, NEW p \in Path, OthersCommit(p)
    PROVE  Inv'
<1>1. /\ version' = [q \in Path |-> IF q \in Above(p) THEN version[q] + 1 ELSE version[q]]
      /\ unpublished' = unpublished \cup Above(p)
      /\ browser' = browser /\ listing' = listing /\ subs' = subs /\ down' = down
  BY DEF OthersCommit, Commit
<1>2. version \in [Path -> Nat \ {0}] /\ Above(p) \subseteq Path /\ unpublished \subseteq Path
  BY DEF Inv, TypeOK, Above
<1>3. version' \in [Path -> Nat \ {0}] /\ unpublished' \subseteq Path
  BY <1>1, <1>2
<1>4. /\ \A q \in Path : version[q] <= version'[q]
      /\ \A q \in Path : q \in unpublished' \/ (q \notin unpublished /\ version'[q] = version[q])
  BY <1>1, <1>2
<1>5. StateOk(browser, listing.off, subs, version', unpublished', down)
  <2>1. version \in [Path -> Nat] /\ version' \in [Path -> Nat]
    BY <1>2, <1>3
  <2>2. StateOk(browser, listing.off, subs, version, unpublished, down)
    BY DEF Inv
  <2> QED
    BY <1>4, <2>1, <2>2, CommitOk
<1>6. ListingFollows(browser, listing, version', unpublished', down)
  <2>1. ListingFollows(browser, listing, version, unpublished, down)
    BY DEF Inv
  <2>2. listing.path # NoPath => listing.path \in Path
    BY InvIs
  <2>3. CASE listing.path \in unpublished'
    BY <2>3 DEF ListingFollows
  <2>4. CASE listing.path \notin unpublished' /\ listing.path # NoPath
    <3>1. version'[listing.path] = version[listing.path]
      BY <1>4, <2>2, <2>4
    <3>2. listing.path \notin unpublished
      BY <1>1, <2>4
    <3> QED
      BY <2>1, <3>1, <3>2 DEF ListingFollows
  <2>5. CASE listing.path = NoPath
    BY <2>5 DEF ListingFollows
  <2> QED
    BY <2>3, <2>4, <2>5
<1> QED
  BY <1>1, <1>3, <1>5, <1>6 DEF Inv, TypeOK

\* The server is told of a change; nobody tells this browser.
LEMMA UnheardStep ==
    ASSUME Inv, NEW p \in Path, Unheard(p), unpublished' = unpublished \ {p},
           UNCHANGED <<version, subs, down>>
    PROVE  Inv'
<1> DEFINE c == IF IsCached(browser, p) THEN [browser EXCEPT !.cache[p].unheard = TRUE]
                ELSE browser
<1>1. /\ browser' = c
      /\ listing' = IF listing.path = p THEN [listing EXCEPT !.missed = TRUE] ELSE listing
  BY DEF Unheard, ListingMisses
<1>2. /\ StateOk(c, listing.off, subs, version, unpublished \ {p}, down)
      /\ c.readyState = browser.readyState /\ c.visiting = browser.visiting
      /\ c.requests = browser.requests /\ c.soon = browser.soon
      /\ c.handlers = browser.handlers
  BY InvIs, UnheardOk
<1> HIDE DEF c
<1>3. listing \in Watching
  BY InvIs
<1>4. /\ listing' \in Watching /\ listing'.off = listing.off /\ listing'.path = listing.path
      /\ listing'.alive = listing.alive /\ listing'.shown = listing.shown
      /\ listing'.missed = (listing.missed \/ listing.path = p)
  BY <1>1, <1>3 DEF Watching
<1>5. ListingFollows(c, listing', version, unpublished \ {p}, down)
  <2>1. ListingFollows(browser, listing, version, unpublished, down)
    BY DEF Inv
  <2>2. Coming(browser) => Coming(c)
    BY <1>2 DEF Coming
  <2> QED
    BY <1>2, <1>4, <2>1, <2>2 DEF ListingFollows
<1>6. Untouched(browser) => Untouched(c)
  BY <1>2 DEF Untouched
<1>7. c \in Browser
  BY <1>2 DEF StateOk, BrowserOk
<1>8. unpublished \ {p} \subseteq Path
  BY DEF Inv, TypeOK
<1> QED
  BY <1>1, <1>2, <1>4, <1>5, <1>6, <1>7, <1>8 DEF Inv, TypeOK

\* A change is published: an event is under way, or the browser has not subscribed.
LEMMA PublishStep ==
    ASSUME Inv, NEW p \in Path, Publish(p)
    PROVE  Inv'
<1>1. CASE p \in subs
  <2> DEFINE events2 == [down EXCEPT ![p] = @ + 1]
  <2>1. /\ unpublished' = unpublished \ {p} /\ down' = events2
        /\ UNCHANGED <<browser, listing, version, subs>>
    BY <1>1 DEF Publish
  <2>2. down \in [Path -> Nat] /\ unpublished \subseteq Path
    BY DEF Inv, TypeOK
  <2>3. /\ events2 \in [Path -> Nat] /\ events2[p] > 0
        /\ \A q \in Path : q # p => events2[q] = down[q]
    BY <2>2
  <2> HIDE DEF events2
  <2>4. ASSUME NEW q \in Path
        PROVE  FreshAt(browser, version, unpublished \ {p}, events2, q)
    <3>1. FreshAt(browser, version, unpublished, down, q)
      BY DEF Inv, StateOk
    <3> QED
      BY <2>3, <3>1 DEF FreshAt, AnnouncedAt
  <2>5. StateOk(browser, listing.off, subs, version, unpublished \ {p}, events2)
    BY <2>4 DEF Inv, StateOk
  <2>6. ListingFollows(browser, listing, version, unpublished \ {p}, events2)
    <3>1. ListingFollows(browser, listing, version, unpublished, down)
      BY DEF Inv
    <3>2. listing.path # NoPath => listing.path \in Path
      BY InvIs
    <3>3. CASE listing.path = p
      BY <2>3, <3>3 DEF ListingFollows
    <3>4. CASE listing.path # p
      BY <2>3, <3>1, <3>2, <3>4 DEF ListingFollows
    <3> QED
      BY <3>3, <3>4
  <2> QED
    BY <2>1, <2>2, <2>3, <2>5, <2>6 DEF Inv, TypeOK
<1>2. CASE p \notin subs
  <2>1. Unheard(p) /\ unpublished' = unpublished \ {p} /\ UNCHANGED <<version, subs, down>>
    BY <1>2 DEF Publish
  <2> QED
    BY <2>1, UnheardStep
<1> QED
  BY <1>1, <1>2

\* A notification is lost.
LEMMA LoseStep ==
    ASSUME Inv, NEW p \in Path, Lose(p)
    PROVE  Inv'
<1>1. Unheard(p) /\ unpublished' = unpublished \ {p} /\ UNCHANGED <<version, subs, down>>
  BY DEF Lose
<1> QED
  BY <1>1, UnheardStep

\* The server handles a frame.
LEMMA SubscribeStep ==
    ASSUME Inv, NEW p \in Path, Subscribe(p)
    PROVE  Inv'
<1> DEFINE c == [browser EXCEPT !.up[p] = Tail(@)]
           sub2 == IF Head(browser.up[p]) = "subscribe" THEN subs \cup {p} ELSE subs \ {p}
<1>1. /\ browser.up[p] # <<>> /\ browser' = c /\ subs' = sub2
      /\ UNCHANGED <<listing, version, unpublished, down>>
  BY DEF Subscribe
<1>2. /\ StateOk(c, listing.off, sub2, version, unpublished, down)
      /\ c.readyState = browser.readyState /\ c.visiting = browser.visiting
      /\ c.requests = browser.requests /\ c.soon = browser.soon
      /\ c.handlers = browser.handlers
  <2>1. /\ StateOk(browser, listing.off, subs, version, unpublished, down)
        /\ version \in [Path -> Nat]
    BY InvIs
  <2> QED
    BY <1>1, <2>1, SubscribedOk
<1>3. sub2 \subseteq Path
  BY DEF Inv, TypeOK
<1> HIDE DEF c, sub2
<1>4. ListingFollows(c, listing, version, unpublished, down)
  <2>1. ListingFollows(browser, listing, version, unpublished, down)
    BY DEF Inv
  <2> QED
    BY <1>2, <2>1 DEF ListingFollows, Coming
<1>5. Untouched(browser) => Untouched(c)
  BY <1>2 DEF Untouched
<1>6. c \in Browser
  BY <1>2 DEF StateOk, BrowserOk
<1> QED
  BY <1>1, <1>2, <1>3, <1>4, <1>5, <1>6 DEF Inv, TypeOK

\* A step of the browser alone that keeps what is to come.
LEMMA QuietStep ==
    ASSUME Inv, UNCHANGED <<listing, version, unpublished, subs, down>>,
           StateOk(browser', listing.off, subs, version, unpublished, down),
           browser'.readyState # "closed" => browser.readyState # "closed",
           browser'.visiting = browser.visiting,
           Coming(browser) => Coming(browser'),
           listing.path = NoPath => Untouched(browser')
    PROVE  Inv'
<1>1. Turns(browser, listing.path, listing.off.id)
        => Turns(browser', listing.path, listing.off.id)
  BY DEF Turns
<1> QED
  BY <1>1, BrowserStep

\* The server answers a request.
LEMMA AnswerStep ==
    ASSUME Inv, NEW i \in RequestIds, Answer(i)
    PROVE  Inv'
<1> DEFINE c == Answered(browser, i, version)
<1>1. /\ browser.requests[i].state = "sent" /\ browser' = c
      /\ UNCHANGED <<listing, version, unpublished, subs, down>>
  BY DEF Answer, server
<1>2. /\ StateOk(c, listing.off, subs, version, unpublished, down)
      /\ c.readyState = browser.readyState /\ c.visiting = browser.visiting
      /\ Coming(browser) => Coming(c)
  <2>1. /\ StateOk(browser, listing.off, subs, version, unpublished, down)
        /\ version \in [Path -> Nat]
    BY InvIs
  <2> QED
    BY <1>1, <2>1, AnsweredOk
<1> HIDE DEF c
<1>3. listing.path # NoPath
  BY <1>1, InvIs, RequestTypes DEF Untouched
<1> QED
  BY <1>1, <1>2, <1>3, QuietStep

\* The connection is there.
LEMMA OpenStep ==
    ASSUME Inv, Open
    PROVE  Inv'
<1> DEFINE c == OnOpen(browser)
<1>1. /\ browser.readyState = "connecting" /\ browser' = c
      /\ UNCHANGED <<listing, version, unpublished, subs, down>>
  BY DEF Open, server
<1>2. /\ StateOk(browser, listing.off, subs, version, unpublished, down)
      /\ version \in [Path -> Nat]
  BY InvIs
<1>3. /\ StateOk(c, listing.off, subs, version, unpublished, down)
      /\ c.visiting = browser.visiting /\ c.requests = browser.requests
      /\ c.soon = browser.soon
  BY <1>1, <1>2, OnOpenOk
<1>4. c.handlers = browser.handlers
  BY <1>2 DEF OnOpen, StateOk, BrowserOk, Browser
<1> HIDE DEF c
<1>5. Untouched(browser) => Untouched(c)
  BY <1>3, <1>4 DEF Untouched
<1>6. Coming(browser) => Coming(c)
  BY <1>3 DEF Coming
<1>7. listing.path = NoPath => Untouched(browser)
  BY DEF Inv
<1> QED
  BY <1>1, <1>3, <1>5, <1>6, <1>7, QuietStep

\* The connection breaks.
LEMMA BeginCloseStep ==
    ASSUME Inv, BeginClose
    PROVE  Inv'
<1> DEFINE c == Closing(browser)
<1>1. /\ browser.readyState = "open" /\ browser' = c
      /\ UNCHANGED <<listing, version, unpublished, subs, down>>
  BY DEF BeginClose, server
<1>2. /\ StateOk(browser, listing.off, subs, version, unpublished, down)
      /\ version \in [Path -> Nat]
  BY InvIs
<1>3. /\ StateOk(c, listing.off, subs, version, unpublished, down)
      /\ c.visiting = browser.visiting /\ c.requests = browser.requests
      /\ c.soon = browser.soon
  BY <1>1, <1>2, ClosingOk
<1>4. c.handlers = browser.handlers
  BY <1>2 DEF Closing, StateOk, BrowserOk, Browser
<1> HIDE DEF c
<1>5. Untouched(browser) => Untouched(c)
  BY <1>3, <1>4 DEF Untouched
<1>6. Coming(browser) => Coming(c)
  BY <1>3 DEF Coming
<1>7. listing.path = NoPath => Untouched(browser)
  BY DEF Inv
<1> QED
  BY <1>1, <1>3, <1>5, <1>6, <1>7, QuietStep

\* The browser hears that the connection is closed.
LEMMA CloseStep ==
    ASSUME Inv, Close
    PROVE  Inv'
<1> DEFINE c == InvalidateAll(OnClose(browser))
           none == [p \in Path |-> 0]
<1>1. /\ browser' = c /\ subs' = {} /\ down' = none
      /\ UNCHANGED <<listing, version, unpublished>>
  BY DEF Close
<1>2. none \in [Path -> Nat]
  OBVIOUS
<1> HIDE DEF none
<1>3. /\ StateOk(browser, listing.off, subs, version, unpublished, down)
      /\ version \in [Path -> Nat]
  BY InvIs
<1>4. /\ StateOk(c, listing.off, {}, version, unpublished, none)
      /\ c.readyState = "closed" /\ c.visiting = browser.visiting
      /\ c.requests = browser.requests /\ c.soon = browser.soon
      /\ \A p \in Path : ~IsCached(browser, p) => c.handlers[p] = browser.handlers[p]
  BY <1>3, OnCloseOk
<1> HIDE DEF c
<1>5. ListingFollows(c, listing, version, unpublished, none)
  BY <1>4 DEF ListingFollows
<1>6. listing.path = NoPath => Untouched(c)
  <2>1. listing.path = NoPath => Untouched(browser) /\ \A p \in Path : ~IsCached(browser, p)
    BY InvIs
  <2> QED
    BY <1>4, <2>1 DEF Untouched
<1>7. c \in Browser
  BY <1>4 DEF StateOk, BrowserOk
<1> QED
  BY <1>1, <1>2, <1>4, <1>5, <1>6, <1>7 DEF Inv, TypeOK

\* An event is there.
LEMMA DeliverStep ==
    ASSUME Inv, NEW p \in Path, Deliver(p)
    PROVE  Inv'
<1> DEFINE c == Trigger(browser, p)
           events2 == [down EXCEPT ![p] = @ - 1]
<1>1. /\ browser.visiting = <<>> /\ down[p] > 0
      /\ browser' = c /\ down' = events2
      /\ \/ listing.off.path = p /\ listing' = [listing EXCEPT !.missed = FALSE]
         \/ listing' = IF listing.path = p THEN [listing EXCEPT !.missed = TRUE] ELSE listing
      /\ UNCHANGED <<version, unpublished, subs>>
  BY DEF Deliver, Quiet, ListingMisses
<1>2. /\ StateOk(browser, listing.off, subs, version, unpublished, down)
      /\ version \in [Path -> Nat] /\ down \in [Path -> Nat] /\ listing \in Watching
      /\ \A q \in Path : listing.off.path = q => Has(browser, q, listing.off.id, "listing")
  BY InvIs
<1>3. /\ StateOk(c, listing.off, subs, version, unpublished, events2)
      /\ c.readyState = browser.readyState /\ c.handlers = browser.handlers
      /\ c.requests = browser.requests /\ c.soon = browser.soon
      /\ browser.handlers[p] = <<>> => c.visiting = <<>>
      /\ \A id, o : Has(browser, p, id, o) => Turns(c, p, id)
  BY <1>1, <1>2, TriggerOk
<1>4. events2 \in [Path -> Nat] /\ \A q \in Path : q # p => events2[q] = down[q]
  BY <1>1, <1>2
<1> HIDE DEF c, events2
<1>5. /\ listing' \in Watching /\ listing'.off = listing.off /\ listing'.path = listing.path
      /\ listing'.alive = listing.alive /\ listing'.shown = listing.shown
      /\ listing.path # p => listing' = listing \/ listing.off.path = p
      /\ listing.path = p => listing.off.path = p \/ listing'.missed
  BY <1>1, <1>2 DEF Watching
<1>6. ListingFollows(c, listing', version, unpublished, events2)
  <2>1. ListingFollows(browser, listing, version, unpublished, down)
    BY DEF Inv
  <2>2. CASE listing.path = p /\ listing.off.path = p
    <3>1. Turns(c, listing.path, listing.off.id)
      BY <1>2, <1>3, <2>2
    <3> QED
      BY <1>5, <3>1 DEF ListingFollows, Turns
  <2>3. CASE listing.path = p /\ listing.off.path # p
    BY <1>5, <2>3 DEF ListingFollows
  <2>4. CASE listing.path # p /\ listing.off.path = p
    BY <1>5, <2>4 DEF ListingFollows
  <2>5. CASE listing.path # p /\ listing.off.path # p
    <3>1. Coming(browser) => Coming(c)
      BY <1>3 DEF Coming
    <3>2. listing' = listing
      BY <1>5, <2>5
    <3>3. listing.path # NoPath => listing.path \in Path
      BY InvIs
    <3>4. listing.path # NoPath => events2[listing.path] = down[listing.path]
      BY <1>4, <2>5, <3>3
    <3>5. ~Turns(browser, listing.path, listing.off.id)
      BY <1>1 DEF Turns
    <3> QED
      BY <1>3, <2>1, <3>1, <3>2, <3>4, <3>5 DEF ListingFollows, Turns
  <2> QED
    BY <2>2, <2>3, <2>4, <2>5
<1>7. Untouched(browser) => Untouched(c)
  BY <1>3 DEF Untouched
<1>8. c \in Browser
  BY <1>3 DEF StateOk, BrowserOk
<1> QED
  BY <1>1, <1>3, <1>4, <1>5, <1>6, <1>7, <1>8 DEF Inv, TypeOK

\* A turn of the event's loop: an entry is dropped, the listing asks again, or the handler
\* is gone.
LEMMA VisitStep ==
    ASSUME Inv, Visit
    PROVE  Inv'
<1> DEFINE h == Head(browser.visiting)
           v == Visited(browser)
<1>1. /\ browser.visiting # <<>>
      /\ h.owner = "listing" => Idle(browser) # {}
      /\ browser' = IF Handles(browser, h.path, h.id) THEN OnEvent(v, h) ELSE v
      /\ UNCHANGED <<listing, version, unpublished, subs, down>>
  BY DEF Visit, server
<1>2. /\ StateOk(browser, listing.off, subs, version, unpublished, down)
      /\ version \in [Path -> Nat]
      /\ listing.path # NoPath /\ listing.path \in Path
      /\ \A q \in Path : listing.off.path = q => Has(browser, q, listing.off.id, "listing")
      /\ BrowserOk(browser, listing.off, subs)
  BY <1>1, InvIs DEF Untouched, StateOk
<1>3. /\ BrowserOk(v, listing.off, subs) /\ h \in Turn
      /\ v.readyState = browser.readyState
      /\ v.requests = browser.requests /\ v.soon = browser.soon
      /\ 1 \in DOMAIN browser.visiting /\ browser.visiting[1] = h
      /\ \A p, id : Turns(browser, p, id) => \/ h.path = p /\ h.id = id
                                             \/ Turns(v, p, id)
  BY <1>1, <1>2, VisitedIs
<1> DEFINE its == Handles(browser, h.path, h.id) /\ h.path = listing.path
                    /\ h.id = listing.off.id /\ listing.off.path = listing.path
<1>4. its => h.owner = "listing"
  <2> SUFFICES ASSUME its
               PROVE  h.owner = "listing"
    OBVIOUS
  <2> DEFINE p == listing.path
  <2>1. TurnsAt(browser, p) /\ Has(browser, p, browser.visiting[1].id, "listing")
    BY <1>2, <1>3 DEF BrowserOk, PathOk, RegisteredAt
  <2>2. 1 \in DOMAIN browser.visiting /\ browser.visiting[1].path = p
    BY <1>3
  <2> HIDE DEF p
  <2>3. browser.visiting[1].owner = "listing"
    BY <2>1, <2>2, TurnsOwner
  <2> QED
    BY <1>3, <2>3
<1>5. listing.off.path = listing.path => Handles(browser, listing.path, listing.off.id)
  BY <1>2 DEF Has, Handles
<1> HIDE DEF h, v
<1>6. CASE Handles(browser, h.path, h.id) /\ h.owner = "cache"
  <2>1. browser' = Invalidate(v, h.path) /\ h.path \in Path
    BY <1>1, <1>3, <1>6 DEF OnEvent, Turn
  <2>2. /\ StateOk(browser', listing.off, subs, version, unpublished, down)
        /\ browser'.readyState = browser.readyState /\ browser'.requests = browser.requests
        /\ browser'.soon = browser.soon
        /\ \A q, id : Turns(browser, q, id) => \/ q = h.path /\ h.id = id
                                               \/ Turns(browser', q, id)
    BY <1>1, <1>2, <2>1, DroppedOk DEF h, v
  <2>3. Coming(browser) => Coming(browser')
    BY <2>2 DEF Coming
  <2>4. ~its
    BY <1>4, <1>6
  <2> QED
    BY <1>1, <1>2, <1>6, <2>2, <2>3, <2>4, BrowserStep
<1>7. CASE ~(Handles(browser, h.path, h.id) /\ h.owner = "cache")
  <2>1. StateOk(v, listing.off, subs, version, unpublished, down)
    BY <1>1, <1>2, <1>7, VisitedOk DEF h, v
  <2>2. Coming(browser) => Coming(v)
    BY <1>3 DEF Coming
  <2>3. CASE ~Handles(browser, h.path, h.id)
    <3>1. browser' = v
      BY <1>1, <2>3
    <3>2. listing.off.path = listing.path /\ Turns(browser, listing.path, listing.off.id)
            => Turns(v, listing.path, listing.off.id)
      BY <1>3, <1>5, <2>3
    <3> QED
      BY <1>1, <1>2, <1>3, <2>1, <2>2, <3>1, <3>2, BrowserStep
  <2>4. CASE Handles(browser, h.path, h.id)
    <3>1. h.owner = "listing"
      BY <1>3, <1>7, <2>4 DEF Turn, Owners
    <3>2. browser' = Get(v, listing.path, "show")
      BY <1>1, <2>4, <3>1 DEF OnEvent
    <3>3. Idle(v) # {}
      BY <1>1, <1>3, <3>1 DEF Idle
    <3>4. /\ StateOk(browser', listing.off, subs, version, unpublished, down)
          /\ Joined(v, browser', "show")
      <4>1. "show" \in Thens
        BY DEF Thens
      <4> QED
        BY <1>2, <2>1, <3>2, <3>3, <4>1, GetOk
    <3>5. Coming(browser') /\ browser'.readyState = browser.readyState
      BY <1>3, <3>4 DEF Joined
    <3> QED
      BY <1>1, <1>2, <3>4, <3>5, BrowserStep
  <2> QED
    BY <2>3, <2>4
<1> QED
  BY <1>6, <1>7

\* There is an answer to a request.
LEMMA ResponseStep ==
    ASSUME Inv, NEW i \in RequestIds, Response(i)
    PROVE  Inv'
<1> DEFINE c == Receive(browser, i)
<1>1. /\ browser.requests[i].state = "read" /\ browser' = c
      /\ UNCHANGED <<listing, version, unpublished, subs, down>>
  BY DEF Response, server
<1>2. /\ StateOk(c, listing.off, subs, version, unpublished, down)
      /\ c.readyState = browser.readyState /\ c.visiting = browser.visiting
      /\ Coming(browser) => Coming(c)
  <2>1. /\ StateOk(browser, listing.off, subs, version, unpublished, down)
        /\ version \in [Path -> Nat]
    BY InvIs
  <2> QED
    BY <1>1, <2>1, ReceiveOk
<1> HIDE DEF c
<1>3. listing.path # NoPath
  BY <1>1, InvIs, RequestTypes DEF Untouched
<1> QED
  BY <1>1, <1>2, <1>3, QuietStep

\* There is none.
LEMMA NoResponseStep ==
    ASSUME Inv, NEW i \in RequestIds, NoResponse(i)
    PROVE  Inv'
<1> DEFINE c == Fail(browser, i)
<1>1. /\ browser.requests[i].state # "none" /\ browser' = c
      /\ UNCHANGED <<listing, version, unpublished, subs, down>>
  BY DEF NoResponse, server
<1>2. /\ StateOk(c, listing.off, subs, version, unpublished, down)
      /\ c.readyState = browser.readyState /\ c.visiting = browser.visiting
      /\ Coming(browser) => Coming(c)
  <2>1. /\ StateOk(browser, listing.off, subs, version, unpublished, down)
        /\ version \in [Path -> Nat]
    BY InvIs
  <2> QED
    BY <1>1, <2>1, FailOk
<1> HIDE DEF c
<1>3. listing.path # NoPath
  BY <1>1, InvIs, RequestTypes DEF Untouched
<1> QED
  BY <1>1, <1>2, <1>3, QuietStep

\* An entry is too old.
LEMMA AgeStep ==
    ASSUME Inv, NEW p \in Path, Age(p)
    PROVE  Inv'
<1> DEFINE c == Invalidate(browser, p)
<1>1. /\ IsCached(browser, p) /\ browser' = c
      /\ UNCHANGED <<listing, version, unpublished, subs, down>>
  BY DEF Age, Expire, Invalidate, server
<1>2. /\ StateOk(browser, listing.off, subs, version, unpublished, down)
      /\ version \in [Path -> Nat] /\ listing.path # NoPath
      /\ BrowserOk(browser, listing.off, subs)
  BY <1>1, InvIs DEF StateOk
<1>3. BrowserOk(c, listing.off, subs) /\ OnlyAt(browser, c, p) /\ c.cache[p] = NoEntry
  BY <1>2, InvalidateOk
<1> HIDE DEF c
<1>4. /\ c.readyState = browser.readyState /\ c.connected = browser.connected
      /\ c.visiting = browser.visiting /\ c.requests = browser.requests
      /\ c.soon = browser.soon
  BY <1>3 DEF OnlyAt
<1>5. \A q \in Path : \/ c.cache[q] = browser.cache[q]
                      \/ /\ IsCached(c, q) => c.connected
                         /\ \/ c.cache[q].promise = NoPromise
                            \/ \E ver \in Nat : /\ c.cache[q].promise = Settled(ver, TRUE)
                                                /\ ver <= version[q]
  BY <1>3, EntryTypes DEF OnlyAt, IsCached
<1>6. StateOk(c, listing.off, subs, version, unpublished, down)
  BY <1>2, <1>3, <1>4, <1>5, EntriesOk
<1>7. Coming(browser) => Coming(c)
  BY <1>4 DEF Coming
<1> QED
  BY <1>1, <1>2, <1>4, <1>6, <1>7, QuietStep

\* An entry has to make room.
LEMMA MakeRoomStep ==
    ASSUME Inv, NEW p \in Path, MakeRoom(p)
    PROVE  Inv'
<1> DEFINE c == [Evict(browser, p) EXCEPT !.leaked[p] = @ + 1]
<1>1. /\ IsCached(browser, p) /\ browser' = c
      /\ UNCHANGED <<listing, version, unpublished, subs, down>>
  BY DEF MakeRoom, server
<1>2. /\ StateOk(browser, listing.off, subs, version, unpublished, down)
      /\ version \in [Path -> Nat] /\ listing.path # NoPath
  BY <1>1, InvIs
<1>3. /\ StateOk(c, listing.off, subs, version, unpublished, down)
      /\ c.readyState = browser.readyState /\ c.visiting = browser.visiting
      /\ c.requests = browser.requests /\ c.soon = browser.soon
  BY <1>1, <1>2, EvictOk
<1> HIDE DEF c
<1>4. Coming(browser) => Coming(c)
  BY <1>3 DEF Coming
<1> QED
  BY <1>1, <1>2, <1>3, <1>4, QuietStep

\* The listing's registration ends, or there was none.
LEMMA UnregisterListingOk ==
    ASSUME Inv
    PROVE  LET c == UnregisterListing(browser)
           IN  /\ StateOk(c, NoOff, subs, version, unpublished, down)
               /\ c.readyState = browser.readyState /\ c.visiting = browser.visiting
               /\ c.requests = browser.requests /\ c.soon = browser.soon
               /\ listing.off = NoOff => c = browser
<1>1. /\ StateOk(browser, listing.off, subs, version, unpublished, down)
      /\ version \in [Path -> Nat]
  BY InvIs
<1>2. CASE listing.off = NoOff
  BY <1>1, <1>2 DEF UnregisterListing
<1>3. CASE listing.off # NoOff
  <2> DEFINE c == Unregister(browser, listing.off.path, listing.off.id)
  <2>1. UnregisterListing(browser) = c
    BY <1>3 DEF UnregisterListing
  <2>2. /\ StateOk(c, NoOff, subs, version, unpublished, down)
        /\ c.readyState = browser.readyState /\ c.visiting = browser.visiting
        /\ c.requests = browser.requests /\ c.soon = browser.soon
    BY <1>1, <1>3, UnlistenOk
  <2> QED
    BY <1>3, <2>1, <2>2
<1> QED
  BY <1>2, <1>3

\* The listing is to show another pool.
LEMMA WatchStep ==
    ASSUME Inv, NEW p \in Path, Watch(p)
    PROVE  Inv'
<1> DEFINE u == UnregisterListing(browser)
           c == Get(u, p, "watch")
<1>1. /\ Idle(browser) # {} /\ browser' = c
      /\ listing' = [listing EXCEPT !.path = p, !.off = NoOff, !.missed = FALSE]
      /\ UNCHANGED <<version, unpublished, subs, down>>
  BY DEF Watch, CanAsk, server
<1>2. version \in [Path -> Nat] /\ listing \in Watching
  BY InvIs
<1>3. /\ StateOk(u, NoOff, subs, version, unpublished, down)
      /\ u.requests = browser.requests
  BY UnregisterListingOk
<1> HIDE DEF u
<1>4. Idle(u) # {} /\ "watch" \in Thens
  BY <1>1, <1>3 DEF Idle, Thens
<1>5. StateOk(c, NoOff, subs, version, unpublished, down)
  BY <1>2, <1>3, <1>4, GetOk
<1> HIDE DEF c
<1>6. /\ listing' \in Watching /\ listing'.path = p /\ listing'.off = NoOff
  BY <1>1, <1>2, OffTypes DEF Watching
<1>7. NoOff.path # p /\ p # NoPath
  BY OffTypes, LiveAssumption
<1>8. ListingFollows(c, listing', version, unpublished, down)
  BY <1>6, <1>7 DEF ListingFollows
<1>9. c \in Browser
  BY <1>5 DEF StateOk, BrowserOk
<1> QED
  BY <1>1, <1>5, <1>6, <1>7, <1>8, <1>9 DEF Inv, TypeOK

\* The listing gets what it shows again.
LEMMA UpdateStep ==
    ASSUME Inv, Update
    PROVE  Inv'
<1> DEFINE c == Get(browser, listing.path, "show")
<1>1. /\ Idle(browser) # {} /\ listing.path # NoPath /\ browser' = c
      /\ UNCHANGED <<listing, version, unpublished, subs, down>>
  BY DEF Update, CanAsk, server
<1>2. /\ StateOk(browser, listing.off, subs, version, unpublished, down)
      /\ version \in [Path -> Nat] /\ listing.path \in Path
  BY <1>1, InvIs
<1>3. "show" \in Thens
  BY DEF Thens
<1>4. StateOk(c, listing.off, subs, version, unpublished, down) /\ Joined(browser, c, "show")
  BY <1>1, <1>2, <1>3, GetOk
<1> HIDE DEF c
<1> QED
  BY <1>1, <1>4, QuietStep DEF Joined

\* The listing is gone.
LEMMA LeaveStep ==
    ASSUME Inv, Leave
    PROVE  Inv'
<1> DEFINE c == UnregisterListing(browser)
<1>1. /\ browser' = c
      /\ listing' = [listing EXCEPT !.alive = FALSE, !.off = NoOff]
      /\ UNCHANGED <<version, unpublished, subs, down>>
  BY DEF Leave, server
<1>2. /\ StateOk(c, NoOff, subs, version, unpublished, down)
      /\ listing.off = NoOff => c = browser
  BY UnregisterListingOk
<1>3. /\ listing \in Watching
      /\ listing.path = NoPath => listing.off = NoOff /\ Untouched(browser)
  BY InvIs
<1> HIDE DEF c
<1>4. /\ listing' \in Watching /\ listing'.path = listing.path /\ listing'.off = NoOff
      /\ listing'.alive = FALSE
  BY <1>1, <1>3, OffTypes DEF Watching
<1>5. ListingFollows(c, listing', version, unpublished, down)
  BY <1>4 DEF ListingFollows
<1>6. c \in Browser
  BY <1>2 DEF StateOk, BrowserOk
<1> QED
  BY <1>1, <1>2, <1>3, <1>4, <1>5, <1>6 DEF Inv, TypeOK

\* What a listing that does not lack anything shows is new, or an event comes.
LEMMA ShownIsNew ==
    ASSUME NEW call \in Callback, version \in [Path -> Nat], call.ver <= version[call.path],
           ~Lacking(call)
    PROVE  /\ call.path = listing.path
           /\ \/ call.ver = version[listing.path]
              \/ listing.path \in unpublished \/ down[listing.path] # 0
<1>1. call.path \in Path /\ call.ver \in Nat
  BY DEF Callback
<1>2. version[call.path] \in Nat
  BY <1>1
<1> QED
  BY <1>1, <1>2 DEF Lacking

\* A promise calls the listing back, which shows what it got and was asked for.
LEMMA ThenShowStep ==
    ASSUME Inv, ThenShow
    PROVE  Inv'
<1> DEFINE call == Head(browser.soon)
           c == Popped
<1>1. /\ browser.soon # <<>> /\ browser' = c /\ browser.visiting = <<>>
      /\ listing' = IF call.ver = NoVersion
                    THEN [listing EXCEPT !.missed = listing.missed \/ Lacking(call)]
                    ELSE [listing EXCEPT !.shown = [path |-> call.path, ver |-> call.ver],
                                         !.missed = listing.missed \/ Lacking(call)]
      /\ UNCHANGED <<version, unpublished, subs, down>>
  BY DEF ThenShow, Calling, Show, server
<1>2. /\ StateOk(browser, listing.off, subs, version, unpublished, down)
      /\ version \in [Path -> Nat] /\ listing \in Watching /\ down \in [Path -> Nat]
      /\ listing.path # NoPath => listing.path \in Path
      /\ listing.path = NoPath => Untouched(browser)
  BY InvIs
<1>3. /\ StateOk(c, listing.off, subs, version, unpublished, down)
      /\ call \in Callback /\ call.ver <= version[call.path]
      /\ c.readyState = browser.readyState /\ c.visiting = browser.visiting
  BY <1>1, <1>2, PoppedOk DEF Popped
<1> HIDE DEF c
<1>4. listing.path # NoPath
  BY <1>1, <1>2 DEF Untouched
<1> HIDE DEF call
<1>5. Lacking(call) \in BOOLEAN
  BY DEF Lacking
<1>6. /\ listing' \in Watching /\ listing'.off = listing.off /\ listing'.path = listing.path
      /\ listing'.alive = listing.alive
      /\ listing'.missed = (listing.missed \/ Lacking(call))
      /\ \/ call.ver = NoVersion
         \/ listing'.shown = [path |-> call.path, ver |-> call.ver]
  <2>1. call.path \in Path /\ call.ver \in Nat
    BY <1>3 DEF Callback
  <2>2. CASE call.ver = NoVersion
    BY <1>1, <1>2, <1>5, <2>2 DEF Watching
  <2>3. CASE call.ver # NoVersion
    BY <1>1, <1>2, <1>5, <2>1, <2>3 DEF Watching
  <2> QED
    BY <2>2, <2>3
<1>7. ListingFollows(c, listing', version, unpublished, down)
  <2>1. CASE Lacking(call)
    BY <1>6, <2>1 DEF ListingFollows
  <2>2. CASE ~Lacking(call)
    <3>1. /\ call.path = listing.path
          /\ \/ call.ver = version[listing.path]
             \/ listing.path \in unpublished \/ down[listing.path] # 0
      BY <1>2, <1>3, <2>2, ShownIsNew
    <3>2. CASE listing.path \in unpublished \/ down[listing.path] # 0
      <4>1. listing.path \in unpublished \/ down[listing.path] > 0
        BY <1>2, <1>4, <3>2
      <4> QED
        BY <1>6, <4>1 DEF ListingFollows
    <3>3. CASE call.ver = version[listing.path]
      <4>1. call.ver # NoVersion
        BY <1>2, <1>4, <3>3 DEF NoVersion, Inv, TypeOK
      <4>2. listing'.shown = [path |-> listing'.path, ver |-> version[listing'.path]]
        BY <1>6, <3>1, <3>3, <4>1
      <4> QED
        BY <4>2 DEF ListingFollows
    <3> QED
      BY <3>1, <3>2, <3>3
  <2> QED
    BY <2>1, <2>2
<1>8. c \in Browser
  BY <1>3 DEF StateOk, BrowserOk
<1> QED
  BY <1>1, <1>3, <1>4, <1>6, <1>7, <1>8 DEF Inv, TypeOK

\* It registers for what it shows now.
LEMMA ThenRegisterStep ==
    ASSUME Inv, ThenRegister
    PROVE  Inv'
<1> DEFINE call == Head(browser.soon)
           c == Popped
           p == call.path
           off == [path |-> p, id |-> RegisteredId(browser, p)]
           b == Register(c, p, "listing")
           lost == IF listing.alive THEN listing.off ELSE off
           kept == IF listing.alive THEN off ELSE NoOff
<1>1. /\ browser.soon # <<>> /\ browser.visiting = <<>> /\ call.then = "watch"
      /\ UNCHANGED <<version, unpublished, subs, down>>
      /\ call.ver = NoVersion => browser' = c /\ listing' = listing
      /\ call.ver # NoVersion =>
           /\ browser' = IF lost = NoOff THEN b ELSE [b EXCEPT !.leaked[lost.path] = @ + 1]
           /\ listing' = [listing EXCEPT !.shown = [path |-> p, ver |-> call.ver],
                                         !.missed = listing.missed \/ Lacking(call),
                                         !.off = kept]
  <2>1. [Show(call) EXCEPT !.off = kept]
          = [listing EXCEPT !.shown = [path |-> p, ver |-> call.ver],
                            !.missed = listing.missed \/ Lacking(call),
                            !.off = kept]
    BY DEF Show
  <2> QED
    BY <2>1 DEF ThenRegister, Calling, server
<1>2. /\ StateOk(browser, listing.off, subs, version, unpublished, down)
      /\ version \in [Path -> Nat] /\ listing \in Watching /\ down \in [Path -> Nat]
      /\ listing.path # NoPath => listing.path \in Path
      /\ listing.path = NoPath => Untouched(browser)
      /\ ~listing.alive => listing.off = NoOff
  BY InvIs DEF Inv
<1>3. /\ StateOk(c, listing.off, subs, version, unpublished, down)
      /\ call \in Callback /\ call.ver <= version[p]
      /\ c.readyState = browser.readyState /\ c.visiting = browser.visiting
      /\ call.then # "show" /\ Coming(browser) => Coming(c)
  BY <1>1, <1>2, PoppedOk DEF Popped
<1>4. listing.path # NoPath
  BY <1>1, <1>2 DEF Untouched
<1>5. RegisteredId(browser, p) = RegisteredId(c, p)
  <2>1. c.handlers = browser.handlers /\ c.visiting = browser.visiting
    BY <1>2 DEF Popped, StateOk, BrowserOk, Browser
  <2> HIDE DEF c, p
  <2> QED
    BY <2>1 DEF RegisteredId, FreeId
<1>6. CASE call.ver = NoVersion
  BY <1>1, <1>3, <1>4, <1>6, QuietStep
<1>7. CASE call.ver # NoVersion
  <2>1. p \in Path /\ call.ver \in Nat /\ off = [path |-> p, id |-> RegisteredId(c, p)]
    BY <1>3, <1>5 DEF Callback
  <2>2. off # NoOff
    BY <2>1, OffTypes
  <2> HIDE DEF c, off
  <2>3. /\ StateOk(browser', kept, subs, version, unpublished, down)
    <3>1. CASE lost = NoOff
      <4>1. listing.alive /\ listing.off = NoOff /\ kept = off
        BY <2>2, <3>1
      <4>2. StateOk(b, [path |-> p, id |-> RegisteredId(c, p)], subs, version, unpublished, down)
        <5>1. StateOk(c, NoOff, subs, version, unpublished, down)
          BY <1>3, <4>1
        <5> HIDE DEF p
        <5> QED
          BY <1>2, <2>1, <5>1, ListenOk
      <4> QED
        BY <1>1, <1>7, <2>1, <3>1, <4>1, <4>2
    <3>2. CASE lost # NoOff
      <4> DEFINE d == [b EXCEPT !.leaked[lost.path] = @ + 1]
      <4>1. browser' = d
        BY <1>1, <1>7, <3>2
      <4>2. \/ lost = listing.off /\ listing.off # NoOff /\ kept = off
            \/ lost = off /\ kept = listing.off
        BY <1>2, <3>2
      <4> HIDE DEF lost, kept, p
      <4>3. StateOk(d, kept, subs, version, unpublished, down)
        BY <1>2, <1>3, <2>1, <4>2, ListenAndLose
      <4> QED
        BY <4>1, <4>3
    <3> QED
      BY <3>1, <3>2
  <2>4. kept \in Offs
    BY <2>3 DEF StateOk, BrowserOk
  <2>5. Lacking(call) \in BOOLEAN
    BY DEF Lacking
  <2>6. ~listing.alive => kept = NoOff
    OBVIOUS
  <2>7. /\ listing' = [listing EXCEPT !.shown = [path |-> p, ver |-> call.ver],
                                      !.missed = listing.missed \/ Lacking(call),
                                      !.off = kept]
    BY <1>1, <1>7
  <2> HIDE DEF kept, call, lost
  <2>8. /\ listing' \in Watching /\ listing'.off = kept /\ listing'.path = listing.path
        /\ listing'.alive = listing.alive
        /\ listing'.missed = (listing.missed \/ Lacking(call))
        /\ listing'.shown = [path |-> p, ver |-> call.ver]
    BY <1>2, <2>1, <2>4, <2>5, <2>7 DEF Watching
  <2>9. ListingFollows(browser', listing', version, unpublished, down)
    <3>1. CASE Lacking(call)
      BY <2>8, <3>1 DEF ListingFollows
    <3>2. CASE ~Lacking(call)
      <4>1. /\ p = listing.path
            /\ \/ call.ver = version[listing.path]
               \/ listing.path \in unpublished \/ down[listing.path] # 0
        BY <1>2, <1>3, <3>2, ShownIsNew
      <4>2. CASE listing.path \in unpublished \/ down[listing.path] # 0
        <5>1. listing.path \in unpublished \/ down[listing.path] > 0
          BY <1>2, <1>4, <4>2
        <5> QED
          BY <2>8, <5>1 DEF ListingFollows
      <4>3. CASE call.ver = version[listing.path]
        <5>1. listing'.shown = [path |-> listing'.path, ver |-> version[listing'.path]]
          BY <2>8, <4>1, <4>3
        <5> QED
          BY <5>1 DEF ListingFollows
      <4> QED
        BY <4>1, <4>2, <4>3
    <3> QED
      BY <3>1, <3>2
  <2>10. browser' \in Browser
    BY <2>3 DEF StateOk, BrowserOk
  <2> QED
    BY <1>1, <1>4, <2>3, <2>6, <2>8, <2>9, <2>10 DEF Inv, TypeOK
<1> QED
  BY <1>6, <1>7

\* -------------------------------------------------------------------- theorems
\* At first nothing is registered, asked for or shown.
LEMMA Starts == Init => Inv
<1> SUFFICES ASSUME Init
             PROVE  Inv
  OBVIOUS
<1>1. /\ browser.readyState = "connecting" /\ browser.connected = FALSE
      /\ browser.registrations = [p \in Path |-> 0]
      /\ browser.handlers = [p \in Path |-> <<>>]
      /\ browser.up = [p \in Path |-> <<>>]
      /\ browser.visiting = <<>>
      /\ browser.cache = [p \in Path |-> NoEntry]
      /\ browser.requests = [i \in RequestIds |-> NoRequest]
      /\ browser.soon = <<>> /\ browser.thrown = FALSE
      /\ browser.leaked = [p \in Path |-> 0]
      /\ listing.path = NoPath /\ listing.alive /\ listing.off = NoOff
      /\ listing.missed = FALSE
      /\ subs = {} /\ unpublished = {}
      /\ version = [p \in Path |-> 1] /\ down = [p \in Path |-> 0]
  BY DEF Init
<1>2. browser \in Browser
  <2>1. /\ [p \in Path |-> 0] \in [Path -> Nat]
        /\ [p \in Path |-> <<>>] \in [Path -> Seq(Handler)]
        /\ [p \in Path |-> <<>>] \in [Path -> Seq({"subscribe", "unsubscribe"})]
        /\ [p \in Path |-> NoEntry] \in [Path -> Entry]
        /\ [i \in RequestIds |-> NoRequest] \in [RequestIds -> Request]
        /\ <<>> \in Seq(Turn) /\ <<>> \in Seq(Callback)
    BY EntryTypes, RequestTypes
  <2> QED
    BY <2>1 DEF Init, Browser
<1>3. listing \in Watching
  BY OffTypes DEF Init, Watching, NoList, NoVersion
<1>4. TypeOK
  BY <1>1, <1>2, <1>3 DEF TypeOK
<1>5. \A p \in Path : /\ browser.registrations[p] = 0 /\ browser.handlers[p] = <<>>
                      /\ browser.up[p] = <<>> /\ browser.cache[p] = NoEntry
                      /\ browser.leaked[p] = 0
  BY <1>1
<1>6. ASSUME NEW p \in Path
      PROVE  PathOk(browser, listing.off, subs, p)
  <2>1. ~IsCached(browser, p) /\ DOMAIN browser.handlers[p] = {} /\ listing.off.path # p
        /\ Len(browser.handlers[p]) = 0
    BY <1>1, <1>5, EntryTypes, OffTypes DEF IsCached
  <2>2. RegisteredAt(browser, subs, p)
    BY <1>1, <1>5, <2>1 DEF RegisteredAt, HandlersAt, FramesAt, TurnsAt
  <2>3. CountAt(browser, listing.off, p) /\ ListingAt(browser, listing.off, p)
    BY <1>5, <2>1 DEF CountAt, ListingAt
  <2>4. EntryAt(browser, p) /\ AwaitsAt(browser, p)
    BY <1>5, <2>1, EntryTypes DEF EntryAt, AwaitsAt
  <2> QED
    BY <2>2, <2>3, <2>4 DEF PathOk
<1>7. BrowserOk(browser, listing.off, subs)
  BY <1>1, <1>2, <1>6, OffTypes DEF BrowserOk
<1>8. Linked(browser)
  BY <1>5, EntryTypes DEF Linked, IsCached
<1>9. ASSUME NEW p \in Path
      PROVE  /\ KnownAt(browser, version, p)
             /\ FreshAt(browser, version, unpublished, down, p)
  BY <1>5, EntryTypes DEF KnownAt, FreshAt, OldAt
<1>10. Known(browser, version)
  <2>1. \A i \in RequestIds : browser.requests[i].state # "read"
    BY <1>1, RequestTypes
  <2>2. DOMAIN browser.soon = {}
    BY <1>1
  <2> QED
    BY <1>9, <2>1, <2>2 DEF Known
<1>11. ListingFollows(browser, listing, version, unpublished, down) /\ Untouched(browser)
  BY <1>1, <1>5 DEF ListingFollows, Untouched
<1> QED
  BY <1>1, <1>4, <1>7, <1>8, <1>9, <1>10, <1>11 DEF Inv, StateOk

\* Every step keeps what is right.
LEMMA Steps == Inv /\ [Next]_vars => Inv'
<1> SUFFICES ASSUME Inv, [Next]_vars
             PROVE  Inv'
  OBVIOUS
<1>1. CASE UNCHANGED vars
  BY <1>1 DEF vars, Inv, TypeOK
<1>2. CASE Visit
  BY <1>2, VisitStep
<1>3. CASE ThenShow
  BY <1>3, ThenShowStep
<1>4. CASE ThenRegister
  BY <1>4, ThenRegisterStep
<1>5. ASSUME NEW p \in Path, Server(p) \/ Age(p) \/ MakeRoom(p)
      PROVE  Inv'
  BY <1>5, OthersCommitStep, PublishStep, LoseStep, SubscribeStep, AgeStep, MakeRoomStep
     DEF Server
<1>6. CASE Socket
  BY <1>6, OpenStep, BeginCloseStep, CloseStep, DeliverStep DEF Socket
<1>7. CASE Requests
  BY <1>7, AnswerStep, ResponseStep, NoResponseStep DEF Requests
<1>8. CASE Listing
  BY <1>8, WatchStep, UpdateStep, LeaveStep DEF Listing
<1> QED
  BY <1>1, <1>2, <1>3, <1>4, <1>5, <1>6, <1>7, <1>8 DEF Next

\* The state is always right.
LEMMA AlwaysRight == Spec => []Inv
<1> QED
  BY Starts, Steps, PTL DEF Spec

\* Every variable of the browser, the listing and the server keeps its type.
THEOREM TypeIsCorrect == Spec => []TypeOK
<1>1. Inv => TypeOK
  BY DEF Inv
<1> QED
  BY <1>1, AlwaysRight, PTL

\* While the connection is up, what an entry holds of its own request is not old unless
\* the browser is about to be told, or was never told (HttpCache's entries, invalidated by
\* the events their registrations bring).
THEOREM StaleAlwaysAnnounced == Spec => []StaleIsAnnounced
<1>1. Inv => StaleIsAnnounced
  <2> SUFFICES ASSUME Inv, NEW p \in Path, Stale(p), ~browser.cache[p].promise.forced,
                      browser.readyState = "open"
               PROVE  \/ p \in unpublished \/ down[p] > 0
                      \/ \E k \in DOMAIN browser.visiting : browser.visiting[k].path = p
                      \/ browser.cache[p].unheard
    BY DEF StaleIsAnnounced
  <2>1. FreshAt(browser, version, unpublished, down, p)
    BY DEF Inv, StateOk
  <2>2. OldAt(browser, version, p)
    BY DEF Stale, OldAt
  <2> QED
    BY <2>1, <2>2 DEF FreshAt, AnnouncedAt
<1> QED
  BY <1>1, AlwaysRight, PTL

\* Every registration of the websocket service is that of an entry, of the listing, or one
\* that nobody can end any more; each has its handler, and none is ended twice.
THEOREM RegistrationsAlwaysAccounted == Spec => []RegistrationsAccounted
<1>1. Inv => RegistrationsAccounted
  <2> SUFFICES ASSUME Inv
               PROVE  RegistrationsAccounted
    OBVIOUS
  <2>1. ~browser.thrown /\ \A p \in Path : PathOk(browser, listing.off, subs, p)
    BY DEF Inv, StateOk, BrowserOk
  <2>2. ASSUME NEW p \in Path
        PROVE  /\ browser.registrations[p] = Len(browser.handlers[p])
               /\ browser.registrations[p] = browser.leaked[p]
                    + (IF IsCached(browser, p) THEN 1 ELSE 0)
                    + (IF listing.off.path = p THEN 1 ELSE 0)
               /\ IsCached(browser, p) => Handles(browser, p, browser.cache[p].off)
    <3>1. PathOk(browser, listing.off, subs, p)
      BY <2>1
    <3>2. IsCached(browser, p) => Handles(browser, p, browser.cache[p].off)
      BY <3>1 DEF PathOk, EntryAt, Has, Handles
    <3> QED
      BY <3>1, <3>2 DEF PathOk, RegisteredAt, HandlersAt, CountAt
  <2> QED
    BY <2>1, <2>2 DEF RegistrationsAccounted
<1> QED
  BY <1>1, AlwaysRight, PTL

\* Once the server has handled what was sent, it has exactly the subscriptions of the paths
\* that are registered; there are entries only while the service is connected.
THEOREM SubscriptionsAlwaysFollow == Spec => []SubscriptionsFollow
<1>1. Inv => SubscriptionsFollow
  <2> SUFFICES ASSUME Inv
               PROVE  SubscriptionsFollow
    OBVIOUS
  <2>1. \A p \in Path : FramesAt(browser, subs, p)
    BY DEF Inv, StateOk, BrowserOk, PathOk, RegisteredAt
  <2>2. ~browser.connected => \A p \in Path : ~IsCached(browser, p)
    BY DEF Inv, StateOk, Linked
  <2> QED
    BY <2>1, <2>2 DEF SubscriptionsFollow, FramesAt
<1> QED
  BY <1>1, AlwaysRight, PTL

\* When nothing is under way, a listing that watches its pool and was told of its last
\* change shows the pool as it is.
THEOREM ListingAlwaysFollows == Spec => []ListingFollowsEvents
<1>1. Inv => ListingFollowsEvents
  <2> SUFFICES ASSUME Inv, browser.readyState = "open", Quiet, unpublished = {},
                      \A i \in RequestIds : browser.requests[i] = NoRequest,
                      listing.alive, listing.off.path = listing.path, ~listing.missed,
                      listing.path \in subs, down[listing.path] = 0
               PROVE  listing.shown = [path |-> listing.path, ver |-> version[listing.path]]
    BY DEF ListingFollowsEvents
  <2>1. listing.path # NoPath
    BY LiveAssumption DEF Inv, TypeOK
  <2>2. ~Coming(browser)
    BY DEF Coming, Quiet
  <2>3. DOMAIN browser.visiting = {}
    BY DEF Quiet
  <2>4. ListingFollows(browser, listing, version, unpublished, down)
    BY DEF Inv
  <2> QED
    BY <2>1, <2>2, <2>3, <2>4 DEF ListingFollows
<1> QED
  BY <1>1, AlwaysRight, PTL
===============================================================================
