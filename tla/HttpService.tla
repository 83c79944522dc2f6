------------------------------ MODULE HttpService ------------------------------
(***************************************************************************)
(* The browser's requests.  A GET goes through the cache: callers of the   *)
(* same path share a promise, and a promise that is settled already calls  *)
(* back a little later (`soon`).  An answer to a pool brings its elements, *)
(* which are forced into the cache.  A request that failed leaves its      *)
(* failure there.                                                          *)
(***************************************************************************)
EXTENDS HttpCache

CONSTANT NoPath

NoVersion == 0          \* the "version" of a failure
NoRequest == [state |-> "none"]
Idle(b) == {i \in RequestIds : b.requests[i] = NoRequest}
Children(p) == {q \in Path : Parent[q] = p}

Call(k, p, ver) == [then |-> k, path |-> p, ver |-> ver]
Calls(thens, p, ver) == [j \in DOMAIN thens |-> Call(thens[j], p, ver)]

\* Callers of a promise, in the order they came.  To show twice what one answer
\* brought is to show it once.
Then(thens, k) == IF k = "show" /\ k \in Range(thens) THEN thens ELSE Append(thens, k)

Await(b, p, k) ==
    LET promise == b.cache[p].promise
    IN  CASE promise.state = "pending" ->
               [b EXCEPT !.requests[promise.request].then = Then(@, k)]
          [] promise.state = "ok" -> [b EXCEPT !.soon = Append(@, Call(k, p, promise.ver))]
          [] OTHER -> [b EXCEPT !.soon = Append(@, Call(k, p, NoVersion))]

\* get: needs an idle request when there is nothing to wait for.
Get(b, p, k) ==
    IF Hit(b, p) THEN Await(b, p, k)
    ELSE LET id == CHOOSE i \in Idle(b) : TRUE
         IN  [Memoize(b, p, id) EXCEPT
                 !.requests[id] = [state |-> "sent", path |-> p, then |-> <<k>>]]

\* The server reads the resource, and the elements of a pool.
Answered(b, id, version) ==
    [b EXCEPT !.requests[id] = [state |-> "read", path |-> @.path, then |-> @.then,
                                ver |-> [q \in {@.path} \cup Children(@.path) |-> version[q]]]]

\* Mutant: the answer is stored whatever became of the entry.
SettleAnyway(b, id, promise, ver) ==
    LET r == b.requests[id]
    IN  [b EXCEPT !.requests[id] = NoRequest, !.cache[r.path].promise = promise,
                  !.soon = @ \o Calls(r.then, r.path, ver)]

Settle(b, id, promise, ver) ==
    LET r == b.requests[id]
    IN  [b EXCEPT !.requests[id] = NoRequest,
                  !.cache[r.path].promise = IF @ = Pending(id) THEN promise ELSE @,
                  !.soon = @ \o Calls(r.then, r.path, ver)]

\* importResource, with warmupPoolCache for pools.
Import(b, r) ==
    Together(b, [q \in Path |-> IF q \in Children(r.path) THEN PutCached(b, q, r.ver[q]) ELSE b])

Receive(b, id) ==
    LET r == b.requests[id]
    IN  Settle(Import(b, r), id, Settled(r.ver[r.path], FALSE), r.ver[r.path])

Fail(b, id) == Settle(b, id, Failed, NoVersion)
================================================================================
