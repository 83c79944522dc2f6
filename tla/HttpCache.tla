------------------------------- MODULE HttpCache -------------------------------
(***************************************************************************)
(* The browser's cache of responses.  An entry registers for the events of *)
(* its path when it is made, before the answer is there, and is dropped by *)
(* an event, by a write of this browser, by age, or to make room.  What it *)
(* holds is a promise: of a request under way, or of a value or a failure. *)
(* One promise stands for the queries of one path.                         *)
(***************************************************************************)
EXTENDS WebSocketService

CONSTANTS Parent,       \* the parent of each path, which need not be a Path
          RequestIds    \* requests under way

NoPromise == [state |-> "none"]
Pending(id) == [state |-> "pending", request |-> id]
\* forced: put there by the answer to another request.
Settled(ver, forced) == [state |-> "ok", ver |-> ver, forced |-> forced]
Failed == [state |-> "failed"]

NoEntry == [off |-> 0, promise |-> NoPromise, unheard |-> FALSE]
IsCached(b, p) == b.cache[p].off # 0

\* Mutant: wsOff is not called.
InvalidateOnly(b, p) == [b EXCEPT !.cache[p] = NoEntry]

\* The callback of an entry, and of every writing request.
Invalidate(b, p) ==
    IF IsCached(b, p)
    THEN [Unregister(b, p, b.cache[p].off) EXCEPT !.cache[p] = NoEntry]
    ELSE b

\* The loops over several paths: each[p] is the state after p's turn alone.  What
\* the turn of one path changes, that of another neither reads nor writes.
Together(b, each) ==
    [b EXCEPT !.registrations = [p \in Path |-> each[p].registrations[p]],
              !.handlers = [p \in Path |-> each[p].handlers[p]],
              !.up = [p \in Path |-> each[p].up[p]],
              !.cache = [p \in Path |-> each[p].cache[p]],
              !.thrown = \E p \in Path : each[p].thrown]

InvalidateAll(b) == Together(b, [p \in Path |-> Invalidate(b, p)])

\* Mutant: the promise outlives the registration.
ExpireRegistration(b, p) ==
    [Unregister(b, p, b.cache[p].off) EXCEPT !.cache[p] = [NoEntry EXCEPT !.promise = b.cache[p].promise]]

\* maxAge has passed: the entry goes, and onExpire ends its registration.
Expire(b, p) == [Unregister(b, p, b.cache[p].off) EXCEPT !.cache[p] = NoEntry]

\* The cache is full: the entry goes, its registration and callback stay.
Evict(b, p) == [b EXCEPT !.cache[p] = NoEntry]

GetOrSetCached(b, p) ==
    IF IsCached(b, p) THEN b
    ELSE [Register(b, p, "cache") EXCEPT
             !.cache[p] = [NoEntry EXCEPT !.off = RegisteredId(b, p)]]

Hit(b, p) == b.connected /\ b.cache[p].promise # NoPromise

\* Before request `id` is made for p: remember its promise.
Memoize(b, p, id) ==
    IF b.connected
    THEN [GetOrSetCached(b, p) EXCEPT !.cache[p].promise = Pending(id)]
    ELSE b

PutCached(b, p, ver) ==
    IF b.connected
    THEN [GetOrSetCached(b, p) EXCEPT !.cache[p].promise = Settled(ver, TRUE)]
    ELSE b
===============================================================================
