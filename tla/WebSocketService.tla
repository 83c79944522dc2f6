--------------------------- MODULE WebSocketService ---------------------------
(***************************************************************************)
(* The browser's websocket service: a count of registrations for each      *)
(* path, of which the server hears the first and the last, and the         *)
(* callbacks, in an event manager.  A method is an operator from the state *)
(* `b` of the browser (a record, see LiveUpdate) to the next one.  Frames  *)
(* about different paths do not meet, so `b.up` has one queue per path.    *)
(***************************************************************************)
EXTENDS Naturals, Sequences, FiniteSets, SequencesExt

CONSTANT Path           \* the resources a browser asks for

\* ------------------------------------------------------------ event manager
\* Handlers of a path in the order of their ids, the order of trigger's loop.
\* An id is used again only when nobody holds it any more, the loop included.
FreeId(b, p) ==
    CHOOSE i \in 1..(Len(b.handlers[p]) + Len(b.visiting) + 1) :
        /\ \A k \in DOMAIN b.handlers[p] : b.handlers[p][k].id # i
        /\ \A k \in DOMAIN b.visiting : b.visiting[k].id # i
On(b, p, owner) ==
    [b EXCEPT !.handlers[p] = Append(@, [id |-> FreeId(b, p), owner |-> owner])]
Handles(b, p, id) == \E k \in DOMAIN b.handlers[p] : b.handlers[p][k].id = id
Place(b, p, id) == CHOOSE k \in DOMAIN b.handlers[p] : b.handlers[p][k].id = id
Off(b, p, id) ==
    IF Handles(b, p, id) THEN [b EXCEPT !.handlers[p] = RemoveAt(@, Place(b, p, id))]
    ELSE b

\* The loop will visit what is there now, unless it is gone when its turn comes;
\* what a callback adds is not visited.
Trigger(b, p) ==
    [b EXCEPT !.visiting = [k \in DOMAIN b.handlers[p] |->
        [path |-> p, id |-> b.handlers[p][k].id, owner |-> b.handlers[p][k].owner]]]
Visited(b) == [b EXCEPT !.visiting = Tail(@)]

\* -------------------------------------------------------------- registering
Send(b, action, p) ==
    IF b.readyState = "open" THEN [b EXCEPT !.up[p] = Append(@, action)] ELSE b

Register(b, p, owner) ==
    LET counted == [b EXCEPT !.registrations[p] = @ + 1]
    IN  On(IF b.registrations[p] = 0 THEN Send(counted, "subscribe", p) ELSE counted, p, owner)

\* The id by which Register(b, p, _) can be undone.
RegisteredId(b, p) == FreeId(b, p)

\* The function that `register` returns.
Unregister(b, p, id) ==
    IF b.registrations[p] = 0 THEN [b EXCEPT !.thrown = TRUE]
    ELSE LET left == [Off(b, p, id) EXCEPT !.registrations[p] = @ - 1]
         IN  IF left.registrations[p] = 0 THEN Send(left, "unsubscribe", p) ELSE left

\* ------------------------------------------------------- the socket's events
\* Mutant: what was registered before the connection is not sent.
OnOpenForgetful(b) == [b EXCEPT !.readyState = "open", !.connected = TRUE]

OnOpen(b) ==
    LET opened == [b EXCEPT !.readyState = "open", !.connected = TRUE]
    IN  [opened EXCEPT !.up = [p \in Path |->
            IF b.registrations[p] > 0 THEN Append(@[p], "subscribe") ELSE @[p]]]

\* The other side begins to close: nothing can be sent any more, but the
\* service hears of it with the close event only.
Closing(b) == [b EXCEPT !.readyState = "closing"]

OnClose(b) ==
    [b EXCEPT !.readyState = "closed", !.connected = FALSE, !.up = [p \in Path |-> <<>>]]
===============================================================================
