----------------------------- MODULE Subscriptions -----------------------------
(***************************************************************************)
(* What the websocket server promises its clients, without the tables it   *)
(* keeps: there is one relation `subs` between clients and resources; a    *)
(* request changes it for one pair and is answered; a notification reaches *)
(* exactly the subscribers; the end of a connection and the removal of a   *)
(* resource cut the pairs they are about.  WebsocketServer is shown to     *)
(* implement this.                                                         *)
(***************************************************************************)
EXTENDS ServerFrames

VARIABLES subs,     \* the pairs <<client, resource>> of current subscriptions
          sent      \* sent[c]: the frames sent to client c in the last step

Init ==
    /\ subs = {}
    /\ sent = Silence

\* The answer to a request: its confirmation, or an error in its place.
Answer(c, status, action, r) ==
    sent' \in {SendTo({c}, StatusFrame(status, action, r)), SendTo({c}, ErrorFrame)}

Subscribe(c, r) ==
    /\ subs' = subs \cup {<<c, r>>}
    /\ Answer(c, IF <<c, r>> \in subs THEN "redundant" ELSE "ok", "subscribe", r)

Unsubscribe(c, r) ==
    /\ subs' = subs \ {<<c, r>>}
    /\ Answer(c, IF <<c, r>> \in subs THEN "ok" ELSE "redundant", "unsubscribe", r)

\* A message that is refused, or a notification that names nothing.
Refuse(c) ==
    /\ sent' = SendTo({c}, ErrorFrame)
    /\ UNCHANGED subs

Close(c) ==
    /\ subs' = {s \in subs : s[1] # c}
    /\ sent' = Silence

\* A connection opens, or the database changes: nobody hears of it yet.
Quiet ==
    /\ UNCHANGED subs
    /\ sent' = Silence

\* The subscriptions an event about r leaves, and whom it concerns: the
\* subscribers of r, then, of those that are left, the subscribers of its parent.
Remaining(event, r) ==
    IF event = "removed" THEN {s \in subs : s[2] # r} ELSE subs
OwnAudience(event, r) ==
    IF event = "created" THEN {} ELSE {c \in Client : <<c, r>> \in subs}
ParentAudience(event, r) ==
    IF event = "changed_descendants" THEN {}
    ELSE {c \in Client : <<c, ParentPath(r)>> \in Remaining(event, r)}

\* Every subscriber of r, then every subscriber of its parent, is sent its frame.
Publish(event, r) ==
    /\ sent' = Followed(SendTo(OwnAudience(event, r), OwnFrame(event, r)),
                        SendTo(ParentAudience(event, r), ParentFrame(event, r)))
    /\ subs' = Remaining(event, r)

\* An exception cuts the dispatch short and is reported to the notifier b: the
\* parent's subscribers hear only of what all subscribers of r were told, and no
\* subscription ends before its client has been told.
PublishPartly(b, event, r) ==
    \E own \in SUBSET OwnAudience(event, r), above \in SUBSET ParentAudience(event, r) :
        /\ sent' = Followed(Followed(SendTo(own, OwnFrame(event, r)),
                                     SendTo(above, ParentFrame(event, r))),
                            SendTo({b}, ErrorFrame))
        /\ IF own = OwnAudience(event, r) THEN subs' \in {subs, Remaining(event, r)}
                                          ELSE subs' = subs /\ above = {}

Next ==
    \/ Quiet
    \/ \E c \in Client : Close(c) \/ Refuse(c)
    \/ \E c \in Client, r \in Resource : Subscribe(c, r) \/ Unsubscribe(c, r)
    \/ \E event \in ServerEvent, r \in Resource :
          Publish(event, r) \/ \E b \in Client : PublishPartly(b, event, r)

Spec == Init /\ [][Next]_<<subs, sent>>
===============================================================================
