----------------------------- MODULE ServerFrames -----------------------------
(***************************************************************************)
(* The frames the websocket server sends (websockets/schemas.py), and the  *)
(* value a step leaves in `sent`: for every client the sequence of frames  *)
(* the step sent to it.                                                    *)
(***************************************************************************)
EXTENDS Sequences, ResourceTree

CONSTANTS Client,   \* websocket peers
          Version   \* the resources that provide IItemVersion

ASSUME VersionAssumption == Version \subseteq NonRoot

\* The events the backend notifies the server of.
ServerEvent == {"created", "modified", "removed", "changed_descendants"}

StatusFrame(status, action, r) ==
    [kind |-> "status", status |-> status, action |-> action, resource |-> r]

ErrorFrame == [kind |-> "error"]

EventFrame(event, r) == [kind |-> "event", event |-> event, resource |-> r]

ChildFrame(event, parent, r) ==
    [kind |-> "event", event |-> event, resource |-> parent, child |-> r]

\* Nothing is sent; each client of S is sent f; first f's frames, then g's.
Silence == [c \in Client |-> <<>>]
SendTo(S, f) == [c \in Client |-> IF c \in S THEN <<f>> ELSE <<>>]
Followed(f, g) == [c \in Client |-> f[c] \o g[c]]

\* The path under which subscribers of r.__parent__ are looked up, and how that
\* parent is written in a frame.  The root's parent is None: resource_path(None)
\* is "/" and the schema serialises None as the empty string.
ParentPath(r) == IF r = Root THEN Root ELSE Parent[r]
ParentRef(r) == IF r = Root THEN "" ELSE Parent[r]

\* The frame for the subscribers of r itself, and for those of its parent.
OwnFrame(event, r) == EventFrame(event, r)
ParentFrame(event, r) ==
    ChildFrame(CASE event = "modified" -> "modified_child"
                 [] event = "removed" -> "removed_child"
                 [] OTHER -> IF r \in Version THEN "new_version" ELSE "new_child",
               ParentRef(r), r)
===============================================================================
