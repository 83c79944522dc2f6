------------------------------- MODULE Changelog -------------------------------
(***************************************************************************)
(* The transaction changelog of one backend process (registry.changelog):  *)
(* what the handlers of a request record in it, the counters and dates the *)
(* ETag header is built from, and what the after-commit hooks tell the     *)
(* caching proxy and the websocket server.                                 *)
(*                                                                         *)
(* A backend process serves one request at a time.  A request opens a      *)
(* transaction, runs operations (several in a batch), and commits or       *)
(* aborts; after a commit the notification hook reads the changelog; a     *)
(* finished callback clears it.  The changelog is keyed by path and kept   *)
(* in memory: an abort rolls the database back, but only the finished      *)
(* callback empties the changelog.                                         *)
(*                                                                         *)
(* Fields of the metadata are sets of paths here: log.modified holds the   *)
(* paths whose metadata has `modified`.  metadata.resource is an object,   *)
(* which keeps its parents when it is removed from the tree, but for the   *)
(* one that was cut off: top[r] is where the lineage of the metadata's     *)
(* resource ends.  That is the root, for a resource in the tree.           *)
(***************************************************************************)
EXTENDS Naturals, FiniteSets, ResourceTree

CONSTANTS Item,       \* the places of items, which come with a first version
          First,      \* First[i]: the place of item i's first version
          Elsewhere,  \* a path that was computed below a removed resource
          None,       \* no resource
          MaxOps,     \* bound: operations in one transaction
          MaxTxn,     \* bound: transactions
          MaxRefs     \* bound: references in the database

ASSUME ChangelogAssumption ==
    /\ Elsewhere \notin Resource /\ None \notin Resource
    /\ Item \subseteq NonRoot
    /\ First \in [Item -> NonRoot \ Item]
    /\ \A i \in Item : Parent[First[i]] = i
    /\ MaxOps \in Nat /\ MaxTxn \in Nat /\ MaxRefs \in Nat

VARIABLES db,        \* the database as this transaction sees it
          saved,     \* the database when the transaction began
          log,       \* registry.changelog
          top,       \* see above
          phase,     \* of the request
          notices,   \* what the websocket server was sent
          txn, ops,  \* number of the transaction, operations in it
          changed    \* history: resources whose own representation changed

vars == <<db, saved, log, top, phase, notices, txn, ops, changed>>

Phase == {"idle", "open", "committed", "notified"}
Visibility == {"visible", "concealed", "revealed"}

\* The database: the tree, the references from sheets, and of every resource the
\* fields its ETag is built from.
Database == [exists : SUBSET Resource,
             hidden : SUBSET Resource,
             refs : SUBSET (Resource \X Resource),
             date : [Resource -> Nat],
             backrefs : [Resource -> Nat],
             descendants : [Resource -> Nat]]

\* modified_appstructs and autoupdated: they tell the server nothing, but writing a
\* new value to them refreshes the metadata's resource.
ChangelogMetadata == [modified_appstructs : SUBSET Resource,
                      autoupdated : SUBSET Resource,
                      created : SUBSET Resource,
                      modified : SUBSET Resource,
                      changed_backrefs : SUBSET Resource,
                      changed_descendants : SUBSET Resource,
                      visibility : [Resource -> Visibility]]

BlankLog == [modified_appstructs |-> {}, autoupdated |-> {},
             created |-> {}, modified |-> {}, changed_backrefs |-> {},
             changed_descendants |-> {},
             visibility |-> [r \in Resource |-> "visible"]]

-------------------------------------------------------------------------------
\* Marking resources in the changelog.

\* Mutant of Climb: the parent only.
ClimbOnce(r) == IF r = Root THEN {} ELSE {Parent[r]} \ log.changed_descendants

\* The ancestors _add_changed_descendants_to_all_parents marks: it climbs from the
\* parent of r and stops at the first ancestor that is marked already.
Climb(r) ==
    {a \in Ancestors(r) :
        \A b \in Ancestors(r) : a \in Lineage(b) => b \notin log.changed_descendants}

Climbed(S) == UNION {Climb(r) : r \in S}

\* The changelog after modified sheets or ACLs of M and changed back references of B.
Marked(M, B) ==
    [log EXCEPT !.modified = @ \cup M,
                !.changed_backrefs = @ \cup B,
                !.changed_descendants = @ \cup Climbed(M \cup B)]

\* A sheet of r was modified: by a request, or by the backend itself.
SheetModified(l, r) == [l EXCEPT !.modified_appstructs = @ \cup {r},
                                 !.autoupdated = @ \ {r}]
SheetAutoupdated(l, r) == [l EXCEPT !.modified_appstructs = @ \cup {r},
                                    !.autoupdated = @ \cup {r}]

\* r was created, and the pool above it modified by that.
Created(l, r) == [l EXCEPT !.created = @ \cup {r},
                           !.modified = @ \cup {Parent[r]},
                           !.autoupdated = (@ \cup {Parent[r]}) \ {r}]

\* What the changelog l has for path r; _add_changelog replaces the resource when it
\* replaces a value by a different one.
Entry(l, r) == <<r \in l.modified_appstructs, r \in l.autoupdated, r \in l.created,
                 r \in l.modified, r \in l.changed_backrefs,
                 r \in l.changed_descendants, l.visibility[r]>>
Refreshed(l) == [r \in Resource |-> IF Entry(l, r) # Entry(log, r) THEN Root ELSE top[r]]

\* The counters: incremented where a mark is new.
Increment(count, S) == [r \in Resource |-> IF r \in S THEN count[r] + 1 ELSE count[r]]

\* Mutant of Counted: the counters grow with every change below a resource.
CountedAlways(d, M, B) ==
    [d EXCEPT !.descendants = Increment(@, UNION {Ancestors(r) : r \in M \cup B}),
              !.backrefs = Increment(@, B \ log.changed_backrefs)]

Counted(d, M, B) ==
    [d EXCEPT !.descendants = Increment(@, Climbed(M \cup B)),
              !.backrefs = Increment(@, B \ log.changed_backrefs)]

\* update_modification_date_modified_by
Dated(d, S) == [d EXCEPT !.date = [r \in Resource |-> IF r \in S THEN txn ELSE @[r]]]

-------------------------------------------------------------------------------
\* What a resource's GET response is tagged with (HTTPCacheStrategyWeakAdapter).

IsHidden(d, r) == Lineage(r) \cap d.hidden # {}

ETag(d, r) == <<d.backrefs[r], d.descendants[r], d.date[r], IsHidden(d, r)>>

-------------------------------------------------------------------------------
\* The requests of the process, one after the other.

\* The LAST and FIRST tags of the items: references to their first version.
Tags == {<<i, First[i]>> : i \in Item}

Init ==
    /\ \E E \in SUBSET Resource :
          /\ Root \in E /\ ParentClosed(E)
          /\ \A i \in Item \cap E : First[i] \in E
          /\ db = [exists |-> E, hidden |-> {}, refs |-> {t \in Tags : t[1] \in E},
                   date |-> [r \in Resource |-> 0],
                   backrefs |-> [r \in Resource |-> 0],
                   descendants |-> [r \in Resource |-> 0]]
    /\ saved = db
    /\ log = BlankLog
    /\ top = [r \in Resource |-> Root]
    /\ phase = "idle"
    /\ notices = {}
    /\ txn = 0 /\ ops = 0
    /\ changed = {}

Begin ==
    /\ phase = "idle" /\ txn < MaxTxn
    /\ phase' = "open"
    /\ saved' = db
    /\ txn' = txn + 1
    /\ ops' = 0
    /\ UNCHANGED <<db, log, top, notices, changed>>

\* The frame of an operation: it happens in the open transaction.
Operation ==
    /\ phase = "open" /\ ops < MaxOps
    /\ ops' = ops + 1
    /\ UNCHANGED <<saved, phase, notices, txn>>

\* A sheet of r is set (PUT): sheet.set sends its event whatever the new values are.
Modify(r) ==
    /\ Operation
    /\ r \in db.exists
    /\ log' = SheetModified(Marked({r}, {}), r)
    /\ db' = Dated(Counted(db, {r}, {}), {r})
    /\ changed' = changed \cup {r}
    /\ top' = Refreshed(log')

\* The permissions of r are set (a workflow transition, local roles).
ModifyAcl(r) ==
    /\ Operation
    /\ r \in db.exists
    /\ log' = Marked({r}, {})
    /\ db' = Counted(db, {r}, {})
    /\ top' = Refreshed(log')
    /\ UNCHANGED changed

\* A sheet of s is set that adds or removes a reference to t: the graph tells t first.
SetReference(s, t) ==
    /\ Operation
    /\ s \in db.exists /\ t \in db.exists /\ <<s, t>> \notin Tags
    /\ LET refs == IF <<s, t>> \in db.refs THEN db.refs \ {<<s, t>>}
                                           ELSE db.refs \cup {<<s, t>>}
       IN  /\ Cardinality(refs \ Tags) <= MaxRefs
           /\ db' = [Dated(Counted(db, {s}, {t}), {s}) EXCEPT !.refs = refs]
    /\ log' = SheetModified(Marked({s}, {t}), s)
    /\ changed' = changed \cup {s, t}
    /\ top' = Refreshed(log')

\* d with new resources at the places of S.
Fresh(d, S) ==
    [d EXCEPT !.exists = @ \cup S, !.hidden = @ \ S,
              !.backrefs = [r \in Resource |-> IF r \in S THEN 0 ELSE @[r]],
              !.descendants = [r \in Resource |-> IF r \in S THEN 0 ELSE @[r]]]

\* A resource other than an item is created below a visible one (POST).  Its parent
\* gets `modified` without further marks; setting the creator's local role modifies
\* its ACL and so marks the pools above, but there is no such role for an anonymised
\* creator or none.
Create(r, withCreator) ==
    /\ Operation
    /\ r \notin Item \cup {First[i] : i \in Item}
    /\ r \notin db.exists /\ Parent[r] \in db.exists /\ ~IsHidden(db, Parent[r])
    /\ LET M == IF withCreator THEN {r} ELSE {}
       IN  /\ log' = Created(Marked(M, {}), r)
           /\ db' = Dated(Counted(Fresh(db, {r}), M, {}), {r})
           /\ changed' = changed \cup M
    /\ top' = Refreshed(log')

\* An item is created, and its first version with it.  The version's creation makes it
\* the LAST version, which sets the item's tags sheet and marks the version's back
\* references; announces it as the follower of no version, which writes to the
\* metadata of resource_path(None), the root's, that its resource is None; and ends
\* with `created`.  Then the tags are set again, and the item is created: if its
\* parent is the root, that names the root again.
CreateItem(i, withCreator) ==
    /\ Operation
    /\ i \notin db.exists /\ Parent[i] \in db.exists /\ ~IsHidden(db, Parent[i])
    /\ LET v == First[i]
           M == IF withCreator THEN {i, v} ELSE {i}
           untold == [SheetAutoupdated(Marked(M, {v}), i) EXCEPT !.autoupdated = @ \ {Root}]
       IN  /\ log' = Created(Created(untold, v), i)
           /\ db' = [Dated(Counted(Fresh(db, {i, v}), M, {v}), {i, v}) EXCEPT
                       !.refs = @ \cup {<<i, v>>}]
           /\ changed' = changed \cup {i, v}
    /\ top' = [Refreshed(log') EXCEPT ![i] = Root,
                                      ![Root] = IF Parent[i] = Root THEN Root ELSE None]

\* The references from r and what is below it, their targets.
SubtreeTargets(r) == {t \in Resource : \E s \in Subtree(r) : <<s, t>> \in db.refs}

\* get_visibility_change: the event's new appstruct has the fields that changed only,
\* and a missing `hidden` counts as visible.
VisibilityChange(wasHidden, newHidden) ==
    IF wasHidden THEN "revealed" ELSE IF newHidden THEN "concealed" ELSE "visible"

\* PUT of IMetadata with `hidden`.  References from the subtree are back references
\* that (dis)appear, so their targets are marked when the visibility changes.
SetHidden(r, newHidden) ==
    /\ Operation
    /\ r \in db.exists
    /\ LET v == VisibilityChange(r \in db.hidden, newHidden)
           B == IF v # log.visibility[r] /\ v # "visible" THEN SubtreeTargets(r) ELSE {}
       IN  /\ log' = [SheetModified(Marked({r}, B), r) EXCEPT !.visibility[r] = v]
           /\ db' = [Dated(Counted(db, {r}, B), {r}) EXCEPT
                       !.hidden = IF newHidden THEN @ \cup {r} ELSE @ \ {r}]
           /\ changed' = changed \cup {r} \cup B
    /\ top' = Refreshed(log')

\* The lineages that ended at the root, and passed r, end at r.
CutOff(t, r) == [x \in Resource |-> IF t[x] = Root /\ x \in Subtree(r) THEN r ELSE t[x]]

\* Mutant of Delete: the references from and to the subtree stay.
DeleteKeepingReferences(r) ==
    /\ Operation
    /\ r \in db.exists \ {Root}
    /\ log' = [Marked({}, SubtreeTargets(r)) EXCEPT !.visibility[r] = "concealed"]
    /\ db' = [Counted(db, {}, SubtreeTargets(r)) EXCEPT !.exists = @ \ Subtree(r)]
    /\ changed' = (changed \cup SubtreeTargets(r)) \ Subtree(r)
    /\ top' = CutOff(Refreshed(log'), r)

\* DELETE.  The targets of the subtree's references are marked before the removal
\* (unless r counts as concealed already), those of r's own references after it.
\* The resource loses its place; nothing marks the parent.
Delete(r) ==
    /\ Operation
    /\ r \in db.exists \ {Root}
    /\ LET own == {t \in Resource \ Subtree(r) : <<r, t>> \in db.refs}
           B == own \cup (IF log.visibility[r] # "concealed" THEN SubtreeTargets(r) ELSE {})
       IN  /\ log' = [Marked({}, B) EXCEPT !.visibility[r] = "concealed"]
           /\ db' = [Counted(db, {}, B) EXCEPT
                       !.exists = @ \ Subtree(r),
                       !.refs = {p \in @ : {p[1], p[2]} \cap Subtree(r) = {}}]
           /\ changed' = (changed \cup B) \ Subtree(r)
    /\ top' = CutOff(Refreshed(log'), r)

-------------------------------------------------------------------------------
\* The end of a request.

\* lineage(metadata.resource), for the metadata kept under path r.
HookLineage(r) == {a \in Lineage(r) : top[r] \in Lineage(a)}

\* Mutant of Events: changed_descendants as one more alternative.
EventsExclusive(r) ==
    LET created == r \in log.created \/ log.visibility[r] = "revealed"
    IN  IF top[r] = None THEN {}
        ELSE IF created THEN {"created"}
        ELSE IF log.visibility[r] = "concealed" THEN {"removed"}
        ELSE IF HookLineage(r) \cap db.hidden # {} THEN {}
        ELSE IF r \in log.modified \cup log.changed_backrefs THEN {"modified"}
        ELSE IF r \in log.changed_descendants THEN {"changed_descendants"} ELSE {}

\* extract_events_from_changelog_metadata.
Events(r) ==
    LET created == r \in log.created \/ log.visibility[r] = "revealed"
        concealed == ~created /\ log.visibility[r] = "concealed"
        blocked == ~created /\ ~concealed /\ HookLineage(r) \cap db.hidden # {}
        modified == r \in log.modified \cup log.changed_backrefs
    IN  IF top[r] = None THEN {}
        ELSE IF concealed THEN {"removed"}
        ELSE IF blocked THEN {}
        ELSE (IF created THEN {"created"} ELSE IF modified THEN {"modified"} ELSE {})
             \cup (IF r \in log.changed_descendants THEN {"changed_descendants"} ELSE {})

\* resource_path(metadata.resource), in a hook: the path of a removed resource is
\* that of a root, and a path below it starts there.
HookPath(r) == IF top[r] = Root THEN r ELSE IF top[r] = r THEN Root ELSE Elsewhere

Notice(event, path) == [event |-> event, path |-> path]

HookNotices == UNION {{Notice(e, HookPath(r)) : e \in Events(r)} : r \in Resource}

Commit ==
    /\ phase = "open"
    /\ phase' = "committed"
    /\ UNCHANGED <<db, saved, log, top, notices, txn, ops, changed>>

\* Mutant of Abort: the changelog is kept.
AbortWithoutClearing ==
    /\ phase = "open"
    /\ phase' = "idle"
    /\ db' = saved
    /\ changed' = {}
    /\ UNCHANGED <<saved, log, top, notices, txn, ops>>

\* A handler fails, or the commit conflicts with another process: everything in the
\* database is undone, and the finished callback clears the changelog.
Abort ==
    /\ phase = "open"
    /\ phase' = "idle"
    /\ db' = saved
    /\ log' = BlankLog /\ top' = [r \in Resource |-> Root]
    /\ changed' = {}
    /\ UNCHANGED <<saved, notices, txn, ops>>

\* send_messages_after_commit_hook, with a working connection.
NotifyHook ==
    /\ phase = "committed"
    /\ phase' = "notified"
    /\ notices' = HookNotices
    /\ UNCHANGED <<db, saved, log, top, txn, ops, changed>>

\* The finished callbacks: clear_changelog_callback.
Finish ==
    /\ phase = "notified"
    /\ phase' = "idle"
    /\ log' = BlankLog /\ top' = [r \in Resource |-> Root]
    /\ notices' = {}
    /\ changed' = {}
    /\ UNCHANGED <<db, saved, txn, ops>>

Next ==
    \/ Begin \/ Commit \/ Abort \/ NotifyHook \/ Finish
    \/ \E r \in Resource : Modify(r) \/ ModifyAcl(r) \/ Delete(r)
    \/ \E r \in NonRoot, withCreator \in BOOLEAN : Create(r, withCreator)
    \/ \E i \in Item, withCreator \in BOOLEAN : CreateItem(i, withCreator)
    \/ \E r \in Resource, newHidden \in BOOLEAN : SetHidden(r, newHidden)
    \/ \E s, t \in Resource : SetReference(s, t)

Spec == Init /\ [][Next]_vars

-------------------------------------------------------------------------------
\* Properties.

\* Type invariant.  The database is a tree whose references do not dangle.
TypeOK ==
    /\ \A d \in {db, saved} :
          /\ d \in Database
          /\ Root \in d.exists /\ ParentClosed(d.exists)
          /\ d.refs \subseteq d.exists \X d.exists
    /\ log \in ChangelogMetadata
    /\ top \in [Resource -> Resource \cup {None}]
    /\ top[Root] \in {Root, None} /\ \A r \in NonRoot : top[r] \in Lineage(r)
    /\ phase \in Phase
    /\ \A n \in notices : n.path \in Resource \cup {Elsewhere}
    /\ txn \in 0..MaxTxn /\ ops \in 0..MaxOps
    /\ changed \subseteq db.exists

\* Climbing may stop at the first marked ancestor, because the marks are closed
\* upwards: when a pool is marked so are all pools above it.
MarksUpwardClosed == ParentClosed(log.changed_descendants)

\* However often a resource, its descendants or its back references change in one
\* transaction, its counters grow by one when it is marked, and by nothing when not.
CountedOnce ==
    phase # "idle" =>
        \A r \in db.exists \ log.created :
            /\ db.descendants[r] = saved.descendants[r]
                    + (IF r \in log.changed_descendants THEN 1 ELSE 0)
            /\ db.backrefs[r] = saved.backrefs[r]
                    + (IF r \in log.changed_backrefs THEN 1 ELSE 0)

\* Conditional requests do not get "not modified" for what a transaction changed: the
\* ETag of a resource whose sheets or back references changed differs from before, and
\* so do those of all its ancestors, whose queries may list it.
ETagTracksChange ==
    phase # "idle" =>
        \A r \in changed : \A a \in Lineage(r) \ log.created : ETag(db, a) # ETag(saved, a)

\* The metadata of a resource names it, but for two cases: the root, when an item was
\* created, and a resource created where another was deleted in the same transaction.
Misnamed(r) ==
    \/ r = Root /\ Item \cap log.created # {}
    \/ r \in log.created /\ top[r] # Root

\* The server hears of every change that may be shown: of the changed resource, and
\* of every pool above it.
NoticesComplete ==
    phase = "notified" =>
        \A r \in changed :
            /\ \/ IsHidden(db, r) \/ Misnamed(r)
               \/ \E e \in {"modified", "created"} : Notice(e, r) \in notices
            /\ \A a \in Ancestors(r) :
                  \/ IsHidden(db, a) \/ Misnamed(a)
                  \/ Notice("changed_descendants", a) \in notices

-------------------------------------------------------------------------------
\* What the documentation says, and the code does otherwise.

\* The resources the transaction deleted.
Deleted == {r \in NonRoot \cap saved.exists : top[r] = r}

\* docs/websockets.rst: "if a resource is removed (deleted or hidden), any subscribers
\* to it will automatically be unsubscribed"; the server does so when it is sent
\* "removed" for the resource.
RemovedIsAnnounced ==
    phase = "notified" => \A r \in Deleted : Notice("removed", r) \in notices

\* docs/deletion.rst: "Deleted resources are no longer listed in parent pools"; a
\* listing that can be revalidated with the ETag from before the deletion lists them.
DeletionChangesETag ==
    phase # "idle" =>
        \A r \in Deleted :
            Parent[r] \in db.exists \ log.created => ETag(db, Parent[r]) # ETag(saved, Parent[r])

\* utils/__init__.py: "hidden resources may still be modified by autoupdates but we
\* don't want to expose them": one that was hidden before the transaction and still is
\* after it is not announced.
HiddenStaysUnannounced ==
    phase = "notified" =>
        \A r \in db.exists :
            IsHidden(saved, r) /\ IsHidden(db, r) =>
                {Notice("created", r), Notice("modified", r)} \cap notices = {}

\* docs/websockets.rst: "If anything that lies below the pool (children, grandchildren
\* etc.) has been added, removed, or modified" there is a changed_descendants event.
RootHearsOfItems ==
    phase = "notified" /\ log.created \cap Item \cap changed # {} =>
        IsHidden(db, Root) \/ Notice("changed_descendants", Root) \in notices
===============================================================================
