----------------------------- MODULE ItemVersions -----------------------------
(***************************************************************************)
(* The versions of items and their automatic updates.  A new version of an *)
(* item is announced to the resources that refer to the version it         *)
(* follows; the subscribers make new versions of those, and so on upwards. *)
(*                                                                         *)
(* The code is a recursion through event handlers, all in the transaction  *)
(* of one request: creating a version notifies the referencing resources   *)
(* in its `after_creation` step, each of which may create a version.  Here *)
(* `stack` holds the creations under way, the innermost last; one step     *)
(* handles one notification, in whatever order the graph yields them.      *)
(*                                                                         *)
(* One reference field stands for all fields of sheets with the            *)
(* ISheetReferenceAutoUpdateMarker, as a set: its order is not modelled.   *)
(***************************************************************************)
EXTENDS Naturals, FiniteSets, Sequences, SequencesExt

CONSTANTS Item,         \* the items
          Elements,     \* Elements[i]: the items whose versions those of i refer to
          Careful,      \* in a batch, clients name the head they know as predecessor
          MaxVersions,  \* bound: versions of one item
          MaxLoose,     \* bound: later versions posted without a predecessor
          MaxPosts,     \* bound: posts in one batch
          MaxTxn        \* bound: transactions

ASSUME ItemAssumption ==
    /\ Elements \in [Item -> SUBSET Item]
    /\ Careful \in BOOLEAN
    /\ MaxVersions \in Nat \ {0} /\ MaxLoose \in Nat /\ MaxPosts \in Nat /\ MaxTxn \in Nat

VARIABLES db,           \* count, refs, follows and last, see below
          saved,        \* the database when the transaction began
          created,      \* changelog: the versions with `created`
          followedBy,   \* changelog: `followed_by` of a version
          lastVersion,  \* changelog: `last_version` of an item
          stack,        \* the creations under way
          phase, batch, \* of the request: is_batchmode
          roots,        \* root_versions of the post
          posts, txn,   \* how many posts in the transaction, how many transactions
          stored,       \* history: <<v, e>> when a modification put e into v, unless
                        \* e was replaced by its own successor since
          loose         \* history: the later versions whose posts named no predecessor

vars == <<db, saved, created, followedBy, lastVersion, stack, phase, batch, roots,
          posts, txn, stored, loose>>
changelog == <<created, followedBy, lastVersion>>
request == <<saved, batch, txn>>

\* A version is an item's n-th.
Version == Item \X (1..MaxVersions)
ItemOf(v) == v[1]
None == <<>>

Existing(d) == {v \in Version : v[2] <= d.count[ItemOf(v)]}

\* The versions that v's reference field may name.
Elementary(d, i) == {e \in Existing(d) : ItemOf(e) \in Elements[i]}

-------------------------------------------------------------------------------
\* The reference graph.

\* get_back_references
Sources(d, old) == {s \in Existing(d) : old \in d.refs[s]}

\* What is in the subtrees of R: reachable over references, `follows` left out.
Subtree(d, R) ==
    LET below[n \in 0..Cardinality(Item)] ==
            IF n = 0 THEN R
            ELSE below[n - 1] \cup UNION {d.refs[v] : v \in below[n - 1]}
    IN  below[Cardinality(Item)]

\* Mutant of InRootVersionSubtree: no root versions means no resources.
InSubtreeOnly(s) == s \in Subtree(db, roots)

\* _is_in_root_version_subtree
InRootVersionSubtree(s) == roots = {} \/ s \in Subtree(db, roots)

-------------------------------------------------------------------------------
\* Creating a version.

NextVersion(d, i) == <<i, d.count[i] + 1>>

\* Mutant of WithVersion: the LAST tag is not updated.
WithVersionUntagged(d, v, follows, elements) ==
    [d EXCEPT !.count[ItemOf(v)] = v[2],
              !.refs[v] = elements,
              !.follows[v] = follows]

\* The new version is added to its item with its sheets' data, and becomes the LAST.
WithVersion(d, v, follows, elements) ==
    [d EXCEPT !.count[ItemOf(v)] = v[2],
              !.refs[v] = elements,
              !.follows[v] = follows,
              !.last[ItemOf(v)] = v]

\* A creation under way: of `new`, which follows `old`.  `start` has the sources of
\* old when the notification began, `seen` those that were notified.
Creation(new, old, d) == [new |-> new, old |-> old, start |-> Sources(d, old), seen |-> {}]

\* The version i gets as successor of old, up to the notification of the sources.
CreateVersion(i, old, elements) ==
    LET v == NextVersion(db, i)
    IN  /\ v \in Version
        /\ db' = WithVersion(db, v, {old}, elements)
        /\ followedBy' = [followedBy EXCEPT ![old] = v]
        /\ lastVersion' = [lastVersion EXCEPT ![i] = v]

Blank == [v \in Version |-> None]

ClearChangelog ==
    /\ created' = {} /\ followedBy' = Blank
    /\ lastVersion' = [i \in Item |-> None]

-------------------------------------------------------------------------------
\* Requests.

\* Any items with a first version, referring to each other's.
Init ==
    /\ \E E \in SUBSET Item : \E refs \in [E -> SUBSET (Item \X {1})] :
          /\ \A i \in E : \A e \in refs[i] : ItemOf(e) \in Elements[i] \cap E
          /\ db = [count |-> [i \in Item |-> IF i \in E THEN 1 ELSE 0],
                   refs |-> [v \in Version |->
                                IF v[2] = 1 /\ ItemOf(v) \in E THEN refs[ItemOf(v)] ELSE {}],
                   follows |-> [v \in Version |-> {}],
                   last |-> [i \in Item |-> IF i \in E THEN <<i, 1>> ELSE None]]
    /\ saved = db
    /\ created = {} /\ followedBy = Blank /\ lastVersion = [i \in Item |-> None]
    /\ stack = <<>>
    /\ phase = "idle" /\ batch = FALSE /\ roots = {}
    /\ posts = 0 /\ txn = 0
    /\ stored = {} /\ loose = {}

Begin(isBatch) ==
    /\ phase = "idle" /\ txn < MaxTxn
    /\ phase' = "open" /\ batch' = isBatch
    /\ saved' = db
    /\ posts' = 0 /\ txn' = txn + 1
    /\ UNCHANGED <<db, changelog, stack, roots, stored, loose>>

\* The frame of a post: the only one of its request, or one in a batch.
Post ==
    /\ phase = "open" /\ stack = <<>>
    /\ posts < (IF batch THEN MaxPosts ELSE 1)
    /\ posts' = posts + 1
    /\ UNCHANGED <<request, phase>>

Put(v, elements) == {<<v, e>> : e \in elements}

\* A version that follows none is created: there is nobody to notify.
CreateFollowingNone(i, elements) ==
    LET v == NextVersion(db, i)
    IN  /\ v \in Version
        /\ db' = WithVersion(db, v, {}, elements)
        /\ created' = created \cup {v}
        /\ lastVersion' = [lastVersion EXCEPT ![i] = v]
        /\ stored' = stored \cup Put(v, elements)
        /\ UNCHANGED <<followedBy, stack, roots>>

\* An item is posted: it gets a first version.
PostItem(i, elements) ==
    /\ Post
    /\ db.count[i] = 0 /\ elements \subseteq Elementary(db, i)
    /\ CreateFollowingNone(i, elements)
    /\ UNCHANGED loose

\* Mutant of ValidFollows: no check of the predecessor.
ValidFollowsAny(i, f) == TRUE

\* deferred_validate_linear_history_no_fork
ValidFollows(i, f) == (batch /\ db.last[i] \in created) \/ f = db.last[i]

\* The version a client names as predecessor: any, or the head before its batch.
Predecessors(i) ==
    LET head == IF saved.count[i] = 0 THEN 1 ELSE saved.count[i]
    IN  {f \in Existing(db) : ItemOf(f) = i /\ (Careful /\ batch => f[2] = head)}

\* Mutant of UpdatesLast: batches write to the last version, whoever made it.
UpdatesLastAlways(i) == batch

\* Mutant of UpdatesLast: every post of a batch makes a version.
UpdatesLastNever(i) == FALSE

\* ItemRESTView.post: whether the post goes to the version that is there.
UpdatesLast(i) == batch /\ db.last[i] \in created

\* The root versions that a post names: none, or one.
RootVersions == {{}} \cup {{v} : v \in Existing(db)}

\* A version is posted and a new one is created.
PostVersion(i, f, elements) ==
    /\ Post
    /\ db.count[i] > 0 /\ f \in Predecessors(i) /\ ValidFollows(i, f)
    /\ elements \subseteq Elementary(db, i)
    /\ ~UpdatesLast(i)
    /\ CreateVersion(i, f, elements)
    /\ stack' = <<Creation(NextVersion(db, i), f, db')>>
    /\ roots' \in RootVersions
    /\ stored' = stored \cup Put(NextVersion(db, i), elements)
    /\ UNCHANGED <<created, loose>>

\* The sheet with the predecessor may be left out, and then none is checked: the
\* version follows none, but is the LAST of its item like any other.
PostFollowingNone(i, elements) ==
    /\ Post
    /\ db.count[i] > 0 /\ elements \subseteq Elementary(db, i)
    /\ ~UpdatesLast(i) /\ Cardinality(loose) < MaxLoose
    /\ CreateFollowingNone(i, elements)
    /\ loose' = loose \cup {NextVersion(db, i)}

\* _update_version
UpdateVersion(v, follows, elements) ==
    /\ db' = [db EXCEPT !.refs[v] = elements, !.follows[v] = follows]
    /\ stored' = {m \in stored : m[1] # v} \cup Put(v, elements)
    /\ UNCHANGED <<changelog, stack, roots>>

\* A version is posted in a batch that created one already, which is updated instead;
\* the first version of an item keeps following none.
PostUpdate(i, f, elements) ==
    /\ Post
    /\ db.count[i] > 0 /\ f \in Predecessors(i) /\ ValidFollows(i, f)
    /\ elements \subseteq Elementary(db, i)
    /\ UpdatesLast(i)
    /\ LET v == db.last[i]
       IN  /\ UpdateVersion(v, IF v[2] = 1 THEN db.follows[v] ELSE {f}, elements)
           /\ loose' = loose \ {v}

\* Without a predecessor, the version keeps the one it has.
UpdateFollowingNone(i, elements) ==
    /\ Post
    /\ db.count[i] > 0 /\ elements \subseteq Elementary(db, i)
    /\ UpdatesLast(i)
    /\ UpdateVersion(db.last[i], db.follows[db.last[i]], elements)
    /\ UNCHANGED loose

-------------------------------------------------------------------------------
\* The notifications, by the innermost creation under way.

Innermost == Last(stack)

\* A source to notify next.  The iteration runs over the graph while handlers change
\* it: a source that comes or goes meanwhile may be yielded or not.
Pending == (Innermost.start \cup Sources(db, Innermost.old)) \ Innermost.seen

Notified(s) == [stack EXCEPT ![Len(stack)].seen = @ \cup {s}]

\* _get_last_version_created_in_transaction
LastVersionCreated(s) ==
    IF batch THEN lastVersion[ItemOf(s)]
    ELSE IF s \in created THEN s ELSE followedBy[s]

\* _get_updated_appstruct
Updated(s) == (db.refs[s] \ {Innermost.old}) \cup {Innermost.new}

\* Mutant of IsLast: any version may be followed.
IsLastAlways(s) == TRUE

\* _new_version_needed_and_not_forking, without a version of this transaction: the
\* last version gets a successor; an older one is left alone if the last one has the
\* same value, and is an error otherwise.
IsLast(s) == db.last[ItemOf(s)] = s
SameAsLast(s) == db.refs[db.last[ItemOf(s)]] = db.refs[s]

\* The frame of a notification of s.
Notify(s) ==
    /\ phase = "open" /\ stack # <<>> /\ s \in Pending
    /\ UNCHANGED <<request, phase, roots, posts, loose>>

\* It is none of this source's business: it is out of the subtree of the root
\* versions, or it is an old version and the last one has the same value.
Ignore(s) ==
    /\ Notify(s)
    /\ \/ ~InRootVersionSubtree(s)
       \/ /\ Innermost.old \in db.refs[s]
          /\ LastVersionCreated(s) = None
          /\ ~IsLast(s) /\ SameAsLast(s)
    /\ stack' = Notified(s)
    /\ UNCHANGED <<db, changelog, stored>>

\* The item has a version of this transaction: that one gets what the source would.
AutoUpdate(s) ==
    /\ Notify(s)
    /\ InRootVersionSubtree(s) /\ Innermost.old \in db.refs[s]
    /\ LET v == LastVersionCreated(s)
       IN  /\ v # None
           /\ db' = [db EXCEPT !.refs[v] = Updated(s)]
           /\ stored' = (stored \ {<<v, Innermost.old>>}) \cup {<<v, Innermost.new>>}
    /\ stack' = Notified(s)
    /\ UNCHANGED changelog

\* It has not: a version is created that follows the source.
AutoCreate(s) ==
    /\ Notify(s)
    /\ InRootVersionSubtree(s) /\ Innermost.old \in db.refs[s]
    /\ LastVersionCreated(s) = None
    /\ IsLast(s)
    /\ CreateVersion(ItemOf(s), s, Updated(s))
    /\ stack' = Append(Notified(s), Creation(NextVersion(db, ItemOf(s)), s, db'))
    /\ stored' = stored \cup {<<NextVersion(db, ItemOf(s)), Innermost.new>>}
    /\ UNCHANGED created

\* The innermost creation ends: every source that stayed has been notified.
Created ==
    /\ phase = "open" /\ stack # <<>>
    /\ Innermost.start \cap Sources(db, Innermost.old) \subseteq Innermost.seen
    /\ created' = created \cup {Innermost.new}
    /\ stack' = Front(stack)
    /\ UNCHANGED <<db, request, followedBy, lastVersion, phase, roots, posts, stored, loose>>

\* The transaction is undone, and the changelog cleared.
Rollback ==
    /\ db' = saved
    /\ ClearChangelog
    /\ stack' = <<>> /\ roots' = {} /\ stored' = {}
    /\ loose' = loose \cap Existing(saved)
    /\ phase' = "idle"
    /\ UNCHANGED <<request, posts>>

\* The handler raises AutoUpdateNoForkAllowedError, or ValueError when the source no
\* longer refers to the old version.  In a batch that fails the whole batch, too.
Fail(s) ==
    /\ phase = "open" /\ stack # <<>> /\ s \in Pending
    /\ InRootVersionSubtree(s)
    /\ Innermost.old \in db.refs[s] =>
          LastVersionCreated(s) = None /\ ~IsLast(s) /\ ~SameAsLast(s)
    /\ Rollback

-------------------------------------------------------------------------------
\* The end of a request.

\* A post of the batch is not valid, or the commit conflicts with another process.
Abort ==
    /\ phase = "open" /\ stack = <<>>
    /\ Rollback

Commit ==
    /\ phase = "open" /\ stack = <<>> /\ posts > 0
    /\ phase' = "committed"
    /\ UNCHANGED <<db, changelog, stack, request, roots, posts, stored, loose>>

\* The finished callback: clear_changelog_callback.
Finish ==
    /\ phase = "committed"
    /\ phase' = "idle"
    /\ ClearChangelog
    /\ roots' = {} /\ stored' = {}
    /\ UNCHANGED <<db, stack, request, posts, loose>>

Next ==
    \/ \E isBatch \in BOOLEAN : Begin(isBatch)
    \/ \E i \in Item : \E elements \in SUBSET Elementary(db, i) :
          \/ PostItem(i, elements)
          \/ PostFollowingNone(i, elements) \/ UpdateFollowingNone(i, elements)
          \/ \E f \in Version :
                \/ PostVersion(i, f, elements)
                \/ PostUpdate(i, f, elements)
    \/ \E s \in Version : Ignore(s) \/ AutoUpdate(s) \/ AutoCreate(s) \/ Fail(s)
    \/ Created \/ Abort \/ Commit \/ Finish

Spec == Init /\ [][Next]_vars

-------------------------------------------------------------------------------
\* Properties.

\* Type invariant.  References and tags name versions that exist.
TypeOK ==
    /\ \A d \in {db, saved} : LET existing == Existing(d) IN
          /\ d.count \in [Item -> 0..MaxVersions]
          /\ \A v \in Version :
                /\ \A e \in d.refs[v] : e \in existing /\ ItemOf(e) \in Elements[ItemOf(v)]
                /\ \A f \in d.follows[v] : f \in existing /\ ItemOf(f) = ItemOf(v)
                /\ v \notin existing => d.refs[v] = {} /\ d.follows[v] = {}
          /\ \A i \in Item : d.last[i] = IF d.count[i] = 0 THEN None
                                         ELSE <<i, d.count[i]>>
    /\ created \subseteq Existing(db)
    /\ followedBy \in [Version -> Existing(db) \cup {None}]
    /\ lastVersion \in [Item -> Existing(db) \cup {None}]
    /\ \A k \in DOMAIN stack : {stack[k].new, stack[k].old} \subseteq Existing(db)
    /\ phase \in {"idle", "open", "committed"}
    /\ loose \subseteq Existing(db)
    /\ batch \in BOOLEAN /\ posts \in 0..(MaxPosts + 1) /\ txn \in 0..MaxTxn

\* docs/rest_api.rst: a linear history.  Every version but the first follows the one
\* before it and no other, whether it was posted, made by an automatic update, or
\* written to since; unless the client left its predecessor out, which the document
\* forbids and the code does not: such a version follows none.
LinearHistory ==
    \A v \in Existing(db) :
        db.follows[v] = IF v[2] = 1 \/ v \in loose THEN {} ELSE {<<ItemOf(v), v[2] - 1>>}

\* What was committed stays: neither a post nor an automatic update writes to a
\* version that is older than the transaction.
CommittedVersionsStay ==
    \A v \in Existing(saved) :
        v \in Existing(db) /\ db.refs[v] = saved.refs[v] /\ db.follows[v] = saved.follows[v]

\* docs/rest_api.rst: of an item at most one new version is made in a transaction, by
\* posts and automatic updates together, along whatever paths it embeds others; but no
\* item embeds itself.
OneVersionPerTransaction == \A i \in Item : db.count[i] <= saved.count[i] + 1

\* A post for which no root versions are named reaches all that refers to it: when it
\* is committed, the last version of no item refers to a version that got a successor.
UpdatesReachLast ==
    phase = "committed" /\ ~batch /\ roots = {} =>
        \A i \in Item : db.count[i] > 0 =>
            \A e \in db.refs[db.last[i]] : followedBy[e] = None

-------------------------------------------------------------------------------
\* What the documentation says, and the code does otherwise.

\* docs/rest_api.rst: "The first version created (with an explicit post request or auto
\* updated) is used to store all modifications": none of them is lost by the end.
AllModificationsStored ==
    phase = "committed" => \A m \in stored : m[2] \in db.refs[m[1]]
===============================================================================
