---------------------------- MODULE ChangelogProofs ----------------------------
(***************************************************************************)
(* Proofs about Changelog, for every tree, every bound on operations,      *)
(* transactions and references.                                            *)
(***************************************************************************)
EXTENDS Changelog, TLAPS

-------------------------------------------------------------------------------
\* Facts about lineages.  Lineage(r) is a least set, so each fact about its members
\* is shown by giving a parent-closed set around r.

\* The induction principle: what holds of a parent-closed set around r holds of the
\* lineage of r.
LEMMA LineageLeast ==
    ASSUME NEW r \in Resource, NEW S \in SUBSET Resource, r \in S, ParentClosed(S)
    PROVE  Lineage(r) \subseteq S
BY DEF Lineage, LineageOf

\* Every lineage holds its own resource, and with a resource its parent.
LEMMA LineageClosed ==
    ASSUME NEW r \in Resource
    PROVE  /\ Lineage(r) \in SUBSET Resource
           /\ r \in Lineage(r)
           /\ ParentClosed(Lineage(r))
<1>1. Lineage(r) \in SUBSET Resource /\ r \in Lineage(r)
  BY DEF Lineage, LineageOf
<1>2. ASSUME NEW x \in Lineage(r) \ {Root}
      PROVE  Parent[x] \in Lineage(r)
  <2>1. x \in NonRoot
    BY <1>1 DEF NonRoot
  <2>2. Parent[x] \in Resource
    BY <2>1, TreeAssumption
  <2>3. ASSUME NEW S \in SUBSET Resource, r \in S, ParentClosed(S)
        PROVE  Parent[x] \in S
    <3>1. x \in S
      BY <2>3 DEF Lineage, LineageOf
    <3>. QED  BY <3>1, <2>3 DEF ParentClosed
  <2>. QED  BY <2>2, <2>3 DEF Lineage, LineageOf
<1>. QED  BY <1>1, <1>2 DEF ParentClosed

\* Being an ancestor is transitive.
LEMMA LineageTransitive ==
    ASSUME NEW r \in Resource, NEW a \in Lineage(r)
    PROVE  Lineage(a) \subseteq Lineage(r)
BY LineageClosed DEF Lineage, LineageOf

\* The lineage of a resource other than the root is itself and its parent's lineage.
LEMMA LineageStep ==
    ASSUME NEW r \in NonRoot
    PROVE  Lineage(r) = {r} \cup Lineage(Parent[r])
<1>. DEFINE p == Parent[r]
            S == {r} \cup Lineage(p)
<1>1. p \in Resource /\ r \in Resource
  BY TreeAssumption DEF NonRoot
<1>2. Lineage(p) \in SUBSET Resource /\ p \in Lineage(p) /\ ParentClosed(Lineage(p))
  BY <1>1, LineageClosed
<1>3. S \in SUBSET Resource /\ r \in S
  BY <1>1, <1>2
<1>4. ParentClosed(S)
  BY <1>2 DEF ParentClosed
<1>5. Lineage(r) \subseteq S
  BY <1>3, <1>4 DEF Lineage, LineageOf
<1>6. p \in Lineage(r) /\ r \in Lineage(r)
  BY <1>1, LineageClosed DEF ParentClosed, NonRoot
<1>7. Lineage(p) \subseteq Lineage(r)
  BY <1>1, <1>6, LineageTransitive
<1>. QED  BY <1>5, <1>6, <1>7

\* The root has no ancestor but itself.
LEMMA LineageRoot == Lineage(Root) = {Root}
<1>1. ParentClosed({Root}) /\ {Root} \in SUBSET Resource
  BY TreeAssumption DEF ParentClosed
<1>2. Lineage(Root) \subseteq {Root}
  BY <1>1 DEF Lineage, LineageOf
<1>3. Root \in Lineage(Root)
  BY TreeAssumption
<1>. QED  BY <1>2, <1>3

\* No two resources are above each other.
LEMMA LineageAntisymmetric ==
    ASSUME NEW a \in Resource, NEW b \in Lineage(a), a \in Lineage(b)
    PROVE  a = b
<1>1. SUFFICES ASSUME a # b PROVE FALSE
  OBVIOUS
<1>. DEFINE C == {x \in Lineage(a) : a \in Lineage(x)}
<1>2. Lineage(a) \in SUBSET Resource /\ a \in Lineage(a) /\ ParentClosed(Lineage(a))
  BY LineageClosed
<1>3. ParentClosed(C)
  <2>1. SUFFICES ASSUME NEW x \in C, x # Root
                 PROVE  Parent[x] \in C
    BY DEF ParentClosed
  <2>. DEFINE p == Parent[x]
  <2>2. x \in NonRoot /\ p \in Lineage(a) /\ p \in Resource
    BY <1>2, <2>1 DEF ParentClosed, NonRoot
  <2>3. Lineage(x) = {x} \cup Lineage(p)
    BY <2>2, LineageStep
  <2>4. CASE x # a
    BY <2>4, <2>2, <2>3
  <2>5. CASE x = a
    <3>1. b \in Lineage(p)
      BY <2>3, <2>5, <1>1
    <3>2. Lineage(b) \subseteq Lineage(p)
      BY <2>2, <3>1, LineageTransitive
    <3>. QED  BY <3>2, <2>2
  <2>. QED  BY <2>4, <2>5
<1>4. Lineage(a) \subseteq C
  <2>. C \in SUBSET Resource /\ a \in C
    BY <1>2
  <2>. HIDE DEF C
  <2>. QED  BY <1>3 DEF Lineage, LineageOf
<1>5. Root \in C
  BY <1>4, TreeAssumption
<1>6. a = Root
  BY <1>5, LineageRoot
<1>. QED  BY <1>1, <1>6, LineageRoot

\* The ancestors of a resource are its lineage without itself.
LEMMA AncestorsOfLineage ==
    ASSUME NEW r \in Resource
    PROVE  /\ Ancestors(r) = Lineage(r) \ {r}
           /\ \A a \in Ancestors(r) : a \in Resource /\ Lineage(a) \subseteq Ancestors(r)
<1>1. CASE r = Root
  BY <1>1, LineageRoot DEF Ancestors
<1>2. CASE r # Root
  <2>. DEFINE p == Parent[r]
  <2>1. r \in NonRoot /\ p \in Resource
    BY <1>2, TreeAssumption DEF NonRoot
  <2>2. Lineage(r) = {r} \cup Lineage(p) /\ Lineage(p) \in SUBSET Resource
    BY <2>1, LineageStep, LineageClosed
  <2>3. Ancestors(r) = Lineage(p)
    BY <1>2 DEF Ancestors
  <2>4. r \notin Lineage(p)
    <3>1. ASSUME r \in Lineage(p) PROVE FALSE
      <4>1. p \in Lineage(r)
        BY <2>1, <2>2, LineageClosed
      <4>2. p = r
        BY <2>1, <3>1, <4>1, LineageAntisymmetric
      <4>3. ParentClosed({r}) /\ {r} \in SUBSET Resource
        BY <4>2 DEF ParentClosed
      <4>4. Lineage(r) \subseteq {r}
        BY <4>3 DEF Lineage, LineageOf
      <4>. QED  BY <4>4, <1>2, TreeAssumption
    <3>. QED  BY <3>1
  <2>5. \A a \in Lineage(p) : Lineage(a) \subseteq Lineage(p)
    BY <2>1, LineageTransitive
  <2>. QED  BY <2>2, <2>3, <2>4, <2>5
<1>. QED  BY <1>1, <1>2

\* A parent-closed set holds, with a resource, the resource's lineage.
LEMMA ClosedHoldsLineage ==
    ASSUME NEW S \in SUBSET Resource, ParentClosed(S), NEW r \in S
    PROVE  Lineage(r) \subseteq S
BY DEF Lineage, LineageOf

\* Cutting off a subtree other than the whole tree leaves a tree.
LEMMA CutSubtree ==
    ASSUME NEW S \in SUBSET Resource, Root \in S, ParentClosed(S), NEW r \in NonRoot
    PROVE  /\ Root \in S \ Subtree(r)
           /\ ParentClosed(S \ Subtree(r))
           /\ r \in Subtree(r) /\ Subtree(r) \in SUBSET Resource
<1>1. Root \notin Subtree(r)
  BY LineageRoot DEF Subtree, NonRoot
<1>2. ASSUME NEW x \in S \ Subtree(r), x # Root
      PROVE  Parent[x] \in S \ Subtree(r)
  <2>1. Parent[x] \in S /\ x \in NonRoot
    BY <1>2 DEF ParentClosed, NonRoot
  <2>2. r \notin Lineage(Parent[x])
    BY <1>2, <2>1, LineageStep DEF Subtree, NonRoot
  <2>. QED  BY <2>1, <2>2 DEF Subtree
<1>3. r \in Subtree(r) /\ Subtree(r) \in SUBSET Resource
  BY LineageClosed DEF Subtree, NonRoot
<1>. QED  BY <1>1, <1>2, <1>3 DEF ParentClosed

-------------------------------------------------------------------------------
\* The inductive invariant.

\* No date lies in the future, and between two requests none is the current one.
DatesInOrder ==
    /\ \A r \in Resource : db.date[r] <= txn
    /\ phase # "idle" => \A r \in Resource : saved.date[r] < txn

\* What changed is in the changelog, has a new date or new back references, and
\* everything above it is marked.
ChangedIsMarked ==
    \A r \in changed :
        /\ r \in log.modified \cup log.changed_backrefs
        /\ r \in log.changed_backrefs \/ db.date[r] = txn
        /\ Ancestors(r) \subseteq log.changed_descendants

\* A resource that counts as concealed and exists is hidden, or was created anew.
ConcealedIsHidden ==
    \A r \in db.exists \ log.created : log.visibility[r] = "concealed" => r \in db.hidden

\* Between two requests the changelog is blank.
IdleIsBlank ==
    phase = "idle" =>
        log = BlankLog /\ top = [r \in Resource |-> Root] /\ changed = {}

\* The metadata of a resource that exists names it, but for the two cases of Misnamed.
TopNamed == \A r \in db.exists : top[r] = Root \/ Misnamed(r)

\* The notices of a request are those of the changelog.
NotifiedByHook == phase = "notified" => notices = HookNotices

IInv ==
    /\ TypeOK /\ MarksUpwardClosed /\ CountedOnce
    /\ DatesInOrder /\ ChangedIsMarked /\ ConcealedIsHidden
    /\ IdleIsBlank /\ TopNamed /\ NotifiedByHook

-------------------------------------------------------------------------------
\* Marking.

\* After climbing from r everything above r is marked: what the climb leaves out lies
\* above a mark, and the marks are closed upwards.
LEMMA ClimbReachesAll ==
    ASSUME TypeOK, MarksUpwardClosed, NEW r \in Resource
    PROVE  Ancestors(r) \subseteq log.changed_descendants \cup Climb(r)
<1>. DEFINE marks == log.changed_descendants
<1>1. marks \in SUBSET Resource /\ ParentClosed(marks)
  BY DEF TypeOK, ChangelogMetadata, MarksUpwardClosed
<1>2. ASSUME NEW a \in Ancestors(r), a \notin Climb(r)
      PROVE  a \in marks
  <2>1. PICK b \in Ancestors(r) : a \in Lineage(b) /\ b \in marks
    BY <1>2 DEF Climb
  <2>. QED  BY <1>1, <2>1, ClosedHoldsLineage
<1>. QED  BY <1>2

\* Climbing from a set of resources marks new resources only, marks all their
\* ancestors and keeps the marks closed upwards.
LEMMA ClimbedMarks ==
    ASSUME TypeOK, MarksUpwardClosed, NEW S \in SUBSET Resource
    PROVE  /\ Climbed(S) \in SUBSET (Resource \ log.changed_descendants)
           /\ \A r \in S : Ancestors(r) \subseteq log.changed_descendants \cup Climbed(S)
           /\ ParentClosed(log.changed_descendants \cup Climbed(S))
<1>. DEFINE marks == log.changed_descendants
<1>1. ParentClosed(marks)
  BY DEF MarksUpwardClosed
<1>2. ASSUME NEW r \in S
      PROVE  /\ Climb(r) \in SUBSET (Resource \ marks)
             /\ Ancestors(r) \subseteq marks \cup Climb(r)
  <2>1. \A a \in Ancestors(r) : a \in Resource /\ a \in Lineage(a)
    BY AncestorsOfLineage, LineageClosed
  <2>. QED  BY <2>1, ClimbReachesAll DEF Climb
<1>3. ASSUME NEW r \in S, NEW x \in Climb(r), x # Root
      PROVE  Parent[x] \in marks \cup Climb(r)
  <2>1. x \in Ancestors(r)
    BY <1>3 DEF Climb
  <2>2. x \in NonRoot /\ Lineage(x) \subseteq Ancestors(r)
    BY <1>3, <2>1, AncestorsOfLineage DEF NonRoot
  <2>3. Parent[x] \in Lineage(x)
    BY <2>2, LineageClosed DEF ParentClosed, NonRoot
  <2>. QED  BY <1>2, <2>2, <2>3
<1>4. ParentClosed(marks \cup Climbed(S))
  BY <1>1, <1>3 DEF ParentClosed, Climbed
<1>. QED  BY <1>2, <1>4 DEF Climbed

\* Climb is what _add_changed_descendants_to_all_parents computes: nothing from a
\* root or below a marked parent, and otherwise the parent and what the climb from
\* the parent marks.
THEOREM ClimbIsRecursive ==
    ASSUME NEW r \in NonRoot
    PROVE  Climb(r) = IF Parent[r] \in log.changed_descendants THEN {}
                      ELSE {Parent[r]} \cup Climb(Parent[r])
<1>. DEFINE p == Parent[r]
            marks == log.changed_descendants
<1>1. p \in Resource /\ r \in Resource /\ r # Root
  BY TreeAssumption DEF NonRoot
<1>2. Ancestors(r) = Lineage(p)
  BY <1>1 DEF Ancestors
<1>3. Lineage(p) = {p} \cup Ancestors(p)
  BY <1>1, AncestorsOfLineage, LineageClosed
<1>4. CASE p \in marks
  BY <1>2, <1>3, <1>4 DEF Climb
<1>5. CASE p \notin marks
  <2>1. p \in Climb(r)
    <3>1. ASSUME NEW b \in Lineage(p), p \in Lineage(b)
          PROVE  b \notin marks
      BY <1>1, <1>5, <3>1, LineageAntisymmetric
    <3>. QED  BY <1>2, <1>3, <3>1 DEF Climb
  <2>2. \A a \in Ancestors(p) : a \in Climb(r) <=> a \in Climb(p)
    BY <1>2, <1>3, <1>5 DEF Climb
  <2>3. Climb(r) \subseteq {p} \cup Ancestors(p) /\ Climb(p) \subseteq Ancestors(p)
    BY <1>2, <1>3 DEF Climb
  <2>. QED  BY <1>5, <2>1, <2>2, <2>3
<1>. QED  BY <1>4, <1>5

-------------------------------------------------------------------------------
\* The counters of the resources that stay grow with the marks.
CountersGrow(M, B) ==
    \A r \in db'.exists \ log'.created :
        /\ r \in db.exists
        /\ db'.descendants[r] = Increment(db.descendants, Climbed(M \cup B))[r]
        /\ db'.backrefs[r] = Increment(db.backrefs, B \ log.changed_backrefs)[r]

\* The metadata of the resources that stay names them when it did before.
TopsKept ==
    \A r \in db'.exists :
        \/ top'[r] \in {Root, top[r]}
        \/ r \in log'.created
        \/ r = Root /\ Item \cap log'.created # {}

\* What all operations of a request have in common: the sheets or ACLs of M and the
\* back references of B change, and the resources of D, among M, get a new date.
Recorded(M, B, D) ==
    /\ phase = "open" /\ UNCHANGED <<saved, phase, notices, txn>>
    /\ M \in SUBSET Resource /\ B \in SUBSET Resource /\ D \in SUBSET M
    /\ log'.changed_descendants = log.changed_descendants \cup Climbed(M \cup B)
    /\ log'.changed_backrefs = log.changed_backrefs \cup B
    /\ log.modified \cup M \subseteq log'.modified
    /\ log.created \subseteq log'.created
    /\ \A r \in Resource : db'.date[r] = txn \/ (r \notin D /\ db'.date[r] = db.date[r])
    /\ changed' \subseteq changed \cup D \cup B
    /\ CountersGrow(M, B) /\ TopsKept

\* Whatever is recorded that way keeps the parts of the invariant about marks,
\* counters and dates.
LEMMA RecordedKeeps ==
    ASSUME IInv, TypeOK', NEW M, NEW B, NEW D, Recorded(M, B, D)
    PROVE  MarksUpwardClosed' /\ CountedOnce' /\ DatesInOrder' /\ ChangedIsMarked'
           /\ IdleIsBlank' /\ TopNamed' /\ NotifiedByHook'
<1>. DEFINE S == M \cup B
            marks == log.changed_descendants
<1>1. S \in SUBSET Resource
  BY DEF Recorded
<1>2. /\ Climbed(S) \in SUBSET (Resource \ marks)
      /\ \A r \in S : Ancestors(r) \subseteq marks \cup Climbed(S)
      /\ ParentClosed(marks \cup Climbed(S))
  <2>. HIDE DEF S
  <2>. QED  BY <1>1, ClimbedMarks DEF IInv
<1>3. log'.changed_descendants = marks \cup Climbed(S)
  BY DEF Recorded
<1>4. MarksUpwardClosed'
  BY <1>2, <1>3 DEF MarksUpwardClosed, ParentClosed
<1>5. CountedOnce'
  <2>1. SUFFICES ASSUME NEW r \in db'.exists \ log'.created
                 PROVE  /\ db'.descendants[r] = saved.descendants[r]
                              + (IF r \in log'.changed_descendants THEN 1 ELSE 0)
                        /\ db'.backrefs[r] = saved.backrefs[r]
                              + (IF r \in log'.changed_backrefs THEN 1 ELSE 0)
    BY DEF CountedOnce, Recorded
  <2>2. r \in db.exists \ log.created /\ r \in Resource
    BY DEF Recorded, CountersGrow, IInv, TypeOK, Database
  <2>3. /\ db.descendants[r] = saved.descendants[r] + (IF r \in marks THEN 1 ELSE 0)
        /\ db.backrefs[r] = saved.backrefs[r]
              + (IF r \in log.changed_backrefs THEN 1 ELSE 0)
    BY <2>2 DEF IInv, CountedOnce, Recorded
  <2>4. saved.descendants[r] \in Nat /\ saved.backrefs[r] \in Nat
    BY <2>2 DEF IInv, TypeOK, Database
  <2>5. db'.descendants[r] = IF r \in Climbed(S) THEN db.descendants[r] + 1
                                                 ELSE db.descendants[r]
    BY <2>2 DEF Recorded, CountersGrow, Increment
  <2>6. db'.backrefs[r] = IF r \in B \ log.changed_backrefs THEN db.backrefs[r] + 1
                                                            ELSE db.backrefs[r]
    BY <2>2 DEF Recorded, CountersGrow, Increment
  <2>7. r \in Climbed(S) => r \notin marks
    BY <1>2
  <2>8. log'.changed_backrefs = log.changed_backrefs \cup B
    BY DEF Recorded
  <2>. HIDE DEF S, marks
  <2>. QED  BY <1>3, <2>3, <2>4, <2>5, <2>6, <2>7, <2>8
<1>6. DatesInOrder'
  BY DEF DatesInOrder, IInv, TypeOK, Recorded
<1>7. ChangedIsMarked'
  <2>1. SUFFICES ASSUME NEW r \in changed'
                 PROVE  /\ r \in log'.modified \cup log'.changed_backrefs
                        /\ r \in log'.changed_backrefs \/ db'.date[r] = txn'
                        /\ Ancestors(r) \subseteq log'.changed_descendants
    BY DEF ChangedIsMarked
  <2>2. r \in Resource
    BY <2>1 DEF TypeOK, Database
  <2>3. CASE r \in changed
    BY <1>3, <2>2, <2>3 DEF IInv, ChangedIsMarked, Recorded
  <2>4. CASE r \in D \cup B
    BY <1>2, <1>3, <2>2, <2>4 DEF Recorded
  <2>. QED  BY <2>3, <2>4 DEF Recorded
<1>8. IdleIsBlank' /\ NotifiedByHook'
  BY DEF IdleIsBlank, NotifiedByHook, Recorded
<1>9. TopNamed'
  <2>1. SUFFICES ASSUME NEW r \in db'.exists
                 PROVE  top'[r] = Root \/ Misnamed(r)'
    BY DEF TopNamed
  <2>2. CASE r \in log'.created
    BY <2>2 DEF Misnamed
  <2>3. CASE r = Root /\ Item \cap log'.created # {}
    BY <2>3 DEF Misnamed
  <2>4. CASE r \notin log'.created /\ top'[r] \in {Root, top[r]}
    <3>1. r \in db.exists /\ r \notin log.created /\ log.created \subseteq log'.created
      BY <2>4 DEF Recorded, CountersGrow
    <3>2. top[r] = Root \/ (r = Root /\ Item \cap log.created # {})
      BY <3>1 DEF IInv, TopNamed, Misnamed
    <3>. QED  BY <2>4, <3>1, <3>2 DEF Misnamed
  <2>. QED  BY <2>2, <2>3, <2>4 DEF Recorded, TopsKept
<1>. QED  BY <1>4, <1>5, <1>6, <1>7, <1>8, <1>9

-------------------------------------------------------------------------------
\* The operations one by one.

\* e is database d with the changes of M and B counted and the resources of S dated;
\* m is the changelog with M and B marked, and the resources of C created.
CountedAndDated(e, d, M, B, S) ==
    /\ e \in Database
    /\ e.exists = d.exists /\ e.hidden = d.hidden /\ e.refs = d.refs
    /\ e.descendants = Increment(d.descendants, Climbed(M \cup B))
    /\ e.backrefs = Increment(d.backrefs, B \ log.changed_backrefs)
    /\ \A r \in Resource : e.date[r] = IF r \in S THEN txn ELSE d.date[r]

MarkedIn(m, M, B, C) ==
    /\ m \in ChangelogMetadata
    /\ m.created = log.created \cup C /\ m.visibility = log.visibility
    /\ log.modified \cup M \subseteq m.modified
    /\ m.changed_backrefs = log.changed_backrefs \cup B
    /\ m.changed_descendants = log.changed_descendants \cup Climbed(M \cup B)

\* What the type invariant says of a database, and of the resources of the metadata.
DatabaseOK(d) ==
    /\ d \in Database
    /\ Root \in d.exists /\ ParentClosed(d.exists)
    /\ d.refs \subseteq d.exists \X d.exists

TopOK(t) ==
    /\ t \in [Resource -> Resource \cup {None}]
    /\ t[Root] \in {Root, None} /\ \A r \in NonRoot : t[r] \in Lineage(r)

LEMMA IncrementType ==
    ASSUME NEW count \in [Resource -> Nat], NEW S
    PROVE  Increment(count, S) \in [Resource -> Nat]
BY DEF Increment

\* Counted and Dated change the fields they are about and no others.
LEMMA CountedFields ==
    ASSUME NEW d \in Database, NEW M, NEW B
    PROVE  CountedAndDated(Counted(d, M, B), d, M, B, {})
<1>. DEFINE n == Increment(d.descendants, Climbed(M \cup B))
            m == Increment(d.backrefs, B \ log.changed_backrefs)
            c == [d EXCEPT !.descendants = n, !.backrefs = m]
<1>1. n \in [Resource -> Nat] /\ m \in [Resource -> Nat]
  BY IncrementType DEF Database
<1>2. Counted(d, M, B) = c
  BY DEF Counted, Database
<1>3. /\ c \in Database
      /\ c.exists = d.exists /\ c.hidden = d.hidden /\ c.refs = d.refs
      /\ c.date = d.date /\ c.descendants = n /\ c.backrefs = m
  <2>. HIDE DEF n, m
  <2>. QED  BY <1>1 DEF Database
<1>. HIDE DEF c
<1>. QED  BY <1>2, <1>3 DEF CountedAndDated

LEMMA DatedFields ==
    ASSUME NEW d \in Database, NEW M, NEW B, NEW S, txn \in Nat
    PROVE  CountedAndDated(Dated(Counted(d, M, B), S), d, M, B, S)
<1>. DEFINE c == Counted(d, M, B)
            f == [r \in Resource |-> IF r \in S THEN txn ELSE c.date[r]]
            e == [c EXCEPT !.date = f]
<1>1. CountedAndDated(c, d, M, B, {})
  BY CountedFields
<1>2. Dated(c, S) = e
  BY DEF Dated
<1>. HIDE DEF c
<1>3. c \in Database /\ f \in [Resource -> Nat]
  BY <1>1 DEF CountedAndDated, Database
<1>4. /\ e \in Database /\ e.date = f
      /\ e.exists = c.exists /\ e.hidden = c.hidden /\ e.refs = c.refs
      /\ e.descendants = c.descendants /\ e.backrefs = c.backrefs
  <2>. HIDE DEF f
  <2>. QED  BY <1>3 DEF Database
<1>5. \A r \in Resource : f[r] = IF r \in S THEN txn ELSE d.date[r]
  BY <1>1 DEF CountedAndDated
<1>. HIDE DEF e, f
<1>6. CountedAndDated(e, d, M, B, S)
  BY <1>1, <1>4, <1>5 DEF CountedAndDated
<1>. QED  BY <1>2, <1>6 DEF c

LEMMA MarkedFields ==
    ASSUME TypeOK, MarksUpwardClosed, NEW M \in SUBSET Resource, NEW B \in SUBSET Resource
    PROVE  MarkedIn(Marked(M, B), M, B, {})
<1>. DEFINE S == M \cup B
            C == log.changed_descendants \cup Climbed(S)
            m == [log EXCEPT !.modified = log.modified \cup M,
                             !.changed_backrefs = log.changed_backrefs \cup B,
                             !.changed_descendants = C]
<1>1. log \in ChangelogMetadata
  BY DEF TypeOK
<1>2. C \in SUBSET Resource
  <2>. S \in SUBSET Resource
    OBVIOUS
  <2>. HIDE DEF S
  <2>. QED  BY <1>1, ClimbedMarks DEF ChangelogMetadata
<1>3. Marked(M, B) = m
  BY <1>1 DEF Marked, ChangelogMetadata
<1>4. /\ m \in ChangelogMetadata
      /\ m.created = log.created /\ m.visibility = log.visibility
      /\ m.modified = log.modified \cup M
      /\ m.changed_backrefs = log.changed_backrefs \cup B
      /\ m.changed_descendants = C
  <2>. HIDE DEF C
  <2>. QED  BY <1>1, <1>2 DEF ChangelogMetadata
<1>. HIDE DEF m
<1>. QED  BY <1>3, <1>4 DEF MarkedIn

\* A set sheet and a creation change fields that mark nothing, but for `created`, and
\* `modified` for the pool above.
LEMMA SheetFields ==
    ASSUME NEW m, NEW M, NEW B, NEW C, MarkedIn(m, M, B, C), NEW r \in Resource
    PROVE  MarkedIn(SheetModified(m, r), M, B, C) /\ MarkedIn(SheetAutoupdated(m, r), M, B, C)
BY DEF MarkedIn, SheetModified, SheetAutoupdated, ChangelogMetadata

LEMMA CreatedFields ==
    ASSUME NEW m, NEW M, NEW B, NEW C, MarkedIn(m, M, B, C), NEW r \in NonRoot
    PROVE  MarkedIn(Created(m, r), M, B, C \cup {r})
<1>1. Parent[r] \in Resource /\ r \in Resource
  BY TreeAssumption DEF NonRoot
<1>. QED  BY <1>1 DEF MarkedIn, Created, ChangelogMetadata

\* A refreshed resource is in the tree; the others end where they ended.
LEMMA RefreshedTop ==
    ASSUME TypeOK, NEW l
    PROVE  /\ TopOK(Refreshed(l))
           /\ \A r \in Resource : Refreshed(l)[r] \in {Root, top[r]}
BY TreeAssumption DEF TypeOK, TopOK, Refreshed, NonRoot

\* Cutting off a subtree changes the resources of its places only.
LEMMA CutOffTop ==
    ASSUME NEW t, TopOK(t), NEW r \in NonRoot
    PROVE  /\ TopOK(CutOff(t, r))
           /\ \A x \in Resource \ Subtree(r) : CutOff(t, r)[x] = t[x]
<1>1. Root \notin Subtree(r) /\ r \in Resource
  BY LineageRoot DEF Subtree, NonRoot
<1>2. \A x \in Subtree(r) : r \in Lineage(x)
  BY DEF Subtree
<1>. QED  BY <1>1, <1>2, TreeAssumption DEF TopOK, CutOff, NonRoot

\* What the type invariant says of the database and the changelog.
LEMMA TypeFacts ==
    ASSUME TypeOK
    PROVE  /\ db \in Database /\ saved \in Database /\ log \in ChangelogMetadata
           /\ txn \in Nat /\ ops \in Nat
           /\ Root \in db.exists /\ ParentClosed(db.exists)
           /\ db.refs \subseteq db.exists \X db.exists
BY ChangelogAssumption DEF TypeOK

\* An operation keeps the type invariant when it does so of what it changes.
LEMMA OperationType ==
    ASSUME TypeOK, Operation, DatabaseOK(db'), log' \in ChangelogMetadata, TopOK(top'),
           changed' \subseteq db'.exists
    PROVE  TypeOK'
<1>1. ops' \in 0..MaxOps
  BY ChangelogAssumption DEF TypeOK, Operation
<1>2. \A d2 \in {db', saved'} :
          /\ d2 \in Database
          /\ Root \in d2.exists /\ ParentClosed(d2.exists)
          /\ d2.refs \subseteq d2.exists \X d2.exists
  BY DEF TypeOK, Operation, DatabaseOK
<1>3. /\ phase' \in Phase /\ txn' \in 0..MaxTxn
      /\ \A n \in notices' : n.path \in Resource \cup {Elsewhere}
  BY DEF TypeOK, Operation
<1>. QED  BY <1>1, <1>2, <1>3 DEF TypeOK, TopOK

\* An operation that neither creates, hides nor removes a resource.
LEMMA PlainStep ==
    ASSUME IInv, Operation, NEW M \in SUBSET Resource, NEW B \in SUBSET Resource,
           NEW S \in SUBSET M, NEW refs \in SUBSET (db.exists \X db.exists),
           NEW d, CountedAndDated(d, db, M, B, S), db' = [d EXCEPT !.refs = refs],
           MarkedIn(log', M, B, {}), top' = Refreshed(log'),
           changed' \subseteq changed \cup S \cup B, S \cup B \subseteq db.exists
    PROVE  TypeOK' /\ ConcealedIsHidden' /\ Recorded(M, B, S)
<1>1. TypeOK /\ ConcealedIsHidden
  BY DEF IInv
<1>2. /\ refs \in SUBSET (Resource \X Resource)
      /\ db.exists \in SUBSET Resource
  BY <1>1, TypeFacts DEF Database
<1>3. /\ db' \in Database
      /\ db'.exists = db.exists /\ db'.hidden = db.hidden /\ db'.refs = refs
      /\ db'.date = d.date
      /\ db'.descendants = d.descendants /\ db'.backrefs = d.backrefs
  BY <1>2 DEF CountedAndDated, Database
<1>4. DatabaseOK(db')
  BY <1>1, <1>3, TypeFacts DEF DatabaseOK
<1>5. TopOK(top') /\ \A r \in Resource : top'[r] \in {Root, top[r]}
  BY <1>1, RefreshedTop
<1>6. TypeOK'
  <2>1. changed' \subseteq db'.exists
    BY <1>1, <1>3 DEF TypeOK
  <2>2. log' \in ChangelogMetadata
    BY DEF MarkedIn
  <2>. QED  BY <1>1, <1>4, <1>5, <2>1, <2>2, OperationType
<1>7. ConcealedIsHidden'
  BY <1>1, <1>3 DEF ConcealedIsHidden, MarkedIn
<1>8. Recorded(M, B, S)
  <2>1. /\ log'.changed_descendants = log.changed_descendants \cup Climbed(M \cup B)
        /\ log'.changed_backrefs = log.changed_backrefs \cup B
        /\ log.modified \cup M \subseteq log'.modified
        /\ log.created \subseteq log'.created
    BY DEF MarkedIn
  <2>2. \A r \in Resource : db'.date[r] = txn \/ (r \notin S /\ db'.date[r] = db.date[r])
    BY <1>3 DEF CountedAndDated
  <2>3. /\ db'.descendants = Increment(db.descendants, Climbed(M \cup B))
        /\ db'.backrefs = Increment(db.backrefs, B \ log.changed_backrefs)
    BY <1>3 DEF CountedAndDated
  <2>4. phase = "open" /\ UNCHANGED <<saved, phase, notices, txn>>
    BY DEF Operation
  <2>5. CountersGrow(M, B) /\ TopsKept
    BY <1>2, <1>3, <1>5, <2>3 DEF CountersGrow, TopsKept
  <2>. QED  BY <2>1, <2>2, <2>4, <2>5 DEF Recorded
<1>. QED  BY <1>6, <1>7, <1>8

LEMMA ModifyStep ==
    ASSUME IInv, NEW r \in Resource, Modify(r)
    PROVE  TypeOK' /\ ConcealedIsHidden' /\ Recorded({r}, {}, {r})
<1>. DEFINE M == {r}
            B == {}
            l == Marked(M, B)
<1>1. /\ Operation /\ db' = Dated(Counted(db, M, B), M) /\ log' = SheetModified(l, r)
      /\ r \in db.exists /\ changed' = changed \cup {r} /\ top' = Refreshed(log')
  BY DEF Modify
<1>2. M \in SUBSET Resource /\ B \in SUBSET Resource /\ M = {r} /\ B = {}
  OBVIOUS
<1>. HIDE DEF M, B
<1>3. TypeOK /\ MarksUpwardClosed
  BY DEF IInv
<1>4. CountedAndDated(db', db, M, B, M)
  BY <1>1, <1>3, TypeFacts, DatedFields
<1>5. MarkedIn(l, M, B, {})
  BY <1>2, <1>3, MarkedFields
<1>. HIDE DEF l
<1>6. MarkedIn(log', M, B, {})
  BY <1>1, <1>5, SheetFields
<1>. DEFINE refs == db.refs
            d == db'
<1>7. refs \in SUBSET (db.exists \X db.exists) /\ db' = [d EXCEPT !.refs = refs]
  BY <1>3, <1>4, TypeFacts DEF CountedAndDated, Database
<1>8. M \in SUBSET M /\ changed' \subseteq changed \cup M \cup B /\ M \cup B \subseteq db.exists
  BY <1>1, <1>2
<1>9. CountedAndDated(d, db, M, B, M)
  BY <1>4
<1>. HIDE DEF refs, d
<1>10. TypeOK' /\ ConcealedIsHidden' /\ Recorded(M, B, M)
  BY <1>1, <1>2, <1>6, <1>7, <1>8, <1>9, PlainStep
<1>. QED  BY <1>2, <1>10

LEMMA ModifyAclStep ==
    ASSUME IInv, NEW r \in Resource, ModifyAcl(r)
    PROVE  TypeOK' /\ ConcealedIsHidden' /\ Recorded({r}, {}, {})
<1>. DEFINE M == {r}
            B == {}
            S == {}
<1>1. /\ Operation /\ db' = Counted(db, M, B) /\ log' = Marked(M, B)
      /\ top' = Refreshed(log') /\ UNCHANGED changed
  BY DEF ModifyAcl
<1>2. M \in SUBSET Resource /\ B \in SUBSET Resource /\ M = {r} /\ B = {} /\ S = {}
  OBVIOUS
<1>. HIDE DEF M, B
<1>3. TypeOK /\ MarksUpwardClosed
  BY DEF IInv
<1>4. CountedAndDated(db', db, M, B, S)
  BY <1>1, <1>3, TypeFacts, CountedFields
<1>. HIDE DEF S
<1>5. MarkedIn(log', M, B, {})
  BY <1>1, <1>2, <1>3, MarkedFields
<1>. DEFINE refs == db.refs
            d == db'
<1>6. refs \in SUBSET (db.exists \X db.exists) /\ db' = [d EXCEPT !.refs = refs]
  BY <1>3, <1>4, TypeFacts DEF CountedAndDated, Database
<1>7. S \in SUBSET M /\ changed' \subseteq changed \cup S \cup B /\ S \cup B \subseteq db.exists
  BY <1>1, <1>2
<1>8. CountedAndDated(d, db, M, B, S)
  BY <1>4
<1>. HIDE DEF refs, d
<1>9. TypeOK' /\ ConcealedIsHidden' /\ Recorded(M, B, S)
  BY <1>1, <1>2, <1>5, <1>6, <1>7, <1>8, PlainStep
<1>. QED  BY <1>2, <1>9

LEMMA SetReferenceStep ==
    ASSUME IInv, NEW s \in Resource, NEW t \in Resource, SetReference(s, t)
    PROVE  TypeOK' /\ ConcealedIsHidden' /\ Recorded({s}, {t}, {s})
<1>. DEFINE M == {s}
            B == {t}
            d == Dated(Counted(db, M, B), M)
            l == Marked(M, B)
            refs == IF <<s, t>> \in db.refs THEN db.refs \ {<<s, t>>}
                                            ELSE db.refs \cup {<<s, t>>}
<1>1. /\ Operation /\ db' = [d EXCEPT !.refs = refs] /\ log' = SheetModified(l, s)
      /\ s \in db.exists /\ t \in db.exists
      /\ changed' = changed \cup {s, t} /\ top' = Refreshed(log')
  BY DEF SetReference
<1>2. M \in SUBSET Resource /\ B \in SUBSET Resource /\ M = {s} /\ B = {t}
  OBVIOUS
<1>3. TypeOK /\ MarksUpwardClosed
  BY DEF IInv
<1>4. refs \in SUBSET (db.exists \X db.exists)
  BY <1>1, <1>3, TypeFacts DEF Database
<1>. HIDE DEF M, B, refs
<1>5. CountedAndDated(d, db, M, B, M)
  BY <1>3, TypeFacts, DatedFields
<1>6. MarkedIn(l, M, B, {})
  BY <1>2, <1>3, MarkedFields
<1>. HIDE DEF d, l
<1>7. MarkedIn(log', M, B, {})
  BY <1>1, <1>6, SheetFields
<1>8. M \in SUBSET M /\ changed' \subseteq changed \cup M \cup B /\ M \cup B \subseteq db.exists
  BY <1>1, <1>2
<1>9. TypeOK' /\ ConcealedIsHidden' /\ Recorded(M, B, M)
  BY <1>1, <1>2, <1>4, <1>5, <1>7, <1>8, PlainStep
<1>. QED  BY <1>2, <1>9

\* New resources at the places of S have new counters, and nothing else changes.
FreshIn(e, S) ==
    /\ e \in Database
    /\ e.exists = db.exists \cup S /\ e.hidden = db.hidden \ S
    /\ e.refs = db.refs /\ e.date = db.date
    /\ \A r \in Resource \ S : /\ e.descendants[r] = db.descendants[r]
                               /\ e.backrefs[r] = db.backrefs[r]

LEMMA FreshFields ==
    ASSUME TypeOK, NEW S \in SUBSET Resource
    PROVE  FreshIn(Fresh(db, S), S)
<1>. DEFINE n == [r \in Resource |-> IF r \in S THEN 0 ELSE db.backrefs[r]]
            m == [r \in Resource |-> IF r \in S THEN 0 ELSE db.descendants[r]]
            e == [db EXCEPT !.exists = db.exists \cup S, !.hidden = db.hidden \ S,
                            !.backrefs = n, !.descendants = m]
<1>1. db \in Database
  BY TypeFacts
<1>2. n \in [Resource -> Nat] /\ m \in [Resource -> Nat]
  BY <1>1 DEF Database
<1>3. Fresh(db, S) = e
  BY <1>1 DEF Fresh, Database
<1>4. \A r \in Resource \ S : n[r] = db.backrefs[r] /\ m[r] = db.descendants[r]
  OBVIOUS
<1>5. /\ e \in Database
      /\ e.exists = db.exists \cup S /\ e.hidden = db.hidden \ S
      /\ e.refs = db.refs /\ e.date = db.date /\ e.descendants = m /\ e.backrefs = n
  <2>. HIDE DEF n, m
  <2>. QED  BY <1>1, <1>2 DEF Database
<1>. HIDE DEF n, m, e
<1>. QED  BY <1>3, <1>4, <1>5 DEF FreshIn

\* An operation that creates the resources of C, each at a place below another one.
LEMMA CreationStep ==
    ASSUME IInv, Operation, NEW C \in SUBSET NonRoot, NEW M \in SUBSET C,
           NEW B \in SUBSET C, \A c \in C : Parent[c] \in db.exists \cup C,
           NEW d, CountedAndDated(d, Fresh(db, C), M, B, C),
           NEW refs \in SUBSET (db'.exists \X db'.exists), db.refs \subseteq refs,
           db' = [d EXCEPT !.refs = refs],
           MarkedIn(log', M, B, C), TopOK(top'),
           \A r \in db.exists \ C : \/ top'[r] \in {Root, top[r]}
                                    \/ r = Root /\ Item \cap C # {},
           changed' \subseteq changed \cup M \cup B
    PROVE  TypeOK' /\ ConcealedIsHidden' /\ Recorded(M, B, M)
<1>1. TypeOK /\ ConcealedIsHidden
  BY DEF IInv
<1>. DEFINE f == Fresh(db, C)
<1>2. FreshIn(f, C)
  BY <1>1, FreshFields DEF NonRoot
<1>3. CountedAndDated(d, f, M, B, C)
  OBVIOUS
<1>. HIDE DEF f
<1>4. /\ db'.exists = db.exists \cup C
      /\ db.exists \in SUBSET Resource /\ C \in SUBSET Resource
  BY <1>1, <1>2, <1>3, TypeFacts DEF CountedAndDated, FreshIn, Database, NonRoot
<1>5. refs \in SUBSET (Resource \X Resource)
  BY <1>4
<1>6. /\ db' \in Database
      /\ db'.hidden = db.hidden \ C /\ db'.refs = refs
      /\ db'.date = d.date
      /\ db'.descendants = d.descendants /\ db'.backrefs = d.backrefs
  BY <1>2, <1>3, <1>5 DEF CountedAndDated, FreshIn, Database
<1>7. DatabaseOK(db')
  BY <1>1, <1>4, <1>6, TypeFacts DEF DatabaseOK, ParentClosed
<1>8. TypeOK'
  <2>1. changed' \subseteq db'.exists
    BY <1>1, <1>4 DEF TypeOK
  <2>2. log' \in ChangelogMetadata
    BY DEF MarkedIn
  <2>. QED  BY <1>1, <1>7, <2>1, <2>2, OperationType
<1>9. ConcealedIsHidden'
  BY <1>1, <1>4, <1>6 DEF ConcealedIsHidden, MarkedIn
<1>10. Recorded(M, B, M)
  <2>1. /\ log'.changed_descendants = log.changed_descendants \cup Climbed(M \cup B)
        /\ log'.changed_backrefs = log.changed_backrefs \cup B
        /\ log.modified \cup M \subseteq log'.modified
        /\ log'.created = log.created \cup C
    BY DEF MarkedIn
  <2>2. \A r \in Resource : db'.date[r] = txn \/ (r \notin M /\ db'.date[r] = db.date[r])
    BY <1>2, <1>3, <1>6 DEF CountedAndDated, FreshIn
  <2>3. ASSUME NEW r \in db'.exists \ log'.created
        PROVE  /\ r \in db.exists
               /\ db'.descendants[r] = Increment(db.descendants, Climbed(M \cup B))[r]
               /\ db'.backrefs[r] = Increment(db.backrefs, B \ log.changed_backrefs)[r]
    <3>1. r \in db.exists /\ r \in Resource \ C
      BY <1>4, <2>1, <2>3
    <3>2. /\ f.descendants[r] = db.descendants[r] /\ f.backrefs[r] = db.backrefs[r]
          /\ db'.descendants = Increment(f.descendants, Climbed(M \cup B))
          /\ db'.backrefs = Increment(f.backrefs, B \ log.changed_backrefs)
      BY <1>2, <1>3, <1>6, <3>1 DEF CountedAndDated, FreshIn
    <3>. DEFINE X == Climbed(M \cup B)
                Y == B \ log.changed_backrefs
    <3>3. /\ Increment(f.descendants, X)[r] = Increment(db.descendants, X)[r]
          /\ Increment(f.backrefs, Y)[r] = Increment(db.backrefs, Y)[r]
      <4>. HIDE DEF X, Y
      <4>. QED  BY <3>1, <3>2 DEF Increment
    <3>. QED  BY <3>1, <3>2, <3>3
  <2>4. phase = "open" /\ UNCHANGED <<saved, phase, notices, txn>>
    BY DEF Operation
  <2>5. ASSUME NEW r \in db'.exists
        PROVE  \/ top'[r] \in {Root, top[r]} \/ r \in log'.created
               \/ r = Root /\ Item \cap log'.created # {}
    BY <1>4, <2>1
  <2>6. CountersGrow(M, B) /\ TopsKept
    BY <2>3, <2>5 DEF CountersGrow, TopsKept
  <2>. QED  BY <1>4, <2>1, <2>2, <2>4, <2>6 DEF Recorded
<1>. QED  BY <1>8, <1>9, <1>10

LEMMA CreateStep ==
    ASSUME IInv, NEW r \in NonRoot, NEW withCreator \in BOOLEAN, Create(r, withCreator)
    PROVE  TypeOK' /\ ConcealedIsHidden' /\ \E M : Recorded(M, {}, M)
<1>. DEFINE M == IF withCreator THEN {r} ELSE {}
            B == {}
            C == {r}
            f == Fresh(db, C)
            d == Dated(Counted(f, M, B), C)
            l == Marked(M, B)
<1>1. /\ Operation /\ db' = d /\ log' = Created(l, r)
      /\ Parent[r] \in db.exists
      /\ changed' = changed \cup M /\ top' = Refreshed(log')
  BY DEF Create
<1>2. /\ C \in SUBSET NonRoot /\ M \in SUBSET C /\ B \in SUBSET C /\ C = {r} /\ B = {}
      /\ M \in SUBSET Resource /\ B \in SUBSET Resource /\ r \in Resource
      /\ C \in SUBSET Resource
  BY DEF NonRoot
<1>3. TypeOK /\ MarksUpwardClosed
  BY DEF IInv
<1>. HIDE DEF M, B, C
<1>4. FreshIn(f, C)
  BY <1>2, <1>3, FreshFields
<1>. HIDE DEF f
<1>5. CountedAndDated(d, f, M, B, C)
  BY <1>3, <1>4, TypeFacts, DatedFields DEF FreshIn
<1>6. MarkedIn(l, M, B, {})
  BY <1>2, <1>3, MarkedFields
<1>. HIDE DEF d, l
<1>7. MarkedIn(log', M, B, C)
  <2>1. MarkedIn(Created(l, r), M, B, {} \cup {r})
    BY <1>6, CreatedFields
  <2>. QED  BY <1>1, <1>2, <2>1
<1>8. TopOK(top') /\ \A x \in Resource : top'[x] \in {Root, top[x]}
  BY <1>1, <1>3, RefreshedTop
<1>. DEFINE refs == db.refs
<1>9. /\ refs \in SUBSET (db'.exists \X db'.exists) /\ db.refs \subseteq refs
      /\ db' = [d EXCEPT !.refs = refs]
      /\ db.exists \in SUBSET Resource
  BY <1>1, <1>3, <1>4, <1>5, TypeFacts DEF CountedAndDated, FreshIn, Database
<1>. HIDE DEF refs
<1>10. /\ \A c \in C : Parent[c] \in db.exists \cup C
       /\ \A x \in db.exists \ C : \/ top'[x] \in {Root, top[x]}
                                   \/ x = Root /\ Item \cap C # {}
       /\ changed' \subseteq changed \cup M \cup B
  BY <1>1, <1>2, <1>8, <1>9
<1>11. CountedAndDated(d, Fresh(db, C), M, B, C)
  BY <1>5 DEF f
<1>12. TypeOK' /\ ConcealedIsHidden' /\ Recorded(M, B, M)
  BY <1>1, <1>2, <1>7, <1>8, <1>9, <1>10, <1>11, CreationStep
<1>. QED  BY <1>2, <1>12

LEMMA CreateItemStep ==
    ASSUME IInv, NEW i \in Item, NEW withCreator \in BOOLEAN, CreateItem(i, withCreator)
    PROVE  TypeOK' /\ ConcealedIsHidden' /\ \E M, B : Recorded(M, B, M)
<1>. DEFINE v == First[i]
            M == IF withCreator THEN {i, v} ELSE {i}
            B == {v}
            C == {i, v}
            f == Fresh(db, C)
            d == Dated(Counted(f, M, B), C)
            l == SheetAutoupdated(Marked(M, B), i)
            untold == [l EXCEPT !.autoupdated = @ \ {Root}]
            refs == db.refs \cup {<<i, v>>}
<1>1. /\ Operation /\ db' = [d EXCEPT !.refs = @ \cup {<<i, v>>}]
      /\ log' = Created(Created(untold, v), i)
      /\ Parent[i] \in db.exists /\ changed' = changed \cup {i, v}
      /\ top' = [Refreshed(log') EXCEPT ![i] = Root,
                                        ![Root] = IF Parent[i] = Root THEN Root ELSE None]
  BY DEF CreateItem
<1>2. /\ i \in NonRoot /\ v \in NonRoot /\ Parent[v] = i
      /\ i \in Resource /\ Root \in Resource /\ i # Root
  BY ChangelogAssumption, TreeAssumption DEF NonRoot
<1>3. /\ C \in SUBSET NonRoot /\ M \in SUBSET C /\ B \in SUBSET C
      /\ C = {i} \cup {v} /\ i \in C /\ v \in C /\ {i, v} \subseteq M \cup B
      /\ M \in SUBSET Resource /\ B \in SUBSET Resource /\ C \in SUBSET Resource
  BY <1>2 DEF NonRoot
<1>4. TypeOK /\ MarksUpwardClosed
  BY DEF IInv
<1>. HIDE DEF v, M, B, C
<1>5. FreshIn(f, C)
  BY <1>3, <1>4, FreshFields
<1>. HIDE DEF f
<1>6. CountedAndDated(d, f, M, B, C)
  BY <1>4, <1>5, TypeFacts, DatedFields DEF FreshIn
<1>7. MarkedIn(l, M, B, {})
  <2>. DEFINE m == Marked(M, B)
  <2>1. MarkedIn(m, M, B, {})
    BY <1>3, <1>4, MarkedFields
  <2>. HIDE DEF m
  <2>2. MarkedIn(SheetAutoupdated(m, i), M, B, {})
    BY <1>2, <2>1, SheetFields
  <2>. QED  BY <2>2 DEF m
<1>. HIDE DEF d, l
<1>8. MarkedIn(log', M, B, C)
  <2>1. MarkedIn(untold, M, B, {})
    BY <1>7 DEF MarkedIn, ChangelogMetadata
  <2>. HIDE DEF untold
  <2>2. MarkedIn(Created(untold, v), M, B, {} \cup {v})
    BY <1>2, <2>1, CreatedFields
  <2>3. MarkedIn(Created(Created(untold, v), i), M, B, ({} \cup {v}) \cup {i})
    BY <1>2, <2>2, CreatedFields
  <2>4. ({} \cup {v}) \cup {i} = C
    BY <1>3
  <2>. QED  BY <1>1, <2>3, <2>4
<1>9. /\ TopOK(top')
      /\ \A x \in Resource : \/ top'[x] \in {Root, top[x]}
                             \/ x = Root /\ Item \cap C # {}
  <2>. DEFINE t == Refreshed(log')
  <2>1. TopOK(t) /\ \A x \in Resource : t[x] \in {Root, top[x]}
    BY <1>4, RefreshedTop
  <2>. HIDE DEF t
  <2>2. \A x \in Resource :
            top'[x] = IF x = Root THEN (IF Parent[i] = Root THEN Root ELSE None)
                      ELSE IF x = i THEN Root ELSE t[x]
    BY <1>1, <1>2, <2>1 DEF TopOK, t
  <2>3. top' \in [Resource -> Resource \cup {None}]
    BY <1>1, <1>2, <2>1 DEF TopOK, t
  <2>4. TopOK(top')
    BY <1>2, <2>1, <2>2, <2>3, TreeAssumption DEF TopOK, NonRoot
  <2>. QED  BY <1>3, <2>1, <2>2, <2>4
<1>10. /\ db'.exists = db.exists \cup C /\ db.exists \in SUBSET Resource
       /\ db.refs \subseteq db.exists \X db.exists
       /\ d.refs = db.refs
  BY <1>1, <1>4, <1>5, <1>6, TypeFacts DEF CountedAndDated, FreshIn, Database
<1>11. /\ refs \in SUBSET (db'.exists \X db'.exists) /\ db.refs \subseteq refs
       /\ db' = [d EXCEPT !.refs = refs]
  BY <1>1, <1>3, <1>6, <1>10 DEF CountedAndDated, Database
<1>. HIDE DEF refs
<1>12. /\ \A c \in C : Parent[c] \in db.exists \cup C
       /\ \A x \in db.exists \ C : \/ top'[x] \in {Root, top[x]}
                                   \/ x = Root /\ Item \cap C # {}
       /\ changed' \subseteq changed \cup M \cup B
  BY <1>1, <1>2, <1>3, <1>9, <1>10
<1>13. CountedAndDated(d, Fresh(db, C), M, B, C)
  BY <1>6 DEF f
<1>14. TypeOK' /\ ConcealedIsHidden' /\ Recorded(M, B, M)
  BY <1>1, <1>3, <1>8, <1>9, <1>11, <1>12, <1>13, CreationStep
<1>. QED  BY <1>14

\* The targets of references exist.
LEMMA SubtreeTargetsExist ==
    ASSUME TypeOK, NEW r
    PROVE  SubtreeTargets(r) \subseteq db.exists /\ SubtreeTargets(r) \subseteq Resource
BY TypeFacts DEF SubtreeTargets, Database

LEMMA SetHiddenStep ==
    ASSUME IInv, NEW r \in Resource, NEW newHidden \in BOOLEAN, SetHidden(r, newHidden)
    PROVE  TypeOK' /\ ConcealedIsHidden' /\ \E B : Recorded({r}, B, {r})
<1>. DEFINE M == {r}
            v == VisibilityChange(r \in db.hidden, newHidden)
            B == IF v # log.visibility[r] /\ v # "visible" THEN SubtreeTargets(r) ELSE {}
            d == Dated(Counted(db, M, B), M)
            m == Marked(M, B)
            l == SheetModified(m, r)
            hidden == IF newHidden THEN db.hidden \cup {r} ELSE db.hidden \ {r}
<1>1. /\ log' = [l EXCEPT !.visibility[r] = v]
      /\ db' = [d EXCEPT !.hidden = IF newHidden THEN @ \cup {r} ELSE @ \ {r}]
      /\ changed' = changed \cup {r} \cup B
      /\ r \in db.exists /\ top' = Refreshed(log') /\ Operation
  BY DEF SetHidden
<1>2. TypeOK /\ MarksUpwardClosed /\ ConcealedIsHidden
  BY DEF IInv
<1>3. /\ M \in SUBSET Resource /\ M = {r}
      /\ B \in SUBSET Resource /\ B \subseteq db.exists
  BY <1>2, SubtreeTargetsExist
<1>4. v \in Visibility /\ (v = "concealed" => newHidden)
  BY DEF VisibilityChange, Visibility
<1>. HIDE DEF M, B, v
<1>5. CountedAndDated(d, db, M, B, M)
  BY <1>2, TypeFacts, DatedFields
<1>. HIDE DEF d
<1>6. MarkedIn(m, M, B, {})
  BY <1>2, <1>3, MarkedFields
<1>. HIDE DEF m
<1>7. MarkedIn(l, M, B, {})
  BY <1>6, SheetFields
<1>. HIDE DEF l
<1>8. /\ db' \in Database
      /\ db'.exists = d.exists /\ db'.refs = d.refs /\ db'.date = d.date
      /\ db'.descendants = d.descendants /\ db'.backrefs = d.backrefs
      /\ db'.hidden = hidden
  BY <1>1, <1>5 DEF CountedAndDated, Database
<1>9. /\ log' \in ChangelogMetadata
      /\ log'.created = l.created /\ log'.modified = l.modified
      /\ log'.changed_backrefs = l.changed_backrefs
      /\ log'.changed_descendants = l.changed_descendants
      /\ \A x \in Resource : log'.visibility[x] = IF x = r THEN v ELSE l.visibility[x]
  BY <1>1, <1>4, <1>7 DEF MarkedIn, ChangelogMetadata
<1>10. TopOK(top') /\ \A x \in Resource : top'[x] \in {Root, top[x]}
  BY <1>1, <1>2, RefreshedTop
<1>11. TypeOK'
  <2>1. DatabaseOK(db')
    BY <1>2, <1>5, <1>8, TypeFacts DEF DatabaseOK, CountedAndDated
  <2>2. changed' \subseteq db'.exists
    BY <1>1, <1>2, <1>3, <1>5, <1>8 DEF TypeOK, CountedAndDated
  <2>. QED  BY <1>1, <1>2, <1>9, <1>10, <2>1, <2>2, OperationType
<1>12. ConcealedIsHidden'
  <2>1. ASSUME NEW x \in db'.exists \ log'.created, log'.visibility[x] = "concealed"
        PROVE  x \in db'.hidden
    <3>1. x \in db.exists \ log.created /\ x \in Resource
      BY <1>5, <1>7, <1>8, <1>9, <2>1 DEF CountedAndDated, MarkedIn, Database
    <3>2. CASE x = r
      BY <1>4, <1>8, <1>9, <2>1, <3>1, <3>2
    <3>3. CASE x # r
      <4>1. l.visibility = log.visibility /\ d.hidden = db.hidden
        BY <1>5, <1>7 DEF MarkedIn, CountedAndDated
      <4>. QED  BY <1>2, <1>8, <1>9, <2>1, <3>1, <3>3, <4>1 DEF ConcealedIsHidden
    <3>. QED  BY <3>2, <3>3
  <2>. QED  BY <2>1 DEF ConcealedIsHidden
<1>13. Recorded(M, B, M)
  <2>1. /\ log'.changed_descendants = log.changed_descendants \cup Climbed(M \cup B)
        /\ log'.changed_backrefs = log.changed_backrefs \cup B
        /\ log.modified \cup M \subseteq log'.modified
        /\ log.created \subseteq log'.created
    BY <1>7, <1>9 DEF MarkedIn
  <2>2. \A x \in Resource : db'.date[x] = txn \/ (x \notin M /\ db'.date[x] = db.date[x])
    BY <1>5, <1>8 DEF CountedAndDated
  <2>3. /\ db'.exists = db.exists /\ db.exists \subseteq Resource
        /\ db'.descendants = Increment(db.descendants, Climbed(M \cup B))
        /\ db'.backrefs = Increment(db.backrefs, B \ log.changed_backrefs)
    BY <1>2, <1>5, <1>8, TypeFacts DEF CountedAndDated, Database
  <2>4. changed' \subseteq changed \cup M \cup B
    BY <1>1, <1>3
  <2>5. phase = "open" /\ UNCHANGED <<saved, phase, notices, txn>>
    BY <1>1 DEF Operation
  <2>6. CountersGrow(M, B) /\ TopsKept
    BY <1>10, <2>3 DEF CountersGrow, TopsKept
  <2>. QED  BY <1>3, <2>1, <2>2, <2>4, <2>5, <2>6 DEF Recorded
<1>. QED  BY <1>3, <1>11, <1>12, <1>13

LEMMA DeleteStep ==
    ASSUME IInv, NEW r \in Resource, Delete(r)
    PROVE  TypeOK' /\ ConcealedIsHidden' /\ \E B : Recorded({}, B, {})
<1>. DEFINE M == {}
            own == {t \in Resource \ Subtree(r) : <<r, t>> \in db.refs}
            B == own \cup (IF log.visibility[r] # "concealed" THEN SubtreeTargets(r) ELSE {})
            c == Counted(db, M, B)
            l == Marked(M, B)
<1>1. /\ log' = [l EXCEPT !.visibility[r] = "concealed"]
      /\ db' = [c EXCEPT !.exists = @ \ Subtree(r),
                         !.refs = {p \in @ : {p[1], p[2]} \cap Subtree(r) = {}}]
      /\ changed' = (changed \cup B) \ Subtree(r)
      /\ r \in db.exists /\ r \in NonRoot
      /\ top' = CutOff(Refreshed(log'), r) /\ Operation
  BY DEF Delete, NonRoot
<1>2. TypeOK /\ MarksUpwardClosed /\ ConcealedIsHidden
  BY DEF IInv
<1>3. /\ M \in SUBSET Resource /\ M = {}
      /\ B \in SUBSET Resource /\ B \subseteq db.exists
  <2>1. own \subseteq db.exists
    BY <1>2, TypeFacts
  <2>. HIDE DEF own
  <2>. QED  BY <1>2, <2>1, SubtreeTargetsExist, TypeFacts DEF Database
<1>. HIDE DEF M, B
<1>4. CountedAndDated(c, db, M, B, {})
  BY <1>2, TypeFacts, CountedFields
<1>5. MarkedIn(l, M, B, {})
  BY <1>2, <1>3, MarkedFields
<1>. HIDE DEF c, l
<1>6. /\ db' \in Database
      /\ db'.exists = c.exists \ Subtree(r)
      /\ db'.refs = {p \in c.refs : {p[1], p[2]} \cap Subtree(r) = {}}
      /\ db'.hidden = c.hidden /\ db'.date = c.date
      /\ db'.descendants = c.descendants /\ db'.backrefs = c.backrefs
  BY <1>1, <1>4 DEF CountedAndDated, Database
<1>7. /\ log' \in ChangelogMetadata
      /\ log'.created = l.created /\ log'.modified = l.modified
      /\ log'.changed_backrefs = l.changed_backrefs
      /\ log'.changed_descendants = l.changed_descendants
      /\ \A x \in Resource \ {r} : log'.visibility[x] = l.visibility[x]
  BY <1>1, <1>5 DEF MarkedIn, ChangelogMetadata, Visibility
<1>8. /\ Root \in db'.exists /\ ParentClosed(db'.exists)
      /\ r \in Subtree(r) /\ Subtree(r) \in SUBSET Resource
      /\ db'.exists = db.exists \ Subtree(r) /\ db.exists \in SUBSET Resource
  <2>1. db.exists \in SUBSET Resource /\ Root \in db.exists /\ ParentClosed(db.exists)
    BY <1>2, TypeFacts DEF Database
  <2>. DEFINE E == db.exists
  <2>. HIDE DEF E
  <2>2. Root \in E \ Subtree(r) /\ ParentClosed(E \ Subtree(r))
        /\ r \in Subtree(r) /\ Subtree(r) \in SUBSET Resource
    <3>1. E \in SUBSET Resource /\ Root \in E /\ ParentClosed(E)
      BY <2>1 DEF E
    <3>. QED  BY <1>1, <3>1, CutSubtree
  <2>3. db'.exists = E \ Subtree(r)
    BY <1>4, <1>6 DEF CountedAndDated, E
  <2>. QED  BY <2>1, <2>2, <2>3 DEF E
<1>9. TopOK(top') /\ \A x \in db'.exists : top'[x] \in {Root, top[x]}
  <2>. DEFINE t == Refreshed(log')
  <2>1. TopOK(t) /\ \A x \in Resource : t[x] \in {Root, top[x]}
    BY <1>2, RefreshedTop
  <2>. HIDE DEF t
  <2>2. /\ TopOK(CutOff(t, r))
        /\ \A x \in Resource \ Subtree(r) : CutOff(t, r)[x] = t[x]
    BY <1>1, <2>1, CutOffTop
  <2>. QED  BY <1>1, <1>8, <2>1, <2>2 DEF t
<1>10. TypeOK'
  <2>1. db'.refs \subseteq db'.exists \X db'.exists
    <3>1. \A p \in db.refs : p = <<p[1], p[2]>> /\ p[1] \in db.exists /\ p[2] \in db.exists
      BY <1>2, TypeFacts
    <3>. QED  BY <1>4, <1>6, <1>8, <3>1 DEF CountedAndDated
  <2>2. DatabaseOK(db')
    BY <1>6, <1>8, <2>1 DEF DatabaseOK
  <2>3. changed' \subseteq db'.exists
    BY <1>1, <1>2, <1>3, <1>8 DEF TypeOK
  <2>. QED  BY <1>1, <1>2, <1>7, <1>9, <2>2, <2>3, OperationType
<1>11. ConcealedIsHidden'
  <2>1. ASSUME NEW x \in db'.exists \ log'.created, log'.visibility[x] = "concealed"
        PROVE  x \in db'.hidden
    <3>1. x \in db.exists \ log.created /\ x # r /\ x \in Resource
      BY <1>5, <1>7, <1>8, <2>1 DEF MarkedIn
    <3>. QED  BY <1>2, <1>4, <1>5, <1>6, <1>7, <2>1, <3>1
              DEF ConcealedIsHidden, CountedAndDated, MarkedIn
  <2>. QED  BY <2>1 DEF ConcealedIsHidden
<1>12. Recorded(M, B, {})
  <2>1. /\ log'.changed_descendants = log.changed_descendants \cup Climbed(M \cup B)
        /\ log'.changed_backrefs = log.changed_backrefs \cup B
        /\ log.modified \cup M \subseteq log'.modified
        /\ log.created \subseteq log'.created
    BY <1>3, <1>5, <1>7 DEF MarkedIn
  <2>2. \A x \in Resource : db'.date[x] = db.date[x]
    BY <1>4, <1>6 DEF CountedAndDated
  <2>3. /\ db'.exists \subseteq db.exists
        /\ db'.descendants = Increment(db.descendants, Climbed(M \cup B))
        /\ db'.backrefs = Increment(db.backrefs, B \ log.changed_backrefs)
    BY <1>4, <1>6, <1>8 DEF CountedAndDated
  <2>4. changed' \subseteq changed \cup B
    BY <1>1
  <2>5. phase = "open" /\ UNCHANGED <<saved, phase, notices, txn>>
    BY <1>1 DEF Operation
  <2>6. CountersGrow(M, B) /\ TopsKept
    BY <1>9, <2>3 DEF CountersGrow, TopsKept
  <2>. QED  BY <1>3, <2>1, <2>2, <2>4, <2>5, <2>6 DEF Recorded
<1>. QED  BY <1>3, <1>10, <1>11, <1>12

-------------------------------------------------------------------------------
\* The invariant.

LEMMA InitInvariant == Init => IInv
<1>. SUFFICES ASSUME Init PROVE IInv
  OBVIOUS
<1>. DEFINE zero == [r \in Resource |-> 0]
<1>1. PICK E \in SUBSET Resource :
          /\ Root \in E /\ ParentClosed(E)
          /\ \A i \in Item \cap E : First[i] \in E
          /\ db = [exists |-> E, hidden |-> {}, refs |-> {t \in Tags : t[1] \in E},
                   date |-> zero, backrefs |-> zero, descendants |-> zero]
  BY DEF Init
<1>2. /\ saved = db /\ log = BlankLog /\ phase = "idle"
      /\ top = [r \in Resource |-> Root]
      /\ notices = {} /\ txn = 0 /\ ops = 0 /\ changed = {}
  BY DEF Init
<1>3. zero \in [Resource -> Nat] /\ \A r \in Resource : zero[r] = 0
  OBVIOUS
<1>. HIDE DEF zero
<1>4. /\ db \in Database /\ db.exists = E /\ db.date = zero
      /\ db.refs \subseteq db.exists \X db.exists
  <2>. DEFINE refs == {t \in Tags : t[1] \in E}
  <2>1. refs \in SUBSET (E \X E)
    BY <1>1, ChangelogAssumption DEF Tags
  <2>. HIDE DEF refs
  <2>. QED  BY <1>1, <1>3, <2>1 DEF Database, refs
<1>5. log \in ChangelogMetadata /\ log.changed_descendants = {}
      /\ \A r \in Resource : log.visibility[r] = "visible"
  BY <1>2 DEF BlankLog, ChangelogMetadata, Visibility
<1>6. TypeOK
  <2>1. \A r \in Resource : top[r] = Root /\ Root \in Lineage(r)
    BY <1>2, TreeAssumption
  <2>2. \A d \in {db, saved} : d = db
    BY <1>2
  <2>. QED  BY <1>1, <1>2, <1>4, <1>5, <2>1, <2>2, ChangelogAssumption, TreeAssumption
            DEF TypeOK, Phase, NonRoot
<1>7. MarksUpwardClosed
  BY <1>5 DEF MarksUpwardClosed, ParentClosed
<1>8. CountedOnce /\ DatesInOrder /\ ChangedIsMarked /\ IdleIsBlank /\ NotifiedByHook
  BY <1>2, <1>3, <1>4
     DEF CountedOnce, DatesInOrder, ChangedIsMarked, IdleIsBlank, NotifiedByHook
<1>9. ConcealedIsHidden /\ TopNamed
  BY <1>2, <1>4, <1>5 DEF ConcealedIsHidden, TopNamed, Database
<1>. QED  BY <1>6, <1>7, <1>8, <1>9 DEF IInv

\* The blank changelog marks nothing.
LEMMA BlankFields ==
    /\ BlankLog \in ChangelogMetadata
    /\ BlankLog.changed_descendants = {} /\ BlankLog.changed_backrefs = {}
    /\ BlankLog.created = {}
    /\ \A r \in Resource : BlankLog.visibility[r] = "visible"
BY DEF BlankLog, ChangelogMetadata, Visibility

\* The invariant holds after a request has begun.
LEMMA BeginStep == IInv /\ Begin => IInv'
<1>. SUFFICES ASSUME IInv, Begin PROVE IInv'
  OBVIOUS
<1>1. /\ phase = "idle" /\ txn < MaxTxn /\ phase' = "open" /\ saved' = db
      /\ txn' = txn + 1 /\ ops' = 0
      /\ UNCHANGED <<db, log, top, notices, changed>>
  BY DEF Begin
<1>2. TypeOK /\ log = BlankLog /\ changed = {} /\ MarksUpwardClosed /\ ConcealedIsHidden
  BY <1>1 DEF IInv, IdleIsBlank
<1>3. txn \in Nat /\ db \in Database
  BY <1>2, TypeFacts
<1>4. TypeOK'
  <2>1. \A d \in {db', saved'} : d = db
    BY <1>1
  <2>2. txn' \in 0..MaxTxn /\ ops' \in 0..MaxOps
    BY <1>1, <1>3, ChangelogAssumption
  <2>. QED  BY <1>1, <1>2, <2>1, <2>2 DEF TypeOK, Phase
<1>5. MarksUpwardClosed' /\ ConcealedIsHidden'
  BY <1>1, <1>2 DEF MarksUpwardClosed, ConcealedIsHidden, ParentClosed
<1>6. CountedOnce'
  <2>1. ASSUME NEW r \in db.exists
        PROVE  /\ db.descendants[r] \in Nat /\ db.backrefs[r] \in Nat
    BY <1>3 DEF Database
  <2>2. log'.changed_descendants = {} /\ log'.changed_backrefs = {}
    BY <1>1, <1>2, BlankFields
  <2>. QED  BY <1>1, <2>1, <2>2 DEF CountedOnce
<1>7. DatesInOrder'
  <2>1. \A r \in Resource : db.date[r] \in Nat /\ db.date[r] <= txn
    BY <1>3 DEF IInv, DatesInOrder, Database
  <2>. QED  BY <1>1, <1>3, <2>1 DEF DatesInOrder
<1>8. ChangedIsMarked' /\ IdleIsBlank' /\ TopNamed' /\ NotifiedByHook'
  BY <1>1, <1>2 DEF IInv, ChangedIsMarked, IdleIsBlank, TopNamed, Misnamed, NotifiedByHook
<1>. QED  BY <1>4, <1>5, <1>6, <1>7, <1>8 DEF IInv

\* ... and after it has ended, by an abort or by the finished callbacks.
LEMMA EndStep == IInv /\ (Abort \/ Finish) => IInv'
<1>. SUFFICES ASSUME IInv, Abort \/ Finish PROVE IInv'
  OBVIOUS
<1>1. /\ phase # "idle" /\ phase' = "idle" /\ db' \in {db, saved}
      /\ log' = BlankLog /\ top' = [r \in Resource |-> Root] /\ changed' = {}
      /\ notices' \in {notices, {}}
      /\ UNCHANGED <<saved, txn, ops>>
  BY DEF Abort, Finish
<1>2. TypeOK
  BY DEF IInv
<1>3. TypeOK'
  <2>1. {db', saved'} \subseteq {db, saved}
    BY <1>1
  <2>2. \A n \in notices' : n \in notices
    BY <1>1
  <2>3. TopOK(top')
    BY <1>1, TreeAssumption DEF TopOK, NonRoot
  <2>. QED  BY <1>1, <1>2, <2>1, <2>2, <2>3, BlankFields DEF TypeOK, TopOK, Phase
<1>4. MarksUpwardClosed' /\ ConcealedIsHidden'
  BY <1>1, <1>3, TypeFacts, BlankFields
     DEF MarksUpwardClosed, ConcealedIsHidden, ParentClosed, TypeOK, Database
<1>5. DatesInOrder'
  <2>1. ASSUME NEW r \in Resource
        PROVE  db'.date[r] <= txn
    <3>1. /\ saved.date[r] \in Nat /\ txn \in Nat
          /\ db.date[r] <= txn /\ saved.date[r] < txn
      BY <1>1, <1>2, TypeFacts DEF IInv, DatesInOrder, Database
    <3>. QED  BY <1>1, <3>1
  <2>. QED  BY <1>1, <2>1 DEF DatesInOrder
<1>6. CountedOnce' /\ ChangedIsMarked' /\ IdleIsBlank' /\ NotifiedByHook'
  BY <1>1 DEF CountedOnce, ChangedIsMarked, IdleIsBlank, NotifiedByHook
<1>7. TopNamed'
  BY <1>1, <1>3, TypeFacts DEF TopNamed, TypeOK, Database
<1>. QED  BY <1>3, <1>4, <1>5, <1>6, <1>7 DEF IInv

\* ... and at the stages between: committed, and notified.
LEMMA CommitStep == IInv /\ Commit => IInv'
<1>. SUFFICES ASSUME IInv, Commit PROVE IInv'
  OBVIOUS
<1>1. /\ phase = "open" /\ phase' = "committed"
      /\ UNCHANGED <<db, saved, log, top, notices, txn, ops, changed>>
  BY DEF Commit
<1>2. TypeOK' /\ MarksUpwardClosed' /\ ConcealedIsHidden'
  BY <1>1 DEF IInv, TypeOK, Phase, MarksUpwardClosed, ConcealedIsHidden, ParentClosed
<1>3. CountedOnce' /\ DatesInOrder' /\ ChangedIsMarked' /\ IdleIsBlank' /\ NotifiedByHook'
      /\ TopNamed'
  BY <1>1 DEF IInv, CountedOnce, DatesInOrder, ChangedIsMarked, IdleIsBlank, TopNamed,
              Misnamed, NotifiedByHook
<1>. QED  BY <1>2, <1>3 DEF IInv

LEMMA NotifyStep == IInv /\ NotifyHook => IInv'
<1>. SUFFICES ASSUME IInv, NotifyHook PROVE IInv'
  OBVIOUS
<1>1. /\ phase = "committed" /\ phase' = "notified" /\ notices' = HookNotices
      /\ UNCHANGED <<db, saved, log, top, txn, ops, changed>>
  BY DEF NotifyHook
<1>2. \A n \in HookNotices : n.path \in Resource \cup {Elsewhere}
  <2>1. \A r \in Resource : HookPath(r) \in Resource \cup {Elsewhere}
    BY TreeAssumption DEF HookPath
  <2>2. \A n \in HookNotices : \E r \in Resource : n.path = HookPath(r)
    BY DEF HookNotices, Notice
  <2>. QED  BY <2>1, <2>2
<1>3. TypeOK'
  <2>1. \A n \in notices' : n.path \in Resource \cup {Elsewhere}
    BY <1>1, <1>2
  <2>. QED  BY <1>1, <2>1 DEF IInv, TypeOK, Phase
<1>4. MarksUpwardClosed' /\ ConcealedIsHidden'
  BY <1>1 DEF IInv, MarksUpwardClosed, ConcealedIsHidden, ParentClosed
<1>5. CountedOnce' /\ DatesInOrder' /\ ChangedIsMarked' /\ IdleIsBlank' /\ TopNamed'
  BY <1>1 DEF IInv, CountedOnce, DatesInOrder, ChangedIsMarked, IdleIsBlank, TopNamed, Misnamed
<1>6. NotifiedByHook'
  <2>1. HookNotices' = HookNotices
    BY <1>1 DEF HookNotices, Events, HookPath, HookLineage, Notice
  <2>. QED  BY <1>1, <2>1 DEF NotifiedByHook
<1>. QED  BY <1>3, <1>4, <1>5, <1>6 DEF IInv

LEMMA NextInvariant == IInv /\ [Next]_vars => IInv'
<1>. SUFFICES ASSUME IInv, [Next]_vars PROVE IInv'
  OBVIOUS
<1>1. ASSUME NEW M, NEW B, NEW D, Recorded(M, B, D), TypeOK', ConcealedIsHidden'
      PROVE  IInv'
  BY <1>1, RecordedKeeps DEF IInv
<1>2. ASSUME NEW r \in Resource, Modify(r)
      PROVE  IInv'
  BY <1>1, <1>2, ModifyStep
<1>3. ASSUME NEW r \in Resource, ModifyAcl(r)
      PROVE  IInv'
  BY <1>1, <1>3, ModifyAclStep
<1>4. ASSUME NEW r \in Resource, Delete(r)
      PROVE  IInv'
  BY <1>1, <1>4, DeleteStep
<1>5. ASSUME NEW r \in NonRoot, NEW withCreator \in BOOLEAN, Create(r, withCreator)
      PROVE  IInv'
  BY <1>1, <1>5, CreateStep
<1>6. ASSUME NEW r \in Resource, NEW newHidden \in BOOLEAN, SetHidden(r, newHidden)
      PROVE  IInv'
  BY <1>1, <1>6, SetHiddenStep
<1>7. ASSUME NEW s \in Resource, NEW t \in Resource, SetReference(s, t)
      PROVE  IInv'
  BY <1>1, <1>7, SetReferenceStep
<1>10. ASSUME NEW i \in Item, NEW withCreator \in BOOLEAN, CreateItem(i, withCreator)
       PROVE  IInv'
  BY <1>1, <1>10, CreateItemStep
<1>8. CASE Begin \/ Commit \/ Abort \/ NotifyHook \/ Finish
  BY <1>8, BeginStep, CommitStep, EndStep, NotifyStep
<1>9. CASE UNCHANGED vars
  <2>1. TypeOK' /\ MarksUpwardClosed' /\ CountedOnce'
    BY <1>9 DEF vars, IInv, TypeOK, MarksUpwardClosed, CountedOnce, ParentClosed
  <2>2. DatesInOrder' /\ ChangedIsMarked' /\ ConcealedIsHidden' /\ IdleIsBlank' /\ TopNamed'
    BY <1>9 DEF vars, IInv, DatesInOrder, ChangedIsMarked, ConcealedIsHidden, IdleIsBlank,
                TopNamed, Misnamed
  <2>3. HookNotices' = HookNotices
    BY <1>9 DEF vars, HookNotices, Events, HookPath, HookLineage, Notice
  <2>4. NotifiedByHook'
    BY <1>9, <2>3 DEF vars, IInv, NotifiedByHook
  <2>. QED  BY <2>1, <2>2, <2>4 DEF IInv
<1>. QED  BY <1>2, <1>3, <1>4, <1>5, <1>6, <1>7, <1>8, <1>9, <1>10 DEF Next

THEOREM Invariance == Spec => []IInv
BY InitInvariant, NextInvariant, PTL DEF Spec

-------------------------------------------------------------------------------
\* What it implies.

\* The database stays a tree without dangling references.
THEOREM TypeCorrect == Spec => []TypeOK
BY Invariance, PTL DEF IInv

\* Climbing may stop at the first marked pool.
THEOREM MarksStayUpwardClosed == Spec => []MarksUpwardClosed
BY Invariance, PTL DEF IInv

\* The counters grow by one per transaction, exactly where there is a mark.
THEOREM CountersCountTransactions == Spec => []CountedOnce
BY Invariance, PTL DEF IInv

\* What changed exists, and so does all that is above it.
LEMMA ChangedLineage ==
    ASSUME IInv, NEW r \in changed, NEW a \in Lineage(r)
    PROVE  /\ r \in Resource /\ r \in db.exists
           /\ a \in Resource /\ a \in db.exists
           /\ a = r \/ a \in Ancestors(r)
<1>1. /\ db.exists \in SUBSET Resource /\ ParentClosed(db.exists)
      /\ changed \subseteq db.exists
  BY TypeFacts DEF IInv, TypeOK, Database
<1>. DEFINE E == db.exists
<1>2. r \in E /\ E \in SUBSET Resource /\ ParentClosed(E)
  BY <1>1
<1>. HIDE DEF E
<1>3. Lineage(r) \subseteq E
  BY <1>2, ClosedHoldsLineage
<1>4. Ancestors(r) = Lineage(r) \ {r}
  BY <1>2, AncestorsOfLineage
<1>. QED  BY <1>2, <1>3, <1>4 DEF E

LEMMA ETagFollows == IInv => ETagTracksChange
<1>. SUFFICES ASSUME IInv, phase # "idle", NEW r \in changed,
                     NEW a \in Lineage(r) \ log.created
              PROVE  ETag(db, a) # ETag(saved, a)
  BY DEF ETagTracksChange
<1>1. /\ r \in Resource /\ a \in Resource /\ a \in db.exists \ log.created
      /\ a = r \/ a \in Ancestors(r)
  BY ChangedLineage
<1>2. /\ saved.descendants[a] \in Nat /\ saved.backrefs[a] \in Nat
      /\ saved.date[a] \in Nat /\ txn \in Nat
  BY <1>1, TypeFacts DEF IInv, Database
<1>3. /\ db.descendants[a] = saved.descendants[a]
              + (IF a \in log.changed_descendants THEN 1 ELSE 0)
      /\ db.backrefs[a] = saved.backrefs[a]
              + (IF a \in log.changed_backrefs THEN 1 ELSE 0)
  BY <1>1 DEF IInv, CountedOnce
<1>4. saved.date[a] < txn
  BY <1>1 DEF IInv, DatesInOrder
<1>5. CASE a = r
  <2>1. a \in log.changed_backrefs \/ db.date[a] = txn
    BY <1>5 DEF IInv, ChangedIsMarked
  <2>2. db.backrefs[a] # saved.backrefs[a] \/ db.date[a] # saved.date[a]
    BY <1>2, <1>3, <1>4, <2>1
  <2>. QED  BY <2>2 DEF ETag
<1>6. CASE a \in Ancestors(r)
  <2>1. a \in log.changed_descendants
    BY <1>6 DEF IInv, ChangedIsMarked
  <2>2. db.descendants[a] # saved.descendants[a]
    BY <1>2, <1>3, <2>1
  <2>. QED  BY <2>2 DEF ETag
<1>. QED  BY <1>1, <1>5, <1>6

\* No resource keeps its ETag over a transaction that changed it or what is below it.
THEOREM ETagsTrackChanges == Spec => []ETagTracksChange
BY Invariance, ETagFollows, PTL

LEMMA NoticesFollow == IInv => NoticesComplete
<1>. SUFFICES ASSUME IInv, phase = "notified", NEW r \in changed
              PROVE  /\ \/ IsHidden(db, r) \/ Misnamed(r)
                        \/ \E e \in {"modified", "created"} : Notice(e, r) \in notices
                     /\ \A a \in Ancestors(r) :
                           \/ IsHidden(db, a) \/ Misnamed(a)
                           \/ Notice("changed_descendants", a) \in notices
  BY DEF NoticesComplete
<1>1. ASSUME NEW a \in Resource, a \in db.exists, ~IsHidden(db, a), ~Misnamed(a)
      PROVE  /\ a \in log.modified \cup log.changed_backrefs =>
                    "modified" \in Events(a) \/ "created" \in Events(a)
             /\ a \in log.changed_descendants => "changed_descendants" \in Events(a)
             /\ \A e \in Events(a) : Notice(e, a) \in notices
  <2>1. top[a] = Root /\ top[a] # None
    BY <1>1, ChangelogAssumption, TreeAssumption DEF IInv, TopNamed
  <2>2. HookLineage(a) = Lineage(a) /\ HookPath(a) = a
    <3>1. \A b \in Lineage(a) : Root \in Lineage(b)
      BY <1>1, LineageClosed, TreeAssumption
    <3>. QED  BY <2>1, <3>1 DEF HookLineage, HookPath
  <2>3. Lineage(a) \cap db.hidden = {} /\ a \notin db.hidden
    BY <1>1, LineageClosed DEF IsHidden
  <2>4. log.visibility[a] = "concealed" => a \in log.created
    BY <1>1, <2>3 DEF IInv, ConcealedIsHidden
  <2>5. \A e \in Events(a) : Notice(e, a) \in notices
    BY <1>1, <2>2 DEF IInv, NotifiedByHook, HookNotices
  <2>. QED  BY <2>1, <2>2, <2>3, <2>4, <2>5 DEF Events
<1>2. r \in Resource /\ r \in db.exists
  <2>1. changed \subseteq db.exists /\ db.exists \subseteq Resource
    BY TypeFacts DEF IInv, TypeOK, Database
  <2>. QED  BY <2>1
<1>3. r \in log.modified \cup log.changed_backrefs
  BY DEF IInv, ChangedIsMarked
<1>4. ASSUME NEW a \in Ancestors(r)
      PROVE  /\ a \in Resource /\ a \in db.exists
             /\ a \in log.changed_descendants
  <2>1. a \in Lineage(r)
    BY <1>2, AncestorsOfLineage
  <2>2. a \in log.changed_descendants
    BY DEF IInv, ChangedIsMarked
  <2>. QED  BY <2>1, <2>2, ChangedLineage
<1>. QED  BY <1>1, <1>2, <1>3, <1>4

\* Whatever changed, may be shown and is named by its metadata is announced, and so is the change below every
\* pool above it that may be shown.
THEOREM NoticesAreComplete == Spec => []NoticesComplete
BY Invariance, NoticesFollow, PTL
===============================================================================
