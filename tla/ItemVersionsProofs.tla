--------------------------- MODULE ItemVersionsProofs ---------------------------
(* Proofs about ItemVersions, for any items and embeddings of items, and any    *)
(* number of versions, posts and transactions.                                  *)
EXTENDS ItemVersions, SequenceTheorems, TLAPS

--------------------------------------------------------------------------------
(* The inductive invariant, in two parts: what holds whatever embeds what, and  *)
(* what holds if no item embeds itself.                                         *)

Database ==
    [count : [Item -> 0..MaxVersions], refs : [Version -> SUBSET Version],
     follows : [Version -> SUBSET Version], last : [Item -> Version \cup {None}]]
CreationType ==
    [new : Version, old : Version, start : SUBSET Version, seen : SUBSET Version]

Typed ==
    /\ db \in Database /\ saved \in Database
    /\ created \in SUBSET Version
    /\ followedBy \in [Version -> Version \cup {None}]
    /\ lastVersion \in [Item -> Version \cup {None}]
    /\ stack \in Seq(CreationType)
    /\ phase \in {"idle", "open", "committed"}
    /\ batch \in BOOLEAN /\ posts \in 0..(MaxPosts + 1) /\ txn \in 0..MaxTxn

\* A version is in a database; it was made by the transaction.
IsIn(v, d) == v[2] <= d.count[v[1]]
IsNew(v, d, old) == IsIn(v, d) /\ ~ IsIn(v, old)

\* Tags are those of the newest versions, references and predecessors exist.
LastIsTagged(d) ==
    \A i \in Item : d.last[i] = IF d.count[i] = 0 THEN None ELSE <<i, d.count[i]>>
ReferencesExist(d) ==
    \A v \in Version :
        /\ ~ IsIn(v, d) => d.refs[v] = {} /\ d.follows[v] = {}
        /\ \A e \in d.refs[v] : IsIn(e, d) /\ e[1] \in Elements[v[1]]
        /\ \A f \in d.follows[v] : IsIn(f, d) /\ f[1] = v[1]
IsSound(d) == LastIsTagged(d) /\ ReferencesExist(d)

\* What the changelog names was made by the transaction.
LogIsFine ==
    /\ \A v \in created : IsNew(v, db, saved)
    /\ \A v \in Version :
           followedBy[v] # None => IsNew(followedBy[v], db, saved) /\ followedBy[v][1] = v[1]
    /\ \A i \in Item : lastVersion[i] # None => IsNew(lastVersion[i], db, saved) /\ lastVersion[i][1] = i
StackIsFine ==
    \A k \in DOMAIN stack :
        /\ IsNew(stack[k].new, db, saved) /\ IsIn(stack[k].old, db)
        /\ stack[k].new[1] = stack[k].old[1]

\* Between requests, and before the first post, nothing has happened.
IsClean ==
    /\ created = {} /\ followedBy = Blank /\ lastVersion = [i \in Item |-> None]
    /\ stack = <<>>
PhaseIsFine ==
    /\ phase = "idle" => IsClean
    /\ phase = "open" /\ posts = 0 => IsClean /\ db = saved
    /\ phase = "committed" => stack = <<>>

\* The transaction only adds to the saved versions.
SavedIsKept ==
    /\ \A i \in Item : saved.count[i] <= db.count[i]
    /\ \A v \in Version :
           IsIn(v, saved) => db.refs[v] = saved.refs[v] /\ db.follows[v] = saved.follows[v]

VersionsInv ==
    /\ Typed
    /\ IsSound(db) /\ IsSound(saved)
    /\ LogIsFine /\ StackIsFine /\ PhaseIsFine /\ SavedIsKept

--------------------------------------------------------------------------------
(* Databases.                                                                   *)

USE DEF ItemOf

\* A version is its item and its number, and is not None.
LEMMA VersionHasParts ==
    ASSUME NEW v \in Version
    PROVE  /\ v = <<v[1], v[2]>> /\ v[1] \in Item /\ v[2] \in Nat
           /\ v[2] >= 1 /\ v[2] <= MaxVersions /\ v # None
<1>1. /\ v = <<v[1], v[2]>> /\ v[1] \in Item /\ v[2] \in Nat
      /\ v[2] >= 1 /\ v[2] <= MaxVersions
    BY ItemAssumption DEF Version
<1>2. <<v[1], v[2]>> # <<>>
    OBVIOUS
<1> QED  BY <1>1, <1>2 DEF None

VersionsOf(d, i) == {v \in Existing(d) : v[1] = i}

\* The last version of an item that has versions.
LEMMA LastOfItem ==
    ASSUME NEW d \in Database, IsSound(d), NEW i \in Item, d.count[i] # 0
    PROVE  /\ d.last[i] = <<i, d.count[i]>> /\ d.last[i] \in Version
           /\ d.last[i][1] = i /\ d.last[i][2] = d.count[i] /\ IsIn(d.last[i], d)
<1>1. d.count[i] \in Nat /\ d.last[i] \in Version \cup {None}
    BY ItemAssumption DEF Database
<1>2. d.last[i] = IF d.count[i] = 0 THEN None ELSE <<i, d.count[i]>>
    BY DEF IsSound, LastIsTagged
<1>3. d.last[i] = <<i, d.count[i]>>
    BY <1>2
<1>4. <<i, d.count[i]>> # <<>>
    OBVIOUS
<1>5. d.last[i] \in Version
    BY <1>1, <1>3, <1>4 DEF None
<1>6. d.last[i][1] = i /\ d.last[i][2] = d.count[i]
    BY <1>3
<1>7. IsIn(d.last[i], d)
    BY <1>1, <1>6 DEF IsIn
<1> QED  BY <1>3, <1>5, <1>6, <1>7

\* Membership in the sets of ItemVersions.
LEMMA ExistingIsIn ==
    ASSUME NEW d
    PROVE  /\ \A v : v \in Existing(d) <=> v \in Version /\ IsIn(v, d)
           /\ \A i, v : v \in VersionsOf(d, i) <=> v \in Version /\ IsIn(v, d) /\ v[1] = i
           /\ \A i, e : e \in Elementary(d, i) <=>
                            e \in Version /\ IsIn(e, d) /\ e[1] \in Elements[i]
BY DEF Existing, Elementary, VersionsOf, IsIn

\* A version is added to a database and becomes the last of its item.
Adds(d, e, i, v, follows, elements) ==
    /\ e \in Database
    /\ v = <<i, d.count[i] + 1>>
    /\ e.count[i] = d.count[i] + 1 /\ \A j \in Item \ {i} : e.count[j] = d.count[j]
    /\ e.refs[v] = elements /\ \A w \in Version \ {v} : e.refs[w] = d.refs[w]
    /\ e.follows[v] = follows /\ \A w \in Version \ {v} : e.follows[w] = d.follows[w]
LEMMA WithVersionIsSound ==
    ASSUME NEW d \in Database, IsSound(d), NEW i \in Item, NEW v \in Version,
           v = NextVersion(d, i),
           NEW follows, follows \subseteq VersionsOf(d, i),
           NEW elements, elements \subseteq Elementary(d, i),
           NEW e, e = WithVersion(d, v, follows, elements)
    PROVE  IsSound(e) /\ Adds(d, e, i, v, follows, elements)
<1>1. /\ v = <<i, d.count[i] + 1>> /\ v[1] = i /\ v[2] = d.count[i] + 1
      /\ d.count[i] \in Nat /\ v[2] \in 0..MaxVersions
    BY VersionHasParts, ItemAssumption DEF NextVersion, Database
<1>2. elements \in SUBSET Version /\ follows \in SUBSET Version
    BY ExistingIsIn
<1>3. e = [d EXCEPT !.count = [@ EXCEPT ![i] = v[2]], !.refs = [@ EXCEPT ![v] = elements],
                    !.follows = [@ EXCEPT ![v] = follows], !.last = [@ EXCEPT ![i] = v]]
    BY <1>1 DEF WithVersion, Database
<1>4. /\ e.count = [d.count EXCEPT ![i] = v[2]] /\ e.refs = [d.refs EXCEPT ![v] = elements]
      /\ e.follows = [d.follows EXCEPT ![v] = follows] /\ e.last = [d.last EXCEPT ![i] = v]
    BY <1>3 DEF Database
<1>5. e \in Database
    <2>1. /\ [d.count EXCEPT ![i] = v[2]] \in [Item -> 0..MaxVersions]
          /\ [d.refs EXCEPT ![v] = elements] \in [Version -> SUBSET Version]
          /\ [d.follows EXCEPT ![v] = follows] \in [Version -> SUBSET Version]
          /\ [d.last EXCEPT ![i] = v] \in [Item -> Version \cup {None}]
        BY <1>1, <1>2 DEF Database
    <2> QED  BY <1>3, <2>1 DEF Database
<1>6. /\ e.count[i] = d.count[i] + 1 /\ \A j \in Item \ {i} : e.count[j] = d.count[j]
      /\ e.refs[v] = elements /\ \A w \in Version \ {v} : e.refs[w] = d.refs[w]
      /\ e.follows[v] = follows /\ \A w \in Version \ {v} : e.follows[w] = d.follows[w]
      /\ \A j \in Item : e.last[j] = IF j = i THEN v ELSE d.last[j]
    BY <1>1, <1>4 DEF Database
<1>7. LastIsTagged(e)
    BY <1>1, <1>6 DEF IsSound, LastIsTagged, Database
<1>8. \A w \in Version : IsIn(w, e) <=> IsIn(w, d) \/ w = v
    <2> SUFFICES ASSUME NEW w \in Version
                 PROVE  IsIn(w, e) <=> IsIn(w, d) \/ w = v
        OBVIOUS
    <2>1. w = <<w[1], w[2]>> /\ w[1] \in Item /\ w[2] \in Nat
        BY VersionHasParts
    <2>2. CASE w[1] = i
        BY <1>1, <1>6, <2>1, <2>2 DEF IsIn
    <2>3. CASE w[1] # i
        BY <1>1, <1>6, <2>1, <2>3 DEF IsIn
    <2> QED  BY <2>2, <2>3
<1>9. ReferencesExist(e)
    <2> SUFFICES ASSUME NEW w \in Version
                 PROVE  /\ ~ IsIn(w, e) => e.refs[w] = {} /\ e.follows[w] = {}
                        /\ \A r \in e.refs[w] : IsIn(r, e) /\ r[1] \in Elements[w[1]]
                        /\ \A f \in e.follows[w] : IsIn(f, e) /\ f[1] = w[1]
        BY DEF ReferencesExist
    <2>1. e.refs[w] \in SUBSET Version /\ e.follows[w] \in SUBSET Version
        BY <1>5 DEF Database
    <2>2. CASE w = v
        <3>1. e.refs[w] = elements /\ e.follows[w] = follows /\ w[1] = i /\ IsIn(w, e)
            BY <1>1, <1>6, <1>8, <2>2
        <3> QED  BY <1>8, <2>1, <3>1, ExistingIsIn
    <2>3. CASE w # v
        BY <1>6, <1>8, <2>1, <2>3 DEF IsSound, ReferencesExist
    <2> QED  BY <2>2, <2>3
<1>10. Adds(d, e, i, v, follows, elements)
    BY <1>1, <1>5, <1>6 DEF Adds
<1> QED  BY <1>7, <1>9, <1>10 DEF IsSound

\* What a step of the transaction does to the database: a version is added.
LEMMA Grows ==
    ASSUME VersionsInv, NEW i \in Item, NEW v \in Version, v = NextVersion(db, i),
           NEW follows, follows \subseteq VersionsOf(db, i),
           NEW elements, elements \subseteq Elementary(db, i),
           db' = WithVersion(db, v, follows, elements), saved' = saved
    PROVE  /\ db' \in Database /\ IsSound(db') /\ SavedIsKept'
           /\ v = <<i, db.count[i] + 1>>
           /\ \A w \in Version : /\ IsIn(w, db) => IsIn(w, db')
                                 /\ IsNew(w, db, saved) => IsNew(w, db', saved')
           /\ IsNew(v, db', saved')
<1>1. /\ db \in Database /\ saved \in Database /\ IsSound(db) /\ SavedIsKept
    BY DEF VersionsInv, Typed
<1>2. /\ db' \in Database /\ IsSound(db')
      /\ v = <<i, db.count[i] + 1>>
      /\ db'.count[i] = db.count[i] + 1 /\ \A j \in Item \ {i} : db'.count[j] = db.count[j]
      /\ db'.refs[v] = elements /\ \A w \in Version \ {v} : db'.refs[w] = db.refs[w]
      /\ db'.follows[v] = follows /\ \A w \in Version \ {v} : db'.follows[w] = db.follows[w]
    <2>1. IsSound(db') /\ Adds(db, db', i, v, follows, elements)
        BY <1>1, WithVersionIsSound
    <2>2. IsSound(db')
        BY <2>1 DEF IsSound, LastIsTagged, ReferencesExist, IsIn
    <2> QED  BY <2>1, <2>2 DEF Adds
<1>3. \A j \in Item : db.count[j] \in Nat /\ saved.count[j] \in Nat
    BY <1>1, ItemAssumption DEF Database
<1>4. \A j \in Item : db.count[j] <= db'.count[j] /\ saved.count[j] <= db.count[j]
    BY <1>1, <1>2, <1>3 DEF SavedIsKept
<1>5. ASSUME NEW w \in Version
      PROVE  (IsIn(w, db) => IsIn(w, db')) /\ (IsNew(w, db, saved) => IsNew(w, db', saved'))
    BY <1>2, <1>3, <1>4, VersionHasParts DEF IsIn, IsNew
<1>6. IsNew(v, db', saved')
    BY <1>2, <1>3, <1>4, VersionHasParts DEF IsIn, IsNew
<1>7. ASSUME NEW w \in Version, IsIn(w, saved)
      PROVE  w # v
    BY <1>2, <1>3, <1>4, <1>7 DEF IsIn
<1>8. SavedIsKept'
    <2>1. \A j \in Item : saved'.count[j] <= db'.count[j]
        BY <1>2, <1>3, <1>4
    <2>2. ASSUME NEW w \in Version, IsIn(w, saved')
          PROVE  db'.refs[w] = saved'.refs[w] /\ db'.follows[w] = saved'.follows[w]
        BY <1>1, <1>2, <1>7, <2>2 DEF SavedIsKept, IsIn
    <2> QED  BY <2>1, <2>2 DEF SavedIsKept
<1> QED  BY <1>2, <1>5, <1>6, <1>8

\* Or a version that the transaction has made is written to.
LEMMA Writes ==
    ASSUME VersionsInv, NEW v \in Version, IsNew(v, db, saved), saved' = saved,
           db' \in Database, db'.count = db.count, db'.last = db.last,
           \A w \in Version \ {v} :
               db'.refs[w] = db.refs[w] /\ db'.follows[w] = db.follows[w],
           db'.refs[v] \subseteq Elementary(db, v[1]),
           db'.follows[v] \subseteq VersionsOf(db, v[1])
    PROVE  /\ IsSound(db') /\ SavedIsKept'
           /\ \A w \in Version : /\ IsIn(w, db') <=> IsIn(w, db)
                                 /\ IsNew(w, db', saved') <=> IsNew(w, db, saved)
<1>1. /\ db \in Database /\ saved \in Database /\ IsSound(db) /\ SavedIsKept
    BY DEF VersionsInv, Typed
<1>2. ASSUME NEW w \in Version
      PROVE  (IsIn(w, db') <=> IsIn(w, db)) /\ (IsNew(w, db', saved') <=> IsNew(w, db, saved))
    BY DEF IsIn, IsNew
<1>3. LastIsTagged(db')
    BY <1>1 DEF IsSound, LastIsTagged
<1>4. ReferencesExist(db')
    <2> SUFFICES ASSUME NEW w \in Version
                 PROVE  /\ ~ IsIn(w, db') => db'.refs[w] = {} /\ db'.follows[w] = {}
                        /\ \A e \in db'.refs[w] : IsIn(e, db') /\ e[1] \in Elements[w[1]]
                        /\ \A f \in db'.follows[w] : IsIn(f, db') /\ f[1] = w[1]
        BY DEF ReferencesExist, IsIn
    <2>1. db'.refs[w] \in SUBSET Version /\ db'.follows[w] \in SUBSET Version
        BY DEF Database
    <2>2. CASE w = v
        BY <1>2, <2>1, <2>2, ExistingIsIn DEF IsNew
    <2>3. CASE w # v
        BY <1>1, <1>2, <2>1, <2>3 DEF IsSound, ReferencesExist
    <2> QED  BY <2>2, <2>3
<1>5. SavedIsKept'
    <2>1. \A j \in Item : saved'.count[j] <= db'.count[j]
        BY <1>1 DEF SavedIsKept
    <2>2. ASSUME NEW w \in Version, IsIn(w, saved')
          PROVE  db'.refs[w] = saved'.refs[w] /\ db'.follows[w] = saved'.follows[w]
        BY <1>1, <2>2 DEF SavedIsKept, IsIn, IsNew
    <2> QED  BY <2>1, <2>2 DEF SavedIsKept
<1> QED  BY <1>2, <1>3, <1>4, <1>5 DEF IsSound

--------------------------------------------------------------------------------
(* The stack.                                                                   *)

\* The innermost creation is the last of the stack.
LEMMA InnermostIsTyped ==
    ASSUME stack \in Seq(CreationType), stack # <<>>
    PROVE  /\ Len(stack) \in Nat \ {0} /\ Len(stack) \in DOMAIN stack
           /\ DOMAIN stack = 1..Len(stack)
           /\ Innermost = stack[Len(stack)] /\ Innermost \in CreationType
BY DEF Innermost, Last

\* A source is noted as notified.
LEMMA NotifiedKeepsStack ==
    ASSUME stack \in Seq(CreationType), stack # <<>>, NEW s \in Version
    PROVE  /\ Notified(s) \in Seq(CreationType) /\ Len(Notified(s)) = Len(stack)
           /\ \A k \in 1..Len(stack) :
                  /\ Notified(s)[k].new = stack[k].new /\ Notified(s)[k].old = stack[k].old
                  /\ Notified(s)[k].start = stack[k].start
                  /\ Notified(s)[k].seen =
                         IF k = Len(stack) THEN stack[k].seen \cup {s} ELSE stack[k].seen
<1> DEFINE n == Len(stack)
           top == [stack[n] EXCEPT !.seen = @ \cup {s}]
<1>1. n \in Nat \ {0} /\ n \in DOMAIN stack /\ stack[n] \in CreationType
    BY InnermostIsTyped
<1>2. /\ top \in CreationType /\ top.new = stack[n].new /\ top.old = stack[n].old
      /\ top.start = stack[n].start /\ top.seen = stack[n].seen \cup {s}
    BY <1>1 DEF CreationType
<1>3. Notified(s) = [stack EXCEPT ![n] = top]
    BY DEF Notified
<1> HIDE DEF top
<1>4. /\ [stack EXCEPT ![n] = top] \in Seq(CreationType)
      /\ Len([stack EXCEPT ![n] = top]) = n
      /\ \A k \in 1..n : [stack EXCEPT ![n] = top][k] = IF k = n THEN top ELSE stack[k]
    BY <1>1, <1>2, ExceptSeq
<1> QED  BY <1>1, <1>2, <1>3, <1>4

\* A creation is put on top of others, or taken from them.
LEMMA AppendKeepsStack ==
    ASSUME NEW other \in Seq(CreationType), NEW c \in CreationType
    PROVE  /\ Append(other, c) \in Seq(CreationType)
           /\ Len(Append(other, c)) = Len(other) + 1
           /\ \A k \in 1..Len(other) : Append(other, c)[k] = other[k]
           /\ Append(other, c)[Len(other) + 1] = c
OBVIOUS

\* The innermost creation is taken from the others.
LEMMA FrontKeepsStack ==
    ASSUME stack \in Seq(CreationType), stack # <<>>
    PROVE  /\ Front(stack) \in Seq(CreationType) /\ Len(Front(stack)) = Len(stack) - 1
           /\ \A k \in 1..(Len(stack) - 1) : Front(stack)[k] = stack[k]
BY DEF Front

\* The fields of a creation.
LEMMA CreationIsTyped ==
    ASSUME NEW new \in Version, NEW old \in Version, NEW d
    PROVE  /\ Creation(new, old, d) \in CreationType
           /\ Creation(new, old, d).new = new /\ Creation(new, old, d).old = old
           /\ Creation(new, old, d).start = Sources(d, old)
           /\ Creation(new, old, d).seen = {}
<1>1. Sources(d, old) \in SUBSET Version
    BY ExistingIsIn DEF Sources
<1> HIDE DEF Sources
<1> QED  BY <1>1 DEF Creation, CreationType

--------------------------------------------------------------------------------
(* Every step keeps the invariant.                                              *)

\* What the creations under way name stays.
LEMMA StackIsKept ==
    ASSUME VersionsInv, NEW other \in Seq(CreationType), Len(other) <= Len(stack),
           \A k \in 1..Len(other) : other[k].new = stack[k].new /\ other[k].old = stack[k].old,
           stack' = other,
           \A w \in Version : /\ IsIn(w, db) => IsIn(w, db')
                              /\ IsNew(w, db, saved) => IsNew(w, db', saved')
    PROVE  StackIsFine'
<1>1. stack \in Seq(CreationType) /\ StackIsFine
    BY DEF VersionsInv, Typed
<1>2. ASSUME NEW k \in 1..Len(other)
      PROVE  /\ IsNew(other[k].new, db', saved') /\ IsIn(other[k].old, db')
             /\ other[k].new[1] = other[k].old[1]
    <2>1. k \in DOMAIN stack /\ stack[k] \in CreationType
        BY <1>1
    <2>2. stack[k].new \in Version /\ stack[k].old \in Version
        BY <2>1 DEF CreationType
    <2>3. /\ IsNew(stack[k].new, db, saved) /\ IsIn(stack[k].old, db)
          /\ stack[k].new[1] = stack[k].old[1]
        BY <1>1, <2>1 DEF StackIsFine
    <2>4. IsNew(stack[k].new, db', saved') /\ IsIn(stack[k].old, db')
        BY <2>2, <2>3
    <2> QED  BY <2>3, <2>4 DEF IsIn, IsNew
<1>3. DOMAIN stack' = 1..Len(other)
    OBVIOUS
<1> QED  BY <1>2, <1>3 DEF StackIsFine, IsIn, IsNew

\* The part of a step that creates a successor.
LEMMA CreateVersionKeeps ==
    ASSUME VersionsInv, NEW i \in Item, NEW old \in Version, old \in VersionsOf(db, i),
           NEW elements, elements \subseteq Elementary(db, i),
           CreateVersion(i, old, elements), created' = created, saved' = saved
    PROVE  /\ db' \in Database /\ IsSound(db') /\ IsSound(saved') /\ SavedIsKept' /\ LogIsFine'
           /\ followedBy' \in [Version -> Version \cup {None}]
           /\ lastVersion' \in [Item -> Version \cup {None}]
           /\ NextVersion(db, i) \in Version
           /\ NextVersion(db, i)[1] = i
           /\ \A w \in Version : /\ IsIn(w, db) => IsIn(w, db')
                                 /\ IsNew(w, db, saved) => IsNew(w, db', saved')
           /\ IsNew(NextVersion(db, i), db', saved')
<1> DEFINE v == NextVersion(db, i)
<1>1. /\ v \in Version /\ db' = WithVersion(db, v, {old}, elements)
      /\ followedBy' = [followedBy EXCEPT ![old] = v]
      /\ lastVersion' = [lastVersion EXCEPT ![i] = v]
    BY DEF CreateVersion
<1>2. v[1] = i
    BY DEF NextVersion
<1>3. {old} \subseteq VersionsOf(db, i)
    OBVIOUS
<1> HIDE DEF v
<1>4. /\ db' \in Database /\ IsSound(db') /\ SavedIsKept'
      /\ \A w \in Version : /\ IsIn(w, db) => IsIn(w, db')
                            /\ IsNew(w, db, saved) => IsNew(w, db', saved')
      /\ IsNew(v, db', saved')
    BY <1>1, <1>3, Grows DEF v
<1>5. /\ followedBy \in [Version -> Version \cup {None}]
      /\ lastVersion \in [Item -> Version \cup {None}]
      /\ created \in SUBSET Version /\ LogIsFine /\ IsSound(saved)
    BY DEF VersionsInv, Typed
<1>6. /\ followedBy' \in [Version -> Version \cup {None}]
      /\ lastVersion' \in [Item -> Version \cup {None}]
    BY <1>1, <1>5
<1>7. IsSound(saved')
    BY <1>5 DEF IsSound, LastIsTagged, ReferencesExist, IsIn
<1>8. old[1] = i
    BY DEF VersionsOf
<1>9. LogIsFine'
    <2>1. ASSUME NEW w \in created'
          PROVE  IsNew(w, db', saved')
        BY <1>4, <1>5, <2>1 DEF LogIsFine
    <2>2. ASSUME NEW w \in Version, followedBy'[w] # None
          PROVE  IsNew(followedBy'[w], db', saved') /\ followedBy'[w][1] = w[1]
        <3>1. CASE w = old
            BY <1>1, <1>2, <1>4, <1>5, <1>8, <3>1
        <3>2. CASE w # old
            <4>1. followedBy'[w] = followedBy[w] /\ followedBy[w] \in Version
                BY <1>1, <1>5, <2>2, <3>2
            <4> QED  BY <1>4, <1>5, <2>2, <4>1 DEF LogIsFine
        <3> QED  BY <3>1, <3>2
    <2>3. ASSUME NEW j \in Item, lastVersion'[j] # None
          PROVE  IsNew(lastVersion'[j], db', saved') /\ lastVersion'[j][1] = j
        <3>1. CASE j = i
            BY <1>1, <1>2, <1>4, <1>5, <3>1
        <3>2. CASE j # i
            <4>1. lastVersion'[j] = lastVersion[j] /\ lastVersion[j] \in Version
                BY <1>1, <1>5, <2>3, <3>2
            <4> QED  BY <1>4, <1>5, <2>3, <4>1 DEF LogIsFine
        <3> QED  BY <3>1, <3>2
    <2>4. /\ \A w \in created' : IsNew(w, db', saved')
          /\ \A w \in Version :
                 followedBy'[w] # None => IsNew(followedBy'[w], db', saved') /\ followedBy'[w][1] = w[1]
          /\ \A j \in Item :
                 lastVersion'[j] # None => IsNew(lastVersion'[j], db', saved') /\ lastVersion'[j][1] = j
        BY <2>1, <2>2, <2>3
    <2> QED  BY <2>4 DEF LogIsFine, IsNew, IsIn
<1> QED  BY <1>1, <1>2, <1>4, <1>6, <1>7, <1>9 DEF v

\* A step that leaves both databases and what the changelog says as they are.
LEMMA NothingWritten ==
    ASSUME VersionsInv, db' = db, saved' = saved
    PROVE  /\ db' \in Database /\ saved' \in Database
           /\ IsSound(db') /\ IsSound(saved') /\ SavedIsKept'
           /\ \A w \in Version : /\ IsIn(w, db) => IsIn(w, db')
                                 /\ IsNew(w, db, saved) => IsNew(w, db', saved')
           /\ UNCHANGED changelog => LogIsFine'
<1>1. /\ db \in Database /\ saved \in Database
      /\ IsSound(db) /\ IsSound(saved) /\ SavedIsKept /\ LogIsFine
    BY DEF VersionsInv, Typed
<1>2. IsSound(db') /\ IsSound(saved')
    BY <1>1 DEF IsSound, LastIsTagged, ReferencesExist, IsIn
<1>3. SavedIsKept'
    BY <1>1 DEF SavedIsKept, IsIn
<1>4. UNCHANGED changelog => LogIsFine'
    BY <1>1 DEF LogIsFine, IsNew, IsIn, changelog
<1> QED  BY <1>1, <1>2, <1>3, <1>4 DEF IsIn, IsNew

\* What the changelog names stays new.
LEMMA LogIsKept ==
    ASSUME VersionsInv, UNCHANGED changelog,
           \A w \in Version : IsNew(w, db, saved) => IsNew(w, db', saved')
    PROVE  LogIsFine'
<1>1. /\ created' = created /\ followedBy' = followedBy /\ lastVersion' = lastVersion
      /\ Typed /\ LogIsFine
    BY DEF changelog, VersionsInv
<1>2. ASSUME NEW w \in created
      PROVE  IsNew(w, db', saved')
    BY <1>1 DEF LogIsFine, Typed
<1>3. ASSUME NEW w \in Version, followedBy[w] # None
      PROVE  IsNew(followedBy[w], db', saved') /\ followedBy[w][1] = w[1]
    BY <1>1, <1>3 DEF LogIsFine, Typed
<1>4. ASSUME NEW j \in Item, lastVersion[j] # None
      PROVE  IsNew(lastVersion[j], db', saved') /\ lastVersion[j][1] = j
    BY <1>1, <1>4 DEF LogIsFine, Typed
<1>5. /\ \A w \in created' : IsNew(w, db', saved')
      /\ \A w \in Version :
             followedBy'[w] # None => IsNew(followedBy'[w], db', saved') /\ followedBy'[w][1] = w[1]
      /\ \A j \in Item :
             lastVersion'[j] # None => IsNew(lastVersion'[j], db', saved') /\ lastVersion'[j][1] = j
    BY <1>1, <1>2, <1>3, <1>4
<1> QED  BY <1>5 DEF LogIsFine, IsNew, IsIn

\* An empty changelog has nothing wrong in it.
LEMMA CleanLogIsFine ==
    ASSUME created' = {}, followedBy' = Blank, lastVersion' = [i \in Item |-> None]
    PROVE  /\ LogIsFine' /\ created' \in SUBSET Version
           /\ followedBy' \in [Version -> Version \cup {None}]
           /\ lastVersion' \in [Item -> Version \cup {None}]
<1>1. /\ \A v \in Version : followedBy'[v] = None
      /\ \A i \in Item : lastVersion'[i] = None
    BY DEF Blank
<1> QED  BY <1>1 DEF LogIsFine, Blank

\* While a creation is under way, something was posted.
LEMMA CreatingIsAfterPost ==
    ASSUME VersionsInv, stack # <<>>, phase = "open"
    PROVE  posts # 0
BY DEF VersionsInv, PhaseIsFine, IsClean

\* Any first versions that refer to each other.
LEMMA InitIsFine ==
    ASSUME Init
    PROVE  VersionsInv
<1>1. PICK E \in SUBSET Item : \E refs \in [E -> SUBSET (Item \X {1})] :
          /\ \A i \in E : \A e \in refs[i] : ItemOf(e) \in Elements[i] \cap E
          /\ db = [count |-> [i \in Item |-> IF i \in E THEN 1 ELSE 0],
                   refs |-> [v \in Version |->
                                IF v[2] = 1 /\ ItemOf(v) \in E THEN refs[ItemOf(v)] ELSE {}],
                   follows |-> [v \in Version |-> {}],
                   last |-> [i \in Item |-> IF i \in E THEN <<i, 1>> ELSE None]]
    BY DEF Init
<1>2. /\ db \in Database /\ saved = db
      /\ \A i \in Item : /\ db.count[i] = IF i \in E THEN 1 ELSE 0
                         /\ db.last[i] = IF i \in E THEN <<i, 1>> ELSE None
      /\ \A v \in Version : /\ db.follows[v] = {}
                            /\ ~ (v[2] = 1 /\ v[1] \in E) => db.refs[v] = {}
                            /\ \A e \in db.refs[v] : e[2] = 1 /\ e[1] \in Elements[v[1]] \cap E
    <2>1. PICK refs \in [E -> SUBSET (Item \X {1})] :
             /\ \A i \in E : \A e \in refs[i] : e[1] \in Elements[i] \cap E
             /\ db = [count |-> [i \in Item |-> IF i \in E THEN 1 ELSE 0],
                      refs |-> [v \in Version |->
                                   IF v[2] = 1 /\ v[1] \in E THEN refs[v[1]] ELSE {}],
                      follows |-> [v \in Version |-> {}],
                      last |-> [i \in Item |-> IF i \in E THEN <<i, 1>> ELSE None]]
        BY <1>1
    <2>2. Item \X {1} \subseteq Version
        BY ItemAssumption DEF Version
    <2>3. /\ [i \in Item |-> IF i \in E THEN 1 ELSE 0] \in [Item -> 0..MaxVersions]
          /\ [v \in Version |-> IF v[2] = 1 /\ v[1] \in E THEN refs[v[1]] ELSE {}]
                \in [Version -> SUBSET Version]
          /\ [v \in Version |-> {}] \in [Version -> SUBSET Version]
          /\ [i \in Item |-> IF i \in E THEN <<i, 1>> ELSE None]
                \in [Item -> Version \cup {None}]
        <3>1. \A i \in E : refs[i] \in SUBSET Version
            BY <2>2
        <3>2. \A i \in Item : <<i, 1>> \in Version
            BY <2>2
        <3> QED  BY <3>1, <3>2, ItemAssumption
    <2>4. db \in Database
        BY <2>1, <2>3 DEF Database
    <2>5. /\ \A i \in Item : /\ db.count[i] = IF i \in E THEN 1 ELSE 0
                             /\ db.last[i] = IF i \in E THEN <<i, 1>> ELSE None
          /\ \A v \in Version :
                 /\ db.follows[v] = {}
                 /\ db.refs[v] = IF v[2] = 1 /\ v[1] \in E THEN refs[v[1]] ELSE {}
        BY <2>1
    <2>6. ASSUME NEW v \in Version
          PROVE  /\ ~ (v[2] = 1 /\ v[1] \in E) => db.refs[v] = {}
                 /\ \A e \in db.refs[v] : e[2] = 1 /\ e[1] \in Elements[v[1]] \cap E
        <3>1. CASE v[2] = 1 /\ v[1] \in E
            <4>1. db.refs[v] = refs[v[1]] /\ refs[v[1]] \in SUBSET (Item \X {1})
                BY <2>5, <3>1
            <4> QED  BY <2>1, <3>1, <4>1
        <3>2. CASE ~ (v[2] = 1 /\ v[1] \in E)
            BY <2>5, <3>2
        <3> QED  BY <3>1, <3>2
    <2> QED  BY <2>4, <2>5, <2>6 DEF Init
<1>3. /\ created = {} /\ followedBy = Blank /\ lastVersion = [i \in Item |-> None]
      /\ stack = <<>> /\ phase = "idle" /\ batch = FALSE /\ posts = 0 /\ txn = 0
    BY DEF Init
<1>4. Typed
    <2>1. /\ Blank \in [Version -> Version \cup {None}]
          /\ [i \in Item |-> None] \in [Item -> Version \cup {None}]
          /\ <<>> \in Seq(CreationType)
        BY DEF Blank
    <2>2. posts \in 0..(MaxPosts + 1) /\ txn \in 0..MaxTxn
        BY <1>3, ItemAssumption
    <2> QED  BY <1>2, <1>3, <2>1, <2>2 DEF Typed
<1>5. LastIsTagged(db)
    <2> SUFFICES ASSUME NEW i \in Item
                 PROVE  db.last[i] = IF db.count[i] = 0 THEN None ELSE <<i, db.count[i]>>
        BY DEF LastIsTagged
    <2>1. CASE i \in E
        <3>1. db.count[i] = 1 /\ db.last[i] = <<i, 1>>
            BY <1>2, <2>1
        <3> QED  BY <3>1
    <2>2. CASE i \notin E
        BY <1>2, <2>2
    <2> QED  BY <2>1, <2>2
<1>6. ReferencesExist(db)
    <2> SUFFICES ASSUME NEW v \in Version
                 PROVE  /\ ~ IsIn(v, db) => db.refs[v] = {} /\ db.follows[v] = {}
                        /\ \A e \in db.refs[v] : IsIn(e, db) /\ e[1] \in Elements[v[1]]
                        /\ \A f \in db.follows[v] : IsIn(f, db) /\ f[1] = v[1]
        BY DEF ReferencesExist
    <2>1. db.follows[v] = {} /\ db.refs[v] \in SUBSET Version
        BY <1>2 DEF Database
    <2>2. ~ IsIn(v, db) => db.refs[v] = {}
        BY <1>2, VersionHasParts DEF IsIn
    <2>3. ASSUME NEW e \in db.refs[v]
          PROVE  IsIn(e, db) /\ e[1] \in Elements[v[1]]
        BY <1>2, <2>1, <2>3, VersionHasParts DEF IsIn
    <2> QED  BY <2>1, <2>2, <2>3
<1>7. SavedIsKept
    BY <1>2, ItemAssumption DEF SavedIsKept, Database
<1>8. LogIsFine /\ StackIsFine /\ PhaseIsFine
    BY <1>3 DEF LogIsFine, StackIsFine, PhaseIsFine, IsClean, Blank
<1> QED  BY <1>2, <1>4, <1>5, <1>6, <1>7, <1>8 DEF VersionsInv, IsSound

\* A request begins between requests, when nothing is noted.
LEMMA BeginKeeps ==
    ASSUME VersionsInv, NEW isBatch \in BOOLEAN, Begin(isBatch)
    PROVE  VersionsInv'
<1>1. /\ Typed /\ IsSound(db) /\ IsClean
    BY DEF VersionsInv, PhaseIsFine, Begin
<1>2. /\ db' = db /\ saved' = db /\ UNCHANGED changelog /\ stack' = stack
      /\ phase' = "open" /\ batch' = isBatch /\ posts' = 0 /\ txn' = txn + 1 /\ txn < MaxTxn
    BY DEF Begin
<1>3. Typed'
    BY <1>1, <1>2, ItemAssumption DEF Typed, changelog
<1>4. IsSound(db') /\ IsSound(saved')
    BY <1>1, <1>2 DEF IsSound, LastIsTagged, ReferencesExist, IsIn
<1>5. SavedIsKept'
    BY <1>2, <1>3, ItemAssumption DEF SavedIsKept, Typed, Database
<1>6. IsClean'
    BY <1>1, <1>2 DEF IsClean, changelog
<1>7. LogIsFine'
    BY <1>6, CleanLogIsFine DEF IsClean
<1>8. StackIsFine' /\ PhaseIsFine'
    BY <1>2, <1>6 DEF StackIsFine, PhaseIsFine, IsClean
<1> QED  BY <1>3, <1>4, <1>5, <1>7, <1>8 DEF VersionsInv

\* A posted version that follows none: an item's first, or one without a predecessor.
LEMMA FollowingNoneKeeps ==
    ASSUME VersionsInv, NEW i \in Item, NEW elements \in SUBSET Elementary(db, i),
           Post, CreateFollowingNone(i, elements)
    PROVE  VersionsInv'
<1> DEFINE v == NextVersion(db, i)
<1>1. /\ Typed /\ IsSound(saved) /\ LogIsFine
      /\ phase = "open" /\ stack = <<>> /\ posts < (IF batch THEN MaxPosts ELSE 1)
      /\ posts' = posts + 1 /\ UNCHANGED <<request, phase>> /\ UNCHANGED <<followedBy, stack>>
      /\ v \in Version /\ db' = WithVersion(db, v, {}, elements)
      /\ created' = created \cup {v} /\ lastVersion' = [lastVersion EXCEPT ![i] = v]
    BY DEF VersionsInv, CreateFollowingNone, Post
<1>2. v \in Version /\ v = NextVersion(db, i) /\ v[1] = i
    BY <1>1 DEF NextVersion
<1> HIDE DEF v
<1>3. saved' = saved
    BY <1>1 DEF request
<1>4. /\ db' \in Database /\ IsSound(db') /\ SavedIsKept'
      /\ \A w \in Version : IsNew(w, db, saved) => IsNew(w, db', saved')
      /\ IsNew(v, db', saved')
    BY <1>1, <1>2, <1>3, Grows
<1>5. Typed'
    <2>1. posts' \in 0..(MaxPosts + 1)
        BY <1>1, ItemAssumption DEF Typed
    <2> QED  BY <1>1, <1>2, <1>3, <1>4, <2>1 DEF Typed, request
<1>6. IsSound(saved')
    BY <1>1, <1>3 DEF IsSound, LastIsTagged, ReferencesExist, IsIn
<1>7. LogIsFine'
    <2>1. ASSUME NEW w \in created'
          PROVE  IsNew(w, db', saved')
        BY <1>1, <1>4, <2>1 DEF LogIsFine, Typed
    <2>2. ASSUME NEW w \in Version, followedBy'[w] # None
          PROVE  IsNew(followedBy'[w], db', saved') /\ followedBy'[w][1] = w[1]
        <3>1. followedBy'[w] = followedBy[w] /\ followedBy[w] \in Version
            BY <1>1, <2>2 DEF Typed
        <3> QED  BY <1>1, <1>4, <2>2, <3>1 DEF LogIsFine
    <2>3. ASSUME NEW j \in Item, lastVersion'[j] # None
          PROVE  IsNew(lastVersion'[j], db', saved') /\ lastVersion'[j][1] = j
        <3>1. CASE j = i
            BY <1>1, <1>2, <1>4, <3>1 DEF Typed
        <3>2. CASE j # i
            <4>1. lastVersion'[j] = lastVersion[j] /\ lastVersion[j] \in Version
                BY <1>1, <2>3, <3>2 DEF Typed
            <4> QED  BY <1>1, <1>4, <2>3, <4>1 DEF LogIsFine
        <3> QED  BY <3>1, <3>2
    <2>4. /\ \A w \in created' : IsNew(w, db', saved')
          /\ \A w \in Version :
                 followedBy'[w] # None => IsNew(followedBy'[w], db', saved') /\ followedBy'[w][1] = w[1]
          /\ \A j \in Item :
                 lastVersion'[j] # None => IsNew(lastVersion'[j], db', saved') /\ lastVersion'[j][1] = j
        BY <2>1, <2>2, <2>3
    <2> QED  BY <2>4 DEF LogIsFine, IsNew, IsIn
<1>8. StackIsFine' /\ PhaseIsFine'
    BY <1>1, <1>5 DEF StackIsFine, PhaseIsFine, Typed
<1> QED  BY <1>4, <1>5, <1>6, <1>7, <1>8 DEF VersionsInv

\* A posted successor.
LEMMA PostVersionKeeps ==
    ASSUME VersionsInv, NEW i \in Item, NEW f \in Version,
           NEW elements \in SUBSET Elementary(db, i), PostVersion(i, f, elements)
    PROVE  VersionsInv'
<1> DEFINE v == NextVersion(db, i)
<1>1. /\ Typed /\ IsSound(saved) /\ LogIsFine
      /\ phase = "open" /\ stack = <<>> /\ posts < (IF batch THEN MaxPosts ELSE 1)
      /\ posts' = posts + 1 /\ UNCHANGED <<request, phase>> /\ created' = created
      /\ CreateVersion(i, f, elements) /\ stack' = <<Creation(v, f, db')>>
    BY DEF VersionsInv, PostVersion, Post
<1>2. f \in VersionsOf(db, i)
    BY ExistingIsIn DEF PostVersion, Predecessors
<1>3. saved' = saved
    BY <1>1 DEF request
<1>4. /\ db' \in Database /\ IsSound(db') /\ IsSound(saved') /\ SavedIsKept' /\ LogIsFine'
      /\ followedBy' \in [Version -> Version \cup {None}]
      /\ lastVersion' \in [Item -> Version \cup {None}]
      /\ v \in Version /\ v[1] = i
      /\ \A w \in Version : IsIn(w, db) => IsIn(w, db')
      /\ IsNew(v, db', saved')
    BY <1>1, <1>2, <1>3, CreateVersionKeeps
<1> HIDE DEF v
<1>5. /\ stack'[1].new = v /\ stack'[1].old = f
      /\ stack' \in Seq(CreationType) /\ DOMAIN stack' = {1}
    <2>1. /\ Creation(v, f, db') \in CreationType
          /\ Creation(v, f, db').new = v /\ Creation(v, f, db').old = f
        BY <1>4, CreationIsTyped
    <2> QED  BY <1>1, <2>1
<1>6. Typed'
    <2>1. posts' \in 0..(MaxPosts + 1)
        BY <1>1, ItemAssumption DEF Typed
    <2> QED  BY <1>1, <1>3, <1>4, <1>5, <2>1 DEF Typed, request
<1>7. StackIsFine'
    <2>1. IsNew(v, db', saved') /\ IsIn(f, db') /\ v[1] = f[1]
        BY <1>2, <1>4, ExistingIsIn
    <2>2. /\ IsNew(stack'[1].new, db', saved') /\ IsIn(stack'[1].old, db')
          /\ stack'[1].new[1] = stack'[1].old[1]
        BY <1>5, <2>1
    <2> QED  BY <1>5, <2>2 DEF StackIsFine, IsIn, IsNew
<1>8. PhaseIsFine'
    BY <1>1, <1>6 DEF PhaseIsFine, Typed
<1> QED  BY <1>4, <1>6, <1>7, <1>8 DEF VersionsInv

\* The version that a post goes to, because the batch has created it.
LEMMA LastIsNew ==
    ASSUME VersionsInv, NEW i \in Item, UpdatesLast(i)
    PROVE  db.last[i] \in Version /\ IsNew(db.last[i], db, saved) /\ db.last[i][1] = i
<1>1. /\ Typed /\ LastIsTagged(db) /\ LogIsFine /\ db.last[i] \in created
    BY DEF VersionsInv, IsSound, UpdatesLast
<1>2. db.last[i] \in Version /\ IsNew(db.last[i], db, saved)
    BY <1>1 DEF LogIsFine, Typed
<1>3. db.last[i] = IF db.count[i] = 0 THEN None ELSE <<i, db.count[i]>>
    BY <1>1 DEF LastIsTagged
<1> QED  BY <1>2, <1>3, VersionHasParts

\* What that version follows is of its item.
LEMMA FollowedByLast ==
    ASSUME VersionsInv, NEW i \in Item, UpdatesLast(i)
    PROVE  db.follows[db.last[i]] \in SUBSET VersionsOf(db, i)
<1> DEFINE v == db.last[i]
<1>1. Typed /\ ReferencesExist(db) /\ v \in Version /\ v[1] = i
    BY LastIsNew DEF VersionsInv, IsSound
<1> HIDE DEF v
<1>2. db.follows[v] \in SUBSET Version
    BY <1>1 DEF Typed, Database
<1>3. \A w \in db.follows[v] : IsIn(w, db) /\ w[1] = i
    BY <1>1, <1>2 DEF ReferencesExist
<1>4. db.follows[v] \in SUBSET VersionsOf(db, i)
    BY <1>2, <1>3, ExistingIsIn
<1> QED  BY <1>4 DEF v

\* A post to the version that the batch has created: that is a new one.
LEMMA UpdateKeeps ==
    ASSUME VersionsInv, NEW i \in Item, NEW follows \in SUBSET VersionsOf(db, i),
           NEW elements \in SUBSET Elementary(db, i),
           Post, UpdatesLast(i), UpdateVersion(db.last[i], follows, elements)
    PROVE  VersionsInv'
<1> DEFINE v == db.last[i]
<1>1. /\ Typed /\ IsSound(db) /\ IsSound(saved) /\ LogIsFine
      /\ phase = "open" /\ stack = <<>> /\ posts < (IF batch THEN MaxPosts ELSE 1)
      /\ posts' = posts + 1 /\ UNCHANGED <<request, phase>> /\ UNCHANGED <<changelog, stack>>
      /\ v \in created /\ db' = [db EXCEPT !.refs[v] = elements, !.follows[v] = follows]
    BY DEF VersionsInv, UpdateVersion, Post, UpdatesLast
<1>2. v \in Version /\ IsNew(v, db, saved) /\ v[1] = i
    BY LastIsNew
<1>3. /\ follows \subseteq VersionsOf(db, i) /\ elements \subseteq Elementary(db, v[1])
      /\ follows \in SUBSET Version /\ elements \in SUBSET Version
    BY <1>2, ExistingIsIn
<1> HIDE DEF v
<1>4. saved' = saved
    BY <1>1 DEF request
<1>5. /\ db' \in Database /\ db'.count = db.count /\ db'.last = db.last
      /\ db'.refs[v] = elements /\ db'.follows[v] = follows
      /\ \A w \in Version \ {v} : db'.refs[w] = db.refs[w] /\ db'.follows[w] = db.follows[w]
    <2>1. db' = [db EXCEPT !.refs = [@ EXCEPT ![v] = elements],
                           !.follows = [@ EXCEPT ![v] = follows]]
        BY <1>1
    <2>2. /\ [db.refs EXCEPT ![v] = elements] \in [Version -> SUBSET Version]
          /\ [db.follows EXCEPT ![v] = follows] \in [Version -> SUBSET Version]
        BY <1>1, <1>3 DEF Typed, Database
    <2>3. db \in Database
        BY <1>1 DEF Typed
    <2>4. /\ db'.refs = [db.refs EXCEPT ![v] = elements]
          /\ db'.follows = [db.follows EXCEPT ![v] = follows]
          /\ db'.count = db.count /\ db'.last = db.last
        BY <2>1, <2>3 DEF Database
    <2>5. db' \in Database
        BY <2>1, <2>2, <2>3 DEF Database
    <2> QED  BY <1>2, <2>3, <2>4, <2>5 DEF Database
<1>6. /\ IsSound(db') /\ SavedIsKept'
      /\ \A w \in Version : /\ IsIn(w, db') <=> IsIn(w, db)
                            /\ IsNew(w, db', saved') <=> IsNew(w, db, saved)
    <2>1. db'.refs[v] \subseteq Elementary(db, v[1]) /\ db'.follows[v] \subseteq VersionsOf(db, v[1])
        BY <1>2, <1>3, <1>5
    <2> QED  BY <1>2, <1>4, <1>5, <2>1, Writes
<1>7. Typed'
    <2>1. posts' \in 0..(MaxPosts + 1)
        BY <1>1, ItemAssumption DEF Typed
    <2> QED  BY <1>1, <1>4, <1>5, <2>1 DEF Typed, request, changelog
<1>8. IsSound(saved')
    BY <1>1, <1>4 DEF IsSound, LastIsTagged, ReferencesExist, IsIn
<1>9. LogIsFine'
    BY <1>1, <1>4, <1>6, LogIsKept
<1>10. StackIsFine' /\ PhaseIsFine'
    BY <1>1, <1>7 DEF StackIsFine, PhaseIsFine, Typed
<1> QED  BY <1>6, <1>7, <1>8, <1>9, <1>10 DEF VersionsInv

\* A post to it, with a predecessor.
LEMMA PostUpdateKeeps ==
    ASSUME VersionsInv, NEW i \in Item, NEW f \in Version,
           NEW elements \in SUBSET Elementary(db, i), PostUpdate(i, f, elements)
    PROVE  VersionsInv'
<1> DEFINE v == db.last[i]
           follows == IF v[2] = 1 THEN db.follows[v] ELSE {f}
<1>1. Post /\ UpdatesLast(i) /\ UpdateVersion(db.last[i], follows, elements)
    BY DEF PostUpdate
<1>2. follows \in SUBSET VersionsOf(db, i)
    BY <1>1, FollowedByLast, ExistingIsIn DEF PostUpdate, Predecessors
<1> HIDE DEF v, follows
<1> QED  BY <1>1, <1>2, UpdateKeeps

\* A post to it, without a predecessor.
LEMMA UpdateFollowingNoneKeeps ==
    ASSUME VersionsInv, NEW i \in Item, NEW elements \in SUBSET Elementary(db, i),
           UpdateFollowingNone(i, elements)
    PROVE  VersionsInv'
<1>1. /\ Post /\ UpdatesLast(i)
      /\ UpdateVersion(db.last[i], db.follows[db.last[i]], elements)
    BY DEF UpdateFollowingNone
<1>2. db.follows[db.last[i]] \in SUBSET VersionsOf(db, i)
    BY <1>1, FollowedByLast
<1> QED  BY <1>1, <1>2, UpdateKeeps

\* A source that is left alone.
LEMMA IgnoreKeeps ==
    ASSUME VersionsInv, NEW s \in Version, Ignore(s)
    PROVE  VersionsInv'
<1>1. /\ Typed /\ posts # 0 /\ phase = "open" /\ stack # <<>>
      /\ UNCHANGED <<request, phase, roots, posts>> /\ db' = db /\ UNCHANGED changelog
      /\ stack' = Notified(s)
    BY CreatingIsAfterPost DEF VersionsInv, Ignore, Notify
<1>2. saved' = saved
    BY <1>1 DEF request
<1>3. /\ IsSound(db') /\ IsSound(saved') /\ SavedIsKept' /\ LogIsFine'
      /\ \A w \in Version : /\ IsIn(w, db) => IsIn(w, db')
                            /\ IsNew(w, db, saved) => IsNew(w, db', saved')
    BY <1>1, <1>2, NothingWritten
<1>4. /\ Notified(s) \in Seq(CreationType) /\ Len(Notified(s)) = Len(stack)
      /\ \A k \in 1..Len(stack) :
             Notified(s)[k].new = stack[k].new /\ Notified(s)[k].old = stack[k].old
    BY <1>1, NotifiedKeepsStack DEF Typed
<1>5. Typed'
    BY <1>1, <1>2, <1>4 DEF Typed, request, changelog
<1>6. StackIsFine'
    <2> DEFINE other == Notified(s)
    <2>1. /\ other \in Seq(CreationType) /\ Len(other) <= Len(stack) /\ stack' = other
          /\ \A k \in 1..Len(other) : other[k].new = stack[k].new /\ other[k].old = stack[k].old
        BY <1>1, <1>4 DEF Typed
    <2> HIDE DEF other
    <2> QED  BY <1>3, <2>1, StackIsKept
<1>7. PhaseIsFine'
    BY <1>1 DEF PhaseIsFine
<1> QED  BY <1>3, <1>5, <1>6, <1>7 DEF VersionsInv

\* A source refers to the old version: it exists, and may refer to the new one.
LEMMA SourceExists ==
    ASSUME VersionsInv, stack # <<>>, NEW s \in Version, Innermost.old \in db.refs[s]
    PROVE  /\ IsIn(s, db) /\ s \in VersionsOf(db, s[1]) /\ s[1] \in Item
           /\ Updated(s) \in SUBSET Elementary(db, s[1])
<1>1. /\ Typed /\ ReferencesExist(db) /\ StackIsFine
    BY DEF VersionsInv, IsSound
<1>2. /\ Innermost \in CreationType
      /\ IsIn(Innermost.new, db) /\ IsIn(Innermost.old, db)
      /\ Innermost.new[1] = Innermost.old[1]
    BY <1>1, InnermostIsTyped DEF Typed, StackIsFine, IsNew
<1>3. Innermost.new \in Version /\ Innermost.old \in Version
    BY <1>2 DEF CreationType
<1>4. db.refs[s] \in SUBSET Version
    BY <1>1 DEF Typed, Database
<1>5. /\ IsIn(s, db) /\ \A e \in db.refs[s] : IsIn(e, db) /\ e[1] \in Elements[s[1]]
    BY <1>1 DEF ReferencesExist
<1>6. IsIn(Innermost.new, db) /\ Innermost.new[1] \in Elements[s[1]]
    BY <1>2, <1>5
<1> HIDE DEF Innermost
<1>7. \A e \in Updated(s) : e \in Version /\ IsIn(e, db) /\ e[1] \in Elements[s[1]]
    BY <1>3, <1>4, <1>5, <1>6 DEF Updated
<1> QED  BY <1>5, <1>7, ExistingIsIn, VersionHasParts

\* The version of this transaction that a source's item has, if it has one.
LEMMA LastVersionCreatedIsNew ==
    ASSUME VersionsInv, NEW s \in Version, LastVersionCreated(s) # None
    PROVE  /\ LastVersionCreated(s) \in Version /\ LastVersionCreated(s)[1] = s[1]
           /\ IsNew(LastVersionCreated(s), db, saved)
<1>1. Typed /\ LogIsFine
    BY DEF VersionsInv
<1>2. s[1] \in Item
    BY VersionHasParts
<1>3. CASE batch
    <2>1. LastVersionCreated(s) = lastVersion[s[1]]
        BY <1>3 DEF LastVersionCreated
    <2> QED  BY <1>1, <1>2, <2>1 DEF Typed, LogIsFine
<1>4. CASE ~ batch /\ s \in created
    BY <1>1, <1>4 DEF LogIsFine, LastVersionCreated
<1>5. CASE ~ batch /\ s \notin created
    <2>1. LastVersionCreated(s) = followedBy[s]
        BY <1>5 DEF LastVersionCreated
    <2> QED  BY <1>1, <2>1 DEF Typed, LogIsFine
<1> QED  BY <1>1, <1>3, <1>4, <1>5 DEF Typed

\* A source whose item has a version of this transaction: that is a new one.
LEMMA AutoUpdateKeeps ==
    ASSUME VersionsInv, NEW s \in Version, AutoUpdate(s)
    PROVE  VersionsInv'
<1> DEFINE v == LastVersionCreated(s)
           elements == Updated(s)
<1>1. /\ Typed /\ IsSound(db) /\ IsSound(saved) /\ posts # 0 /\ phase = "open" /\ stack # <<>>
      /\ UNCHANGED <<request, phase, roots, posts>> /\ UNCHANGED changelog
      /\ stack' = Notified(s) /\ v # None /\ db' = [db EXCEPT !.refs[v] = elements]
      /\ Innermost.old \in db.refs[s]
    BY CreatingIsAfterPost DEF VersionsInv, AutoUpdate, Notify
<1>2. v \in Version /\ IsNew(v, db, saved) /\ v[1] = s[1]
    BY <1>1, LastVersionCreatedIsNew
<1>3. /\ elements \in SUBSET Elementary(db, v[1]) /\ elements \in SUBSET Version
    BY <1>1, <1>2, SourceExists, ExistingIsIn
<1> HIDE DEF v, elements
<1>4. saved' = saved
    BY <1>1 DEF request
<1>5. /\ db' \in Database /\ db'.count = db.count /\ db'.last = db.last
      /\ db'.refs[v] = elements /\ db'.follows[v] = db.follows[v]
      /\ \A w \in Version \ {v} : db'.refs[w] = db.refs[w] /\ db'.follows[w] = db.follows[w]
    <2>1. db \in Database
        BY <1>1 DEF Typed
    <2>2. db' = [db EXCEPT !.refs = [@ EXCEPT ![v] = elements]]
        BY <1>1
    <2>3. [db.refs EXCEPT ![v] = elements] \in [Version -> SUBSET Version]
        BY <1>3, <2>1 DEF Database
    <2>4. /\ db'.refs = [db.refs EXCEPT ![v] = elements]
          /\ db'.follows = db.follows /\ db'.count = db.count /\ db'.last = db.last
        BY <2>1, <2>2 DEF Database
    <2>5. db' \in Database
        BY <2>1, <2>2, <2>3 DEF Database
    <2> QED  BY <1>2, <2>1, <2>4, <2>5 DEF Database
<1>6. db.follows[v] \subseteq VersionsOf(db, v[1])
    <2>1. db.follows[v] \in SUBSET Version
        BY <1>1, <1>2 DEF Typed, Database
    <2>2. \A w \in db.follows[v] : IsIn(w, db) /\ w[1] = v[1]
        BY <1>1, <1>2, <2>1 DEF IsSound, ReferencesExist
    <2> QED  BY <2>1, <2>2, ExistingIsIn
<1>7. /\ IsSound(db') /\ SavedIsKept'
      /\ \A w \in Version : /\ IsIn(w, db') <=> IsIn(w, db)
                            /\ IsNew(w, db', saved') <=> IsNew(w, db, saved)
    <2>1. db'.refs[v] \subseteq Elementary(db, v[1]) /\ db'.follows[v] \subseteq VersionsOf(db, v[1])
        BY <1>3, <1>5, <1>6
    <2> QED  BY <1>2, <1>4, <1>5, <2>1, Writes
<1>8. /\ Notified(s) \in Seq(CreationType) /\ Len(Notified(s)) = Len(stack)
      /\ \A k \in 1..Len(stack) :
             Notified(s)[k].new = stack[k].new /\ Notified(s)[k].old = stack[k].old
    BY <1>1, NotifiedKeepsStack DEF Typed
<1>9. Typed'
    BY <1>1, <1>4, <1>5, <1>8 DEF Typed, request, changelog
<1>10. IsSound(saved')
    BY <1>1, <1>4 DEF IsSound, LastIsTagged, ReferencesExist, IsIn
<1>11. LogIsFine'
    BY <1>1, <1>7, LogIsKept
<1>12. StackIsFine'
    <2>1. \A w \in Version : /\ IsIn(w, db) => IsIn(w, db')
                             /\ IsNew(w, db, saved) => IsNew(w, db', saved')
        BY <1>7
    <2>2. Notified(s) \in Seq(CreationType) /\ Len(Notified(s)) <= Len(stack)
        BY <1>1, <1>8 DEF Typed
    <2> QED  BY <1>1, <1>8, <2>1, <2>2, StackIsKept
<1>13. PhaseIsFine'
    BY <1>1 DEF PhaseIsFine
<1> QED  BY <1>7, <1>9, <1>10, <1>11, <1>12, <1>13 DEF VersionsInv

\* A source that gets a successor.
LEMMA AutoCreateKeeps ==
    ASSUME VersionsInv, NEW s \in Version, AutoCreate(s)
    PROVE  VersionsInv'
<1> DEFINE i == s[1]
           v == NextVersion(db, i)
           other == Notified(s)
           top == Creation(v, s, db')
<1>1. /\ Typed /\ posts # 0 /\ phase = "open" /\ stack # <<>>
      /\ UNCHANGED <<request, phase, roots, posts>> /\ created' = created
      /\ CreateVersion(i, s, Updated(s)) /\ stack' = Append(other, top)
      /\ Innermost.old \in db.refs[s]
    BY CreatingIsAfterPost DEF VersionsInv, AutoCreate, Notify
<1>2. /\ s \in VersionsOf(db, i) /\ i \in Item /\ Updated(s) \subseteq Elementary(db, i)
      /\ IsIn(s, db)
    BY <1>1, SourceExists
<1>3. saved' = saved
    BY <1>1 DEF request
<1>4. /\ db' \in Database /\ IsSound(db') /\ IsSound(saved') /\ SavedIsKept' /\ LogIsFine'
      /\ followedBy' \in [Version -> Version \cup {None}]
      /\ lastVersion' \in [Item -> Version \cup {None}]
      /\ v \in Version /\ v[1] = i
      /\ \A w \in Version : /\ IsIn(w, db) => IsIn(w, db')
                            /\ IsNew(w, db, saved) => IsNew(w, db', saved')
      /\ IsNew(v, db', saved')
    BY <1>1, <1>2, <1>3, CreateVersionKeeps
<1> HIDE DEF v
<1>5. top \in CreationType /\ top.new = v /\ top.old = s
    BY <1>4, CreationIsTyped
<1>6. /\ other \in Seq(CreationType) /\ Len(other) = Len(stack)
      /\ \A k \in 1..Len(stack) : other[k].new = stack[k].new /\ other[k].old = stack[k].old
    BY <1>1, NotifiedKeepsStack DEF Typed
<1> HIDE DEF top, other
<1>7. /\ stack' \in Seq(CreationType) /\ Len(stack') = Len(stack) + 1
      /\ \A k \in 1..Len(stack) : stack'[k] = other[k]
      /\ stack'[Len(stack) + 1] = top
    BY <1>1, <1>5, <1>6, AppendKeepsStack
<1>8. Typed'
    BY <1>1, <1>3, <1>4, <1>7 DEF Typed, request
<1>9. StackIsFine'
    <2> SUFFICES ASSUME NEW k \in 1..(Len(stack) + 1)
                 PROVE  /\ IsNew(stack'[k].new, db', saved') /\ IsIn(stack'[k].old, db')
                        /\ stack'[k].new[1] = stack'[k].old[1]
        BY <1>7 DEF StackIsFine, IsIn, IsNew
    <2>1. CASE k = Len(stack) + 1
        BY <1>2, <1>4, <1>5, <1>7, <2>1
    <2>2. CASE k # Len(stack) + 1
        <3>1. k \in 1..Len(stack) /\ k \in DOMAIN stack /\ stack[k] \in CreationType
            BY <1>1, <2>2 DEF Typed
        <3>2. /\ stack[k].new \in Version /\ stack[k].old \in Version
              /\ IsNew(stack[k].new, db, saved) /\ IsIn(stack[k].old, db)
              /\ stack[k].new[1] = stack[k].old[1]
            BY <3>1 DEF VersionsInv, StackIsFine, CreationType
        <3>3. stack'[k].new = stack[k].new /\ stack'[k].old = stack[k].old
            BY <1>6, <1>7, <3>1
        <3> QED  BY <1>4, <3>2, <3>3
    <2> QED  BY <2>1, <2>2
<1>10. PhaseIsFine'
    BY <1>1 DEF PhaseIsFine
<1> QED  BY <1>4, <1>8, <1>9, <1>10 DEF VersionsInv

\* The innermost creation ends.
LEMMA CreatedKeeps ==
    ASSUME VersionsInv, Created
    PROVE  VersionsInv'
<1>1. /\ Typed /\ LogIsFine /\ StackIsFine /\ posts # 0 /\ phase = "open" /\ stack # <<>>
      /\ db' = db /\ UNCHANGED <<request, followedBy, lastVersion, phase, posts>>
      /\ created' = created \cup {Innermost.new} /\ stack' = Front(stack)
    BY CreatingIsAfterPost DEF VersionsInv, Created
<1>2. saved' = saved
    BY <1>1 DEF request
<1>3. /\ IsSound(db') /\ IsSound(saved') /\ SavedIsKept'
      /\ \A w \in Version : IsIn(w, db) => IsIn(w, db')
    BY <1>1, <1>2, NothingWritten
<1>4. Innermost.new \in Version /\ IsNew(Innermost.new, db, saved)
    BY <1>1, InnermostIsTyped DEF Typed, StackIsFine, CreationType
<1>5. Front(stack) \in Seq(CreationType) /\ Len(Front(stack)) <= Len(stack)
      /\ \A k \in 1..Len(Front(stack)) :
             Front(stack)[k].new = stack[k].new /\ Front(stack)[k].old = stack[k].old
    BY <1>1, FrontKeepsStack DEF Typed
<1>6. Typed'
    BY <1>1, <1>2, <1>4, <1>5 DEF Typed, request
<1>7. LogIsFine'
    <2>1. /\ \A w \in created' : IsNew(w, db, saved)
          /\ \A w \in Version :
                 followedBy[w] # None => IsNew(followedBy[w], db, saved) /\ followedBy[w][1] = w[1]
          /\ \A j \in Item :
                 lastVersion[j] # None => IsNew(lastVersion[j], db, saved) /\ lastVersion[j][1] = j
        BY <1>1, <1>4 DEF LogIsFine
    <2> QED  BY <1>1, <1>2, <2>1 DEF LogIsFine, IsNew, IsIn
<1>8. StackIsFine'
    <2> DEFINE other == Front(stack)
    <2>1. /\ other \in Seq(CreationType) /\ Len(other) <= Len(stack) /\ stack' = other
          /\ \A k \in 1..Len(other) : other[k].new = stack[k].new /\ other[k].old = stack[k].old
        BY <1>1, <1>5
    <2>2. \A w \in Version : /\ IsIn(w, db) => IsIn(w, db')
                             /\ IsNew(w, db, saved) => IsNew(w, db', saved')
        BY <1>3, <1>1, <1>2, NothingWritten
    <2> HIDE DEF other
    <2> QED  BY <2>1, <2>2, StackIsKept
<1>9. PhaseIsFine'
    BY <1>1 DEF PhaseIsFine
<1> QED  BY <1>3, <1>6, <1>7, <1>8, <1>9 DEF VersionsInv

\* A failed or aborted request.
LEMMA RollbackKeeps ==
    ASSUME VersionsInv, Rollback
    PROVE  VersionsInv'
<1>1. /\ Typed /\ IsSound(saved)
      /\ db' = saved /\ ClearChangelog /\ stack' = <<>> /\ phase' = "idle"
      /\ UNCHANGED <<request, posts>>
    BY DEF VersionsInv, Rollback
<1>2. saved' = saved
    BY <1>1 DEF request
<1>3. IsSound(db') /\ IsSound(saved')
    BY <1>1, <1>2 DEF IsSound, LastIsTagged, ReferencesExist, IsIn
<1>4. IsClean'
    BY <1>1 DEF IsClean, ClearChangelog
<1>5. /\ LogIsFine' /\ created' \in SUBSET Version
      /\ followedBy' \in [Version -> Version \cup {None}]
      /\ lastVersion' \in [Item -> Version \cup {None}]
    BY <1>4, CleanLogIsFine DEF IsClean
<1>6. Typed'
    BY <1>1, <1>2, <1>5 DEF Typed, request
<1>7. SavedIsKept'
    <2>1. \A i \in Item : saved.count[i] \in Nat
        BY <1>1, ItemAssumption DEF Typed, Database
    <2> QED  BY <1>1, <1>2, <2>1 DEF SavedIsKept
<1>8. StackIsFine' /\ PhaseIsFine'
    BY <1>1, <1>4 DEF StackIsFine, PhaseIsFine
<1> QED  BY <1>3, <1>5, <1>6, <1>7, <1>8 DEF VersionsInv

\* A request that is committed, and its finished callback.
LEMMA EndKeeps ==
    ASSUME VersionsInv, Commit \/ Finish
    PROVE  VersionsInv'
<1>1. /\ Typed /\ LogIsFine /\ stack = <<>> /\ phase \in {"open", "committed"}
      /\ db' = db /\ stack' = stack /\ UNCHANGED <<request, posts>>
    BY DEF VersionsInv, PhaseIsFine, Commit, Finish
<1>2. saved' = saved
    BY <1>1 DEF request
<1>3. IsSound(db') /\ IsSound(saved') /\ SavedIsKept' /\ (UNCHANGED changelog => LogIsFine')
    BY <1>1, <1>2, NothingWritten
<1>4. CASE Commit
    <2>1. UNCHANGED changelog /\ phase' = "committed"
        BY <1>4 DEF Commit
    <2>2. Typed'
        BY <1>1, <1>2, <2>1 DEF Typed, request, changelog
    <2> QED  BY <1>1, <1>3, <2>1, <2>2 DEF VersionsInv, StackIsFine, PhaseIsFine
<1>5. CASE Finish
    <2>1. ClearChangelog /\ phase' = "idle"
        BY <1>5 DEF Finish
    <2>2. IsClean'
        BY <1>1, <2>1 DEF IsClean, ClearChangelog
    <2>3. /\ LogIsFine' /\ created' \in SUBSET Version
          /\ followedBy' \in [Version -> Version \cup {None}]
          /\ lastVersion' \in [Item -> Version \cup {None}]
        BY <2>2, CleanLogIsFine DEF IsClean
    <2>4. Typed'
        BY <1>1, <1>2, <2>1, <2>3 DEF Typed, request
    <2> QED  BY <1>1, <1>3, <2>1, <2>2, <2>3, <2>4 DEF VersionsInv, StackIsFine, PhaseIsFine
<1> QED  BY <1>4, <1>5

\* A step of other parts of the system.
LEMMA NothingKeeps ==
    ASSUME VersionsInv, UNCHANGED vars
    PROVE  VersionsInv'
<1>1. /\ db' = db /\ saved' = saved /\ created' = created /\ followedBy' = followedBy
      /\ lastVersion' = lastVersion /\ stack' = stack /\ phase' = phase /\ batch' = batch
      /\ posts' = posts /\ txn' = txn
    BY DEF vars
<1>2. Typed' /\ StackIsFine' /\ PhaseIsFine'
    BY <1>1 DEF VersionsInv, Typed, StackIsFine, PhaseIsFine, IsClean, IsNew, IsIn
<1>3. IsSound(db') /\ IsSound(saved') /\ SavedIsKept' /\ LogIsFine'
    BY <1>1, NothingWritten DEF changelog
<1> QED  BY <1>2, <1>3 DEF VersionsInv

\* All steps together.
LEMMA StepIsFine ==
    ASSUME VersionsInv, [Next]_vars
    PROVE  VersionsInv'
<1>1. ASSUME NEW isBatch \in BOOLEAN, Begin(isBatch)
      PROVE  VersionsInv'
    BY <1>1, BeginKeeps
<1>2. ASSUME NEW i \in Item, NEW elements \in SUBSET Elementary(db, i), PostItem(i, elements)
      PROVE  VersionsInv'
    BY <1>2, FollowingNoneKeeps DEF PostItem
<1>3. ASSUME NEW i \in Item, NEW elements \in SUBSET Elementary(db, i), NEW f \in Version,
             PostVersion(i, f, elements)
      PROVE  VersionsInv'
    BY <1>3, PostVersionKeeps
<1>4. ASSUME NEW i \in Item, NEW elements \in SUBSET Elementary(db, i), NEW f \in Version,
             PostUpdate(i, f, elements)
      PROVE  VersionsInv'
    BY <1>4, PostUpdateKeeps
<1>5. ASSUME NEW s \in Version, Ignore(s)
      PROVE  VersionsInv'
    BY <1>5, IgnoreKeeps
<1>6. ASSUME NEW s \in Version, AutoUpdate(s)
      PROVE  VersionsInv'
    BY <1>6, AutoUpdateKeeps
<1>7. ASSUME NEW s \in Version, AutoCreate(s)
      PROVE  VersionsInv'
    BY <1>7, AutoCreateKeeps
<1>8. ASSUME NEW s \in Version, Fail(s)
      PROVE  VersionsInv'
    BY <1>8, RollbackKeeps DEF Fail
<1>9. CASE Created
    BY <1>9, CreatedKeeps
<1>10. CASE Abort
    BY <1>10, RollbackKeeps DEF Abort
<1>11. CASE Commit \/ Finish
    BY <1>11, EndKeeps
<1>12. CASE UNCHANGED vars
    BY <1>12, NothingKeeps
<1>13. ASSUME NEW i \in Item, NEW elements \in SUBSET Elementary(db, i),
              PostFollowingNone(i, elements)
       PROVE  VersionsInv'
    BY <1>13, FollowingNoneKeeps DEF PostFollowingNone
<1>14. ASSUME NEW i \in Item, NEW elements \in SUBSET Elementary(db, i),
              UpdateFollowingNone(i, elements)
       PROVE  VersionsInv'
    BY <1>14, UpdateFollowingNoneKeeps
<1> QED  BY <1>1, <1>2, <1>3, <1>4, <1>5, <1>6, <1>7, <1>8, <1>9, <1>10, <1>11, <1>12,
            <1>13, <1>14 DEF Next

\* The invariant holds of every behaviour.
THEOREM InvariantHolds == Spec => []VersionsInv
<1>1. Init => VersionsInv
    BY InitIsFine
<1>2. VersionsInv /\ [Next]_vars => VersionsInv'
    BY StepIsFine
<1> QED  BY <1>1, <1>2, PTL DEF Spec

\* The versions whose posts named no predecessor are there.
LooseExist == loose \subseteq Existing(db)

\* They stay, and what an aborted transaction has added goes with it.
LEMMA StepKeepsLoose ==
    ASSUME VersionsInv, VersionsInv', LooseExist, [Next]_vars
    PROVE  LooseExist'
<1>1. db \in Database /\ db' \in Database
    BY DEF VersionsInv, Typed
<1>2. ASSUME \A j \in Item : db.count[j] <= db'.count[j],
             \A w \in loose' : w \in loose \/ w \in Existing(db')
      PROVE  LooseExist'
    <2> SUFFICES ASSUME NEW w \in loose, w \in loose'
                 PROVE  w \in Existing(db')
        BY <1>2 DEF LooseExist
    <2>1. w \in Version /\ IsIn(w, db) /\ w[1] \in Item /\ w[2] \in Nat
        BY ExistingIsIn, VersionHasParts DEF LooseExist
    <2>2. db.count[w[1]] \in Nat /\ db'.count[w[1]] \in Nat
        BY <1>1, <2>1, ItemAssumption DEF Database
    <2>3. IsIn(w, db')
        BY <1>2, <2>1, <2>2 DEF IsIn
    <2> QED  BY <2>1, <2>3, ExistingIsIn
<1>3. ASSUME db'.count = db.count, loose' \subseteq loose
      PROVE  LooseExist'
    <2>1. \A j \in Item : db.count[j] \in Nat
        BY <1>1, ItemAssumption DEF Database
    <2> QED  BY <1>2, <1>3, <2>1
<1>4. ASSUME NEW i \in Item, NEW v \in Version, v = NextVersion(db, i), NEW follows, NEW elements,
             db' = WithVersion(db, v, follows, elements), loose' \subseteq loose \cup {v}
      PROVE  LooseExist'
    <2>1. db'.count = [db.count EXCEPT ![i] = db.count[i] + 1] /\ v[1] = i /\ v[2] = db.count[i] + 1
        BY <1>1, <1>4 DEF WithVersion, NextVersion, ItemOf, Database
    <2>2. \A j \in Item : db.count[j] \in Nat
        BY <1>1, ItemAssumption DEF Database
    <2>3. db'.count[i] = db.count[i] + 1 /\ \A j \in Item \ {i} : db'.count[j] = db.count[j]
        BY <1>1, <2>1 DEF Database
    <2>4. IsIn(v, db')
        BY <2>1, <2>2, <2>3 DEF IsIn
    <2>5. v \in Existing(db')
        BY <2>4, ExistingIsIn
    <2>6. \A j \in Item : db.count[j] <= db'.count[j]
        BY <2>2, <2>3
    <2> QED  BY <1>2, <1>4, <2>5, <2>6
<1>5. CASE Rollback
    BY <1>5 DEF Rollback, LooseExist
<1>6. ASSUME NEW i \in Item, NEW elements, PostItem(i, elements) \/ PostFollowingNone(i, elements)
      PROVE  LooseExist'
    <2>1. /\ NextVersion(db, i) \in Version
          /\ db' = WithVersion(db, NextVersion(db, i), {}, elements)
          /\ loose' \subseteq loose \cup {NextVersion(db, i)}
        BY <1>6 DEF PostItem, PostFollowingNone, CreateFollowingNone
    <2> QED  BY <1>4, <2>1
<1>7. ASSUME NEW i \in Item, NEW f \in Version, NEW elements, PostVersion(i, f, elements)
      PROVE  LooseExist'
    <2>1. /\ NextVersion(db, i) \in Version
          /\ db' = WithVersion(db, NextVersion(db, i), {f}, elements)
          /\ loose' = loose
        BY <1>7 DEF PostVersion, CreateVersion
    <2> QED  BY <1>4, <2>1
<1>8. ASSUME NEW i \in Item, NEW v, NEW follows, NEW elements, UpdateVersion(v, follows, elements),
             loose' \subseteq loose
      PROVE  LooseExist'
    BY <1>1, <1>3, <1>8 DEF UpdateVersion, Database
<1>9. ASSUME NEW i \in Item, NEW f \in Version, NEW elements, PostUpdate(i, f, elements)
      PROVE  LooseExist'
    BY <1>8, <1>9 DEF PostUpdate
<1>10. ASSUME NEW s \in Version, AutoCreate(s)
       PROVE  LooseExist'
    <2>1. /\ NextVersion(db, s[1]) \in Version
          /\ db' = WithVersion(db, NextVersion(db, s[1]), {s}, Updated(s))
          /\ loose' = loose
        BY <1>10 DEF AutoCreate, CreateVersion, Notify, ItemOf
    <2> QED  BY <1>4, <2>1, VersionHasParts
<1>11. ASSUME NEW s \in Version, AutoUpdate(s)
       PROVE  LooseExist'
    BY <1>1, <1>3, <1>11 DEF AutoUpdate, Notify, Database
<1>12. CASE \/ \E isBatch \in BOOLEAN : Begin(isBatch)
            \/ \E s \in Version : Ignore(s)
            \/ Created \/ Commit \/ Finish \/ UNCHANGED vars
    <2>1. db' = db /\ loose' = loose
        BY <1>12 DEF Begin, Ignore, Notify, Created, Commit, Finish, vars
    <2> QED  BY <2>1 DEF LooseExist
<1>13. ASSUME NEW i \in Item, NEW elements, UpdateFollowingNone(i, elements)
       PROVE  LooseExist'
    BY <1>8, <1>13 DEF UpdateFollowingNone
<1>14. CASE Abort \/ \E s \in Version : Fail(s)
    BY <1>5, <1>14 DEF Abort, Fail
<1> QED  BY <1>6, <1>7, <1>9, <1>10, <1>11, <1>12, <1>13, <1>14 DEF Next

\* The invariant gives the type invariant of ItemVersions.
LEMMA InvariantIsTypeOK ==
    ASSUME VersionsInv, LooseExist
    PROVE  TypeOK
<1>1. /\ Typed /\ IsSound(db) /\ IsSound(saved) /\ LogIsFine /\ StackIsFine
    BY DEF VersionsInv
<1>2. ASSUME NEW d \in Database, IsSound(d)
      PROVE  /\ d.count \in [Item -> 0..MaxVersions]
             /\ \A v \in Version :
                   /\ \A e \in d.refs[v] : e \in Existing(d) /\ ItemOf(e) \in Elements[ItemOf(v)]
                   /\ \A f \in d.follows[v] : f \in Existing(d) /\ ItemOf(f) = ItemOf(v)
                   /\ v \notin Existing(d) => d.refs[v] = {} /\ d.follows[v] = {}
             /\ \A i \in Item : d.last[i] = IF d.count[i] = 0 THEN None
                                            ELSE <<i, d.count[i]>>
    <2>1. d.count \in [Item -> 0..MaxVersions]
        BY DEF Database
    <2>2. ASSUME NEW v \in Version
          PROVE  /\ \A e \in d.refs[v] : e \in Existing(d) /\ ItemOf(e) \in Elements[ItemOf(v)]
                 /\ \A f \in d.follows[v] : f \in Existing(d) /\ ItemOf(f) = ItemOf(v)
                 /\ v \notin Existing(d) => d.refs[v] = {} /\ d.follows[v] = {}
        <3>1. d.refs[v] \in SUBSET Version /\ d.follows[v] \in SUBSET Version
            BY DEF Database
        <3>2. /\ ~ IsIn(v, d) => d.refs[v] = {} /\ d.follows[v] = {}
              /\ \A e \in d.refs[v] : IsIn(e, d) /\ e[1] \in Elements[v[1]]
              /\ \A f \in d.follows[v] : IsIn(f, d) /\ f[1] = v[1]
            BY <1>2 DEF IsSound, ReferencesExist
        <3> QED  BY <3>1, <3>2, ExistingIsIn DEF ItemOf
    <2> QED  BY <1>2, <2>1, <2>2 DEF IsSound, LastIsTagged
<1>3. \A w \in Version : IsIn(w, db) => w \in Existing(db)
    BY ExistingIsIn
<1>4. created \subseteq Existing(db)
    BY <1>1, <1>3 DEF Typed, LogIsFine, IsNew
<1>5. followedBy \in [Version -> Existing(db) \cup {None}]
    BY <1>1, <1>3 DEF Typed, LogIsFine, IsNew
<1>6. lastVersion \in [Item -> Existing(db) \cup {None}]
    BY <1>1, <1>3 DEF Typed, LogIsFine, IsNew
<1>7. \A k \in DOMAIN stack : {stack[k].new, stack[k].old} \subseteq Existing(db)
    <2> SUFFICES ASSUME NEW k \in DOMAIN stack
                 PROVE  stack[k].new \in Existing(db) /\ stack[k].old \in Existing(db)
        OBVIOUS
    <2>1. stack[k] \in CreationType
        BY <1>1 DEF Typed
    <2>2. stack[k].new \in Version /\ stack[k].old \in Version
        BY <2>1 DEF CreationType
    <2> QED  BY <1>1, <1>3, <2>2 DEF StackIsFine, IsNew
<1>8. \A d \in {db, saved} : d \in Database /\ IsSound(d)
    BY <1>1 DEF Typed
<1> QED  BY <1>1, <1>2, <1>4, <1>5, <1>6, <1>7, <1>8 DEF TypeOK, Typed, LooseExist

\* And that committed versions stay.
LEMMA InvariantKeepsCommitted ==
    ASSUME VersionsInv
    PROVE  CommittedVersionsStay
<1>1. /\ SavedIsKept /\ db \in Database /\ saved \in Database
    BY DEF VersionsInv, Typed
<1> SUFFICES ASSUME NEW v \in Existing(saved)
             PROVE  /\ v \in Existing(db)
                    /\ db.refs[v] = saved.refs[v] /\ db.follows[v] = saved.follows[v]
    BY DEF CommittedVersionsStay
<1>2. v \in Version /\ IsIn(v, saved)
    BY ExistingIsIn
<1>3. saved.count[v[1]] \in Nat /\ db.count[v[1]] \in Nat /\ v[2] \in Nat /\ v[1] \in Item
    BY <1>1, <1>2, VersionHasParts, ItemAssumption DEF Database
<1>4. IsIn(v, db)
    BY <1>1, <1>2, <1>3 DEF IsIn, SavedIsKept
<1>5. v \in Existing(db)
    BY <1>2, <1>4, ExistingIsIn
<1> QED  BY <1>1, <1>2, <1>5 DEF SavedIsKept

\* TypeOK: references, predecessors and tags name versions that exist, and so do the
\* changelog and the creations under way, whatever the automatic updates do.
THEOREM TypeIsCorrect == Spec => []TypeOK
<1>1. Init => VersionsInv /\ LooseExist
    BY InitIsFine DEF Init, LooseExist
<1>2. VersionsInv /\ LooseExist /\ [Next]_vars => (VersionsInv /\ LooseExist)'
    BY StepIsFine, StepKeepsLoose
<1>3. VersionsInv /\ LooseExist => TypeOK
    BY InvariantIsTypeOK
<1> QED  BY <1>1, <1>2, <1>3, PTL DEF Spec

\* CommittedVersionsStay: no post and no automatic update writes to a version that is
\* older than its transaction, also if items embed each other in a circle.
THEOREM CommittedVersionsAreKept == Spec => []CommittedVersionsStay
<1> QED  BY InvariantHolds, InvariantKeepsCommitted, PTL

--------------------------------------------------------------------------------
(* One new version of an item in a transaction, if no item embeds itself.       *)

IsRank(rank) == \A i \in Item : \A e \in Elements[i] : rank[e] < rank[i]
Acyclic == \E rank \in [Item -> Nat] : IsRank(rank)

\* An item gets a version by a creation under way.
IsMaking(creations, i) == \E k \in DOMAIN creations : creations[k].new[1] = i

\* The creations under way go upwards, from what is embedded to what embeds it.
StackRises ==
    \A rank \in [Item -> Nat] : IsRank(rank) =>
        \A k, l \in DOMAIN stack : k < l => rank[stack[k].new[1]] < rank[stack[l].new[1]]

\* The changelog, or a creation under way, tells which items have a new version.
IsKnown(d, i, made, creations) == <<i, d.count[i]>> \in made \/ IsMaking(creations, i)
MadeIsKnown ==
    phase # "idle" =>
        \A i \in Item : db.count[i] > saved.count[i] =>
            lastVersion[i] # None /\ IsKnown(db, i, created, stack)

OnceInv == OneVersionPerTransaction /\ MadeIsKnown /\ StackRises

\* An item without a new version gets one.
LEMMA MakesOne ==
    ASSUME VersionsInv, OnceInv, phase # "idle",
           NEW i \in Item, db.count[i] <= saved.count[i],
           NEW elements \in SUBSET Elementary(db, i),
           NEW follows \in SUBSET VersionsOf(db, i),
           NEW v \in Version, v = NextVersion(db, i),
           db' = WithVersion(db, v, follows, elements), saved' = saved,
           lastVersion' = [lastVersion EXCEPT ![i] = v],
           IsKnown(db', i, created', stack'), created \subseteq created',
           \A j \in Item : IsMaking(stack, j) => IsMaking(stack', j)
    PROVE  OneVersionPerTransaction' /\ MadeIsKnown'
<1>1. /\ db \in Database /\ saved \in Database /\ IsSound(db) /\ Typed
      /\ \A j \in Item : db.count[j] \in Nat /\ saved.count[j] \in Nat
    BY ItemAssumption DEF VersionsInv, Typed, Database
<1>2. Adds(db, db', i, v, follows, elements)
    BY <1>1, WithVersionIsSound
<1>3. db'.count[i] = db.count[i] + 1 /\ \A j \in Item \ {i} : db'.count[j] = db.count[j]
    BY <1>2 DEF Adds
<1>4. OneVersionPerTransaction'
    BY <1>1, <1>3 DEF OneVersionPerTransaction, OnceInv
<1>5. ASSUME NEW j \in Item, db'.count[j] > saved'.count[j]
      PROVE  lastVersion'[j] # None /\ IsKnown(db', j, created', stack')
    <2>1. CASE j = i
        BY <2>1, <1>1, VersionHasParts DEF Typed
    <2>2. CASE j # i
        <3>1. lastVersion'[j] = lastVersion[j] /\ db'.count[j] = db.count[j]
            BY <1>1, <1>3, <2>2 DEF Typed
        <3>2. lastVersion[j] # None /\ IsKnown(db, j, created, stack)
            BY <1>5, <3>1 DEF OnceInv, MadeIsKnown
        <3> QED  BY <3>1, <3>2 DEF IsKnown
    <2> QED  BY <2>1, <2>2
<1> QED  BY <1>4, <1>5 DEF MadeIsKnown, IsKnown, IsMaking

\* No item gets one.
LEMMA MakesNone ==
    ASSUME OnceInv, phase # "idle", db'.count = db.count, saved' = saved,
           lastVersion' = lastVersion,
           \A j \in Item : db.count[j] > saved.count[j] /\ IsKnown(db, j, created, stack) =>
                               IsKnown(db', j, created', stack')
    PROVE  OneVersionPerTransaction' /\ MadeIsKnown'
<1>1. OneVersionPerTransaction'
    BY DEF OneVersionPerTransaction, OnceInv
<1>2. ASSUME NEW j \in Item, db'.count[j] > saved'.count[j]
      PROVE  lastVersion'[j] # None /\ IsKnown(db', j, created', stack')
    BY <1>2 DEF OnceInv, MadeIsKnown
<1> QED  BY <1>1, <1>2 DEF MadeIsKnown, IsKnown, IsMaking

\* The creations under way stay, but for what was notified, and for the innermost.
LEMMA StackStillRises ==
    ASSUME OnceInv, Typed, NEW other \in Seq(CreationType), Len(other) <= Len(stack),
           \A k \in 1..Len(other) : other[k].new = stack[k].new, stack' = other
    PROVE  StackRises'
<1>1. DOMAIN other = 1..Len(other) /\ DOMAIN stack = 1..Len(stack) /\ DOMAIN other \subseteq DOMAIN stack
    BY DEF Typed
<1> SUFFICES ASSUME NEW rank \in [Item -> Nat], IsRank(rank),
                    NEW k \in DOMAIN other, NEW l \in DOMAIN other, k < l
             PROVE  rank[other[k].new[1]] < rank[other[l].new[1]]
    BY DEF StackRises, IsRank
<1>2. other[k].new = stack[k].new /\ other[l].new = stack[l].new
    BY <1>1
<1> QED  BY <1>1, <1>2 DEF OnceInv, StackRises

\* A post that makes a version finds none of its transaction.
LEMMA PostFindsNone ==
    ASSUME VersionsInv, OnceInv, NEW i \in Item, Post, db.count[i] > 0, ~ UpdatesLast(i)
    PROVE  db.count[i] <= saved.count[i]
<1>1. /\ Typed /\ IsSound(db) /\ phase = "open" /\ stack = <<>>
      /\ posts < (IF batch THEN MaxPosts ELSE 1)
      /\ ~ (batch /\ db.last[i] \in created) /\ db.count[i] > 0
      /\ db.count[i] \in Nat /\ saved.count[i] \in Nat
    BY ItemAssumption DEF VersionsInv, Typed, Database, Post, UpdatesLast
<1>2. CASE batch
    <2>1. db.last[i] = <<i, db.count[i]>>
        <3>1. db.count[i] # 0
            BY <1>1
        <3> QED  BY <1>1, <3>1, LastOfItem DEF Typed
    <2>2. ~ IsKnown(db, i, created, stack)
        BY <1>1, <1>2, <2>1 DEF IsKnown, IsMaking
    <2> QED  BY <1>1, <2>2 DEF OnceInv, MadeIsKnown
<1>3. CASE ~ batch
    <2>1. posts = 0
        BY <1>1, <1>3, ItemAssumption DEF Typed
    <2> QED  BY <1>1, <2>1 DEF VersionsInv, PhaseIsFine
<1> QED  BY <1>2, <1>3

\* So it makes the one.
LEMMA PostKeepsOnce ==
    ASSUME VersionsInv, OnceInv, NEW i \in Item, NEW elements \in SUBSET Elementary(db, i),
           \/ PostItem(i, elements) \/ PostFollowingNone(i, elements)
           \/ \E f \in Version : PostVersion(i, f, elements)
    PROVE  OnceInv'
<1>1. /\ Typed /\ LastIsTagged(db) /\ SavedIsKept /\ phase = "open" /\ stack = <<>>
      /\ saved' = saved
      /\ \A j \in Item : db.count[j] \in Nat /\ saved.count[j] \in Nat
    BY ItemAssumption DEF VersionsInv, IsSound, Typed, Database, PostItem, PostVersion,
                          PostFollowingNone, Post, request
<1>2. CASE PostItem(i, elements) \/ PostFollowingNone(i, elements)
    <2> DEFINE v == NextVersion(db, i)
    <2>1. /\ v \in Version /\ db' = WithVersion(db, v, {}, elements) /\ stack' = <<>>
          /\ created' = created \cup {v} /\ lastVersion' = [lastVersion EXCEPT ![i] = v]
        BY <1>1, <1>2 DEF PostItem, PostFollowingNone, CreateFollowingNone
    <2> HIDE DEF v
    <2>2. db.count[i] <= saved.count[i]
        <3>1. CASE PostItem(i, elements)
            BY <1>1, <3>1 DEF PostItem
        <3>2. CASE PostFollowingNone(i, elements)
            BY <3>2, PostFindsNone DEF PostFollowingNone
        <3> QED  BY <1>2, <3>1, <3>2
    <2>3. Adds(db, db', i, v, {}, elements)
        BY <1>1, <2>1, WithVersionIsSound DEF VersionsInv, Typed, v
    <2>4. v = <<i, db'.count[i]>>
        BY <2>1, <2>3 DEF Adds
    <2>5. IsKnown(db', i, created', stack')
        BY <2>1, <2>4 DEF IsKnown
    <2>6. OneVersionPerTransaction' /\ MadeIsKnown'
        BY <1>1, <2>1, <2>2, <2>5, MakesOne DEF v
    <2>7. StackRises'
        BY <2>1 DEF StackRises
    <2> QED  BY <2>6, <2>7 DEF OnceInv
<1>3. ASSUME NEW f \in Version, PostVersion(i, f, elements)
      PROVE  OnceInv'
    <2> DEFINE v == NextVersion(db, i)
    <2>1. /\ v \in Version /\ db' = WithVersion(db, v, {f}, elements)
          /\ lastVersion' = [lastVersion EXCEPT ![i] = v]
          /\ stack' = <<Creation(v, f, db')>> /\ created' = created
        BY <1>3 DEF PostVersion, CreateVersion
    <2>2. {f} \in SUBSET VersionsOf(db, i)
        BY <1>3, ExistingIsIn DEF PostVersion, Predecessors
    <2>3. db.count[i] <= saved.count[i]
        BY <1>3, PostFindsNone DEF PostVersion
    <2>4. v[1] = i
        BY DEF NextVersion
    <2> HIDE DEF v
    <2>5. Creation(v, f, db').new = v
        BY <2>1, CreationIsTyped
    <2>6. DOMAIN stack' = {1} /\ stack'[1].new = v
        BY <2>1, <2>5
    <2>7. IsKnown(db', i, created', stack')
        BY <2>4, <2>6 DEF IsKnown, IsMaking
    <2>8. \A j \in Item : ~ IsMaking(stack, j)
        BY <1>1 DEF IsMaking
    <2>9. OneVersionPerTransaction' /\ MadeIsKnown'
        BY <1>1, <2>1, <2>2, <2>3, <2>7, <2>8, MakesOne DEF v
    <2>10. StackRises'
        BY <2>6 DEF StackRises
    <2> QED  BY <2>9, <2>10 DEF OnceInv
<1> QED  BY <1>2, <1>3

\* A post to the version of its transaction makes none.
LEMMA PostUpdateKeepsOnce ==
    ASSUME VersionsInv, OnceInv, NEW i \in Item, NEW f \in Version,
           NEW elements \in SUBSET Elementary(db, i),
           PostUpdate(i, f, elements) \/ UpdateFollowingNone(i, elements)
    PROVE  OnceInv'
<1>1. /\ phase = "open" /\ stack = <<>> /\ stack' = <<>> /\ saved' = saved
      /\ created' = created /\ lastVersion' = lastVersion /\ db'.count = db.count
    BY DEF PostUpdate, UpdateFollowingNone, UpdateVersion, Post, request, changelog,
           VersionsInv, Typed, Database
<1>2. OneVersionPerTransaction' /\ MadeIsKnown'
    BY <1>1, MakesNone DEF IsKnown
<1>3. StackRises'
    BY <1>1 DEF StackRises
<1> QED  BY <1>2, <1>3 DEF OnceInv

\* Nor do notifications that are ignored, or update that version.
LEMMA NotifyKeepsOnce ==
    ASSUME VersionsInv, OnceInv, NEW s \in Version, Ignore(s) \/ AutoUpdate(s)
    PROVE  OnceInv'
<1>1. /\ Typed /\ phase = "open" /\ stack # <<>> /\ saved' = saved
      /\ created' = created /\ lastVersion' = lastVersion /\ stack' = Notified(s)
    BY DEF VersionsInv, Ignore, AutoUpdate, Notify, request, changelog
<1>2. db'.count = db.count
    <2>1. CASE Ignore(s)
        BY <2>1 DEF Ignore
    <2>2. CASE AutoUpdate(s)
        <3> DEFINE v == LastVersionCreated(s)
        <3>1. db' = [db EXCEPT !.refs[v] = Updated(s)] /\ db \in Database
            BY <1>1, <2>2 DEF AutoUpdate, Typed
        <3> QED  BY <3>1 DEF Database
    <2> QED  BY <2>1, <2>2
<1> DEFINE other == Notified(s)
<1>3. /\ other \in Seq(CreationType) /\ Len(other) = Len(stack) /\ stack' = other
      /\ \A k \in 1..Len(other) : other[k].new = stack[k].new
    BY <1>1, NotifiedKeepsStack DEF Typed
<1> HIDE DEF other
<1>4. /\ DOMAIN stack' = DOMAIN stack /\ \A k \in DOMAIN stack : stack'[k].new = stack[k].new
    BY <1>1, <1>3 DEF Typed
<1>5. \A j \in Item : IsKnown(db, j, created, stack) => IsKnown(db', j, created', stack')
    BY <1>1, <1>2, <1>4 DEF IsKnown, IsMaking
<1>6. OneVersionPerTransaction' /\ MadeIsKnown'
    BY <1>1, <1>2, <1>5, MakesNone
<1>7. StackRises'
    BY <1>1, <1>3, StackStillRises DEF Typed
<1> QED  BY <1>6, <1>7 DEF OnceInv

\* An item that embeds what is being created is not being created itself.
LEMMA EmbeddingIsAbove ==
    ASSUME VersionsInv, OnceInv, NEW s \in Version, stack # <<>>, Innermost.old \in db.refs[s],
           NEW rank \in [Item -> Nat], IsRank(rank)
    PROVE  \A k \in DOMAIN stack :
               /\ stack[k].new[1] \in Item
               /\ rank[stack[k].new[1]] < rank[s[1]]
<1>1. /\ Typed /\ ReferencesExist(db) /\ StackIsFine
    BY DEF VersionsInv, IsSound
<1>2. /\ Innermost \in CreationType /\ Innermost = stack[Len(stack)]
      /\ Len(stack) \in DOMAIN stack /\ DOMAIN stack = 1..Len(stack) /\ Len(stack) \in Nat
      /\ Innermost.new[1] = Innermost.old[1]
    BY <1>1, InnermostIsTyped DEF Typed, StackIsFine
<1>3. \A k \in DOMAIN stack : stack[k].new \in Version
    <2>1. \A k \in DOMAIN stack : stack[k] \in CreationType
        BY <1>1 DEF Typed
    <2> QED  BY <2>1 DEF CreationType
<1>4. \A k \in DOMAIN stack : stack[k].new[1] \in Item
    BY <1>3, VersionHasParts
<1>5. s[1] \in Item
    BY VersionHasParts
<1>6. Innermost.new[1] \in Elements[s[1]]
    <2>1. \A e \in db.refs[s] : e[1] \in Elements[s[1]]
        BY <1>1 DEF ReferencesExist
    <2> QED  BY <1>2, <2>1
<1>7. rank[Innermost.new[1]] < rank[s[1]]
    BY <1>5, <1>6 DEF IsRank
<1> SUFFICES ASSUME NEW k \in DOMAIN stack
             PROVE  rank[stack[k].new[1]] < rank[s[1]]
    BY <1>4
<1>8. CASE k = Len(stack)
    BY <1>2, <1>7, <1>8
<1>9. CASE k # Len(stack)
    <2>1. k < Len(stack)
        BY <1>2, <1>9
    <2>2. rank[stack[k].new[1]] < rank[stack[Len(stack)].new[1]]
        BY <1>2, <2>1 DEF OnceInv, StackRises
    <2>3. /\ rank[stack[k].new[1]] \in Nat /\ rank[s[1]] \in Nat
          /\ rank[stack[Len(stack)].new[1]] \in Nat
        BY <1>2, <1>4, <1>5
    <2>4. rank[stack[Len(stack)].new[1]] < rank[s[1]]
        BY <1>2, <1>7
    <2> QED  BY <2>2, <2>3, <2>4
<1> QED  BY <1>8, <1>9

\* An automatic update creates a version of an item that has none of this transaction.
LEMMA AutoCreateIsFirst ==
    ASSUME Acyclic \/ batch, VersionsInv, OnceInv, NEW s \in Version, AutoCreate(s)
    PROVE  /\ s[1] \in Item /\ s = <<s[1], db.count[s[1]]>> /\ s[2] = db.count[s[1]]
           /\ db.count[s[1]] = saved.count[s[1]] /\ db.count[s[1]] \in Nat
<1> DEFINE i == s[1]
<1>1. /\ Typed /\ LastIsTagged(db) /\ SavedIsKept /\ phase = "open" /\ stack # <<>>
      /\ Innermost.old \in db.refs[s] /\ LastVersionCreated(s) = None /\ db.last[i] = s
    BY DEF VersionsInv, IsSound, AutoCreate, Notify, IsLast
<1>2. i \in Item
    BY <1>1, SourceExists
<1>3. \A j \in Item : db.count[j] \in Nat /\ saved.count[j] \in Nat
    BY <1>1, ItemAssumption DEF Typed, Database
<1>4. batch \/ ~ IsMaking(stack, i)
    <2> SUFFICES ASSUME Acyclic
                 PROVE  ~ IsMaking(stack, i)
        OBVIOUS
    <2>1. PICK rank \in [Item -> Nat] : IsRank(rank)
        BY DEF Acyclic
    <2>2. \A k \in DOMAIN stack : rank[stack[k].new[1]] < rank[i]
        BY <1>1, <2>1, EmbeddingIsAbove
    <2> QED  BY <1>2, <1>3, <2>1, <2>2 DEF IsMaking
<1>5. s = <<i, db.count[i]>>
    BY <1>1, <1>2, VersionHasParts DEF LastIsTagged
<1>6. ~ (db.count[i] > saved.count[i])
    <2> SUFFICES ASSUME db.count[i] > saved.count[i]
                 PROVE  FALSE
        OBVIOUS
    <2>1. lastVersion[i] # None /\ IsKnown(db, i, created, stack)
        BY <1>1, <1>2 DEF OnceInv, MadeIsKnown
    <2>2. batch \/ s \in created
        BY <1>4, <1>5, <2>1 DEF IsKnown
    <2>3. s # None
        BY VersionHasParts
    <2> QED  BY <1>1, <2>1, <2>2, <2>3 DEF LastVersionCreated
<1>7. db.count[i] >= saved.count[i]
    BY <1>1, <1>2 DEF SavedIsKept
<1>8. s[2] = db.count[i]
    BY <1>5
<1> QED  BY <1>2, <1>3, <1>5, <1>6, <1>7, <1>8

\* An automatic update goes upwards.
LEMMA AutoCreateKeepsOnce ==
    ASSUME Acyclic \/ batch, VersionsInv, OnceInv, NEW s \in Version, AutoCreate(s)
    PROVE  OnceInv'
<1> DEFINE i == s[1]
           v == NextVersion(db, i)
           other == Notified(s)
           top == Creation(v, s, db')
<1>1. /\ Typed /\ phase = "open" /\ stack # <<>>
      /\ saved' = saved /\ created' = created
      /\ v \in Version /\ db' = WithVersion(db, v, {s}, Updated(s))
      /\ lastVersion' = [lastVersion EXCEPT ![i] = v]
      /\ stack' = Append(other, top) /\ Innermost.old \in db.refs[s]
    BY DEF VersionsInv, AutoCreate, Notify, CreateVersion, request
<1>2. s \in VersionsOf(db, i) /\ i \in Item /\ Updated(s) \in SUBSET Elementary(db, i)
    BY <1>1, SourceExists
<1>3. db.count[i] <= saved.count[i]
    BY AutoCreateIsFirst
<1>4. v[1] = i
    BY DEF NextVersion
<1>5. top \in CreationType /\ top.new = v
    BY <1>1, CreationIsTyped
<1>6. /\ other \in Seq(CreationType) /\ Len(other) = Len(stack)
      /\ \A k \in 1..Len(stack) : other[k].new = stack[k].new
    BY <1>1, NotifiedKeepsStack DEF Typed
<1> HIDE DEF top, other, v
<1>7. /\ stack' \in Seq(CreationType) /\ Len(stack') = Len(stack) + 1
      /\ \A k \in 1..Len(stack) : stack'[k] = other[k]
      /\ stack'[Len(stack) + 1] = top
    BY <1>1, <1>5, <1>6, AppendKeepsStack
<1>8. /\ DOMAIN stack = 1..Len(stack) /\ DOMAIN stack' = 1..(Len(stack) + 1) /\ Len(stack) \in Nat
      /\ \A k \in 1..Len(stack) : stack'[k].new = stack[k].new
      /\ stack'[Len(stack) + 1].new = v
    BY <1>1, <1>5, <1>6, <1>7 DEF Typed
<1>9. OneVersionPerTransaction' /\ MadeIsKnown'
    <2>1. IsKnown(db', i, created', stack')
        BY <1>4, <1>8 DEF IsKnown, IsMaking
    <2>2. \A j \in Item : IsMaking(stack, j) => IsMaking(stack', j)
        BY <1>8 DEF IsMaking
    <2>3. {s} \in SUBSET VersionsOf(db, i)
        BY <1>2
    <2> QED  BY <1>1, <1>2, <1>3, <2>1, <2>2, <2>3, MakesOne DEF v
<1>10. StackRises'
    <2> SUFFICES ASSUME NEW rank \in [Item -> Nat], IsRank(rank),
                        NEW k \in 1..(Len(stack) + 1), NEW l \in 1..(Len(stack) + 1), k < l
                 PROVE  rank[stack'[k].new[1]] < rank[stack'[l].new[1]]
        BY <1>8 DEF StackRises, IsRank
    <2>1. k \in 1..Len(stack) /\ stack'[k].new = stack[k].new
        BY <1>8
    <2>2. CASE l = Len(stack) + 1
        <3>1. rank[stack[k].new[1]] < rank[s[1]]
            BY <1>1, <1>8, <2>1, EmbeddingIsAbove
        <3> QED  BY <1>4, <1>8, <2>1, <2>2, <3>1
    <2>3. CASE l # Len(stack) + 1
        <3>1. l \in 1..Len(stack) /\ stack'[l].new = stack[l].new
            BY <1>8, <2>3
        <3> QED  BY <1>8, <2>1, <3>1 DEF OnceInv, StackRises
    <2> QED  BY <2>2, <2>3
<1> QED  BY <1>9, <1>10 DEF OnceInv

\* What was under way is in the changelog afterwards.
LEMMA CreatedKeepsOnce ==
    ASSUME VersionsInv, OnceInv, Created
    PROVE  OnceInv'
<1> DEFINE other == Front(stack)
<1>1. /\ Typed /\ StackIsFine /\ phase = "open" /\ stack # <<>> /\ db' = db /\ saved' = saved
      /\ lastVersion' = lastVersion /\ created' = created \cup {Innermost.new} /\ stack' = other
    BY DEF VersionsInv, Created, request
<1>2. /\ other \in Seq(CreationType) /\ Len(other) = Len(stack) - 1
      /\ \A k \in 1..(Len(stack) - 1) : other[k] = stack[k]
    BY <1>1, FrontKeepsStack DEF Typed
<1>3. /\ Len(stack) \in Nat \ {0} /\ DOMAIN stack = 1..Len(stack)
      /\ Innermost = stack[Len(stack)] /\ Innermost \in CreationType
    BY <1>1, InnermostIsTyped DEF Typed
<1> HIDE DEF other
<1>4. ASSUME NEW j \in Item, db.count[j] > saved.count[j], IsKnown(db, j, created, stack)
      PROVE  IsKnown(db', j, created', stack')
    <2>1. CASE <<j, db.count[j]>> \in created
        BY <1>1, <2>1 DEF IsKnown
    <2>2. CASE IsMaking(stack, j)
        <3>1. PICK k \in 1..Len(stack) : stack[k].new[1] = j
            BY <1>3, <2>2 DEF IsMaking
        <3>2. CASE k = Len(stack)
            <4>1. Innermost.new \in Version /\ Innermost.new[1] = j
                BY <1>3, <3>1, <3>2 DEF CreationType
            <4>2. IsNew(Innermost.new, db, saved)
                BY <1>1, <1>3 DEF StackIsFine
            <4>3. Innermost.new = <<j, Innermost.new[2]>> /\ Innermost.new[2] \in Nat
                BY <4>1, VersionHasParts
            <4>4. db.count[j] \in Nat /\ saved.count[j] \in Nat
                BY <1>1, ItemAssumption DEF Typed, Database
            <4>5. db.count[j] <= saved.count[j] + 1
                BY DEF OnceInv, OneVersionPerTransaction
            <4>6. Innermost.new[2] = db.count[j]
                BY <4>1, <4>2, <4>3, <4>4, <4>5 DEF IsNew, IsIn
            <4> QED  BY <1>1, <4>3, <4>6 DEF IsKnown
        <3>3. CASE k # Len(stack)
            <4>1. k \in 1..(Len(stack) - 1) /\ k \in DOMAIN other /\ other[k] = stack[k]
                BY <1>2, <1>3, <3>1, <3>3
            <4> QED  BY <1>1, <3>1, <4>1 DEF IsKnown, IsMaking
        <3> QED  BY <3>2, <3>3
    <2> QED  BY <1>4, <2>1, <2>2 DEF IsKnown
<1>5. OneVersionPerTransaction' /\ MadeIsKnown'
    BY <1>1, <1>4, MakesNone
<1>6. StackRises'
    <2>1. /\ Len(other) <= Len(stack) /\ \A k \in 1..Len(other) : other[k].new = stack[k].new
        BY <1>2, <1>3
    <2> QED  BY <1>1, <1>2, <2>1, StackStillRises
<1> QED  BY <1>5, <1>6 DEF OnceInv

\* The steps around posts and notifications.
LEMMA OthersKeepOnce ==
    ASSUME VersionsInv, OnceInv,
           (\E isBatch \in BOOLEAN : Begin(isBatch)) \/ Rollback \/ Commit \/ Finish \/ UNCHANGED vars
    PROVE  OnceInv'
<1>1. \A j \in Item : db.count[j] \in Nat /\ saved.count[j] \in Nat
    BY ItemAssumption DEF VersionsInv, Typed, Database
<1>2. CASE \E isBatch \in BOOLEAN : Begin(isBatch)
    <2>1. db' = db /\ saved' = db /\ stack' = stack
        BY <1>2 DEF Begin
    <2> QED  BY <1>1, <2>1 DEF OnceInv, OneVersionPerTransaction, MadeIsKnown, StackRises
<1>3. CASE Rollback
    <2>1. db' = saved /\ saved' = saved /\ stack' = <<>> /\ phase' = "idle"
        BY <1>3 DEF Rollback, request
    <2> QED  BY <1>1, <2>1 DEF OnceInv, OneVersionPerTransaction, MadeIsKnown, StackRises
<1>4. CASE Commit
    <2>1. /\ db' = db /\ saved' = saved /\ stack' = stack /\ created' = created
          /\ lastVersion' = lastVersion /\ phase = "open"
        BY <1>4 DEF Commit, request, changelog
    <2>2. OneVersionPerTransaction' /\ MadeIsKnown'
        BY <2>1, MakesNone
    <2> QED  BY <2>1, <2>2 DEF OnceInv, StackRises
<1>5. CASE Finish
    <2>1. db' = db /\ saved' = saved /\ stack' = stack /\ phase' = "idle"
        BY <1>5 DEF Finish, request
    <2> QED  BY <2>1 DEF OnceInv, OneVersionPerTransaction, MadeIsKnown, StackRises
<1>6. CASE UNCHANGED vars
    BY <1>6 DEF vars, OnceInv, OneVersionPerTransaction, MadeIsKnown, StackRises, IsKnown, IsMaking
<1> QED  BY <1>2, <1>3, <1>4, <1>5, <1>6

\* All steps together.
LEMMA StepKeepsOnce ==
    ASSUME Acyclic \/ batch, VersionsInv, OnceInv, [Next]_vars
    PROVE  OnceInv'
<1>1. ASSUME NEW i \in Item, NEW elements \in SUBSET Elementary(db, i), NEW f \in Version,
             PostItem(i, elements) \/ PostVersion(i, f, elements)
      PROVE  OnceInv'
    BY <1>1, PostKeepsOnce
<1>2. ASSUME NEW i \in Item, NEW elements \in SUBSET Elementary(db, i), NEW f \in Version,
             PostUpdate(i, f, elements) \/ UpdateFollowingNone(i, elements)
      PROVE  OnceInv'
    BY <1>2, PostUpdateKeepsOnce
<1>3. ASSUME NEW s \in Version, Ignore(s) \/ AutoUpdate(s)
      PROVE  OnceInv'
    BY <1>3, NotifyKeepsOnce
<1>4. ASSUME NEW s \in Version, AutoCreate(s)
      PROVE  OnceInv'
    BY <1>4, AutoCreateKeepsOnce
<1>5. ASSUME NEW s \in Version, Fail(s)
      PROVE  OnceInv'
    BY <1>5, OthersKeepOnce DEF Fail
<1>6. CASE Created
    BY <1>6, CreatedKeepsOnce
<1>7. CASE Abort
    BY <1>7, OthersKeepOnce DEF Abort
<1>8. CASE (\E isBatch \in BOOLEAN : Begin(isBatch)) \/ Commit \/ Finish \/ UNCHANGED vars
    BY <1>8, OthersKeepOnce
<1>9. ASSUME NEW i \in Item, NEW elements \in SUBSET Elementary(db, i),
             PostItem(i, elements) \/ PostFollowingNone(i, elements)
      PROVE  OnceInv'
    BY <1>9, PostKeepsOnce
<1>10. ASSUME NEW i \in Item, NEW elements \in SUBSET Elementary(db, i),
              UpdateFollowingNone(i, elements)
       PROVE  OnceInv'
    <2>1. \E f \in Version : TRUE
        BY <1>10, LastIsNew DEF UpdateFollowingNone
    <2> QED  BY <1>2, <1>10, <2>1
<1> QED  BY <1>1, <1>2, <1>3, <1>4, <1>5, <1>6, <1>7, <1>8, <1>9, <1>10 DEF Next

\* Before the first transaction.
LEMMA InitIsOnce ==
    ASSUME Init
    PROVE  OnceInv
<1>1. VersionsInv /\ db = saved /\ stack = <<>> /\ phase = "idle"
    BY InitIsFine DEF Init
<1>2. \A j \in Item : db.count[j] \in Nat
    BY <1>1, ItemAssumption DEF VersionsInv, Typed, Database
<1> QED  BY <1>1, <1>2 DEF OnceInv, OneVersionPerTransaction, MadeIsKnown, StackRises

\* OneVersionPerTransaction: posts and automatic updates together make at most one new
\* version of an item in a transaction, if no item embeds itself: along whatever paths
\* items embed each other, and in whatever order the references are walked.
THEOREM OneVersionIsMade ==
    ASSUME Acyclic
    PROVE  Spec => []OneVersionPerTransaction
<1>1. Init => VersionsInv /\ OnceInv
    BY InitIsFine, InitIsOnce
<1>2. VersionsInv /\ OnceInv /\ [Next]_vars => (VersionsInv /\ OnceInv)'
    BY StepIsFine, StepKeepsOnce
<1>3. OnceInv => OneVersionPerTransaction
    BY DEF OnceInv
<1> QED  BY <1>1, <1>2, <1>3, PTL DEF Spec

--------------------------------------------------------------------------------
(* A linear history, if clients that post a batch name the head they know: the  *)
(* version that was the last when the batch began.                              *)

\* In a batch the changelog tells of every new version, also if items embed each
\* other in a circle; other posts may make several of an item then.
BatchesMakeOne == batch => OnceInv

\* A transaction begins without a new version.
LEMMA BeginsWithNone ==
    ASSUME VersionsInv, NEW isBatch \in BOOLEAN, Begin(isBatch)
    PROVE  OnceInv'
<1>1. \A j \in Item : db.count[j] \in Nat
    BY ItemAssumption DEF VersionsInv, Typed, Database
<1>2. db' = db /\ saved' = db /\ stack' = <<>>
    BY DEF Begin, VersionsInv, PhaseIsFine, IsClean
<1> QED  BY <1>1, <1>2 DEF OnceInv, OneVersionPerTransaction, MadeIsKnown, StackRises

\* And stays a batch, or none.
LEMMA StepKeepsBatches ==
    ASSUME VersionsInv, BatchesMakeOne, [Next]_vars
    PROVE  BatchesMakeOne'
<1>1. CASE \E isBatch \in BOOLEAN : Begin(isBatch)
    BY <1>1, BeginsWithNone DEF BatchesMakeOne
<1>2. CASE ~ \E isBatch \in BOOLEAN : Begin(isBatch)
    <2>1. batch' = batch
        BY <1>2 DEF Next, vars, PostItem, PostFollowingNone, PostVersion, PostUpdate,
                    UpdateFollowingNone, Post, Ignore, AutoUpdate, AutoCreate, Fail, Notify,
                    Created, Abort, Rollback, Commit, Finish, request
    <2> QED  BY <2>1, StepKeepsOnce DEF BatchesMakeOne
<1> QED  BY <1>1, <1>2

\* Every version of a database follows the one before it, but for those in l.
IsLinear(d, l) ==
    \A v \in Version : IsIn(v, d) =>
        d.follows[v] = IF v[2] = 1 \/ v \in l THEN {} ELSE {<<v[1], v[2] - 1>>}
LinearInv == IsLinear(db, loose) /\ LooseExist

\* A version is added that follows the last one, or none.
LEMMA AddsToLast ==
    ASSUME NEW d \in Database, IsSound(d), NEW l, IsLinear(d, l), NEW i \in Item,
           NEW v \in Version, v = NextVersion(d, i),
           NEW m, \A w \in Version \ {v} : w \in m <=> w \in l,
           NEW follows, follows = IF d.count[i] = 0 \/ v \in m THEN {} ELSE {d.last[i]},
           NEW elements, elements \subseteq Elementary(d, i),
           NEW e, e = WithVersion(d, v, follows, elements)
    PROVE  IsLinear(e, m)
<1>1. d.count[i] \in Nat /\ d.last[i] = IF d.count[i] = 0 THEN None ELSE <<i, d.count[i]>>
    BY ItemAssumption DEF Database, IsSound, LastIsTagged
<1>2. follows \subseteq VersionsOf(d, i)
    <2>1. CASE d.count[i] = 0 \/ v \in m
        BY <2>1
    <2>2. CASE ~ (d.count[i] = 0 \/ v \in m)
        <3>1. d.last[i] \in VersionsOf(d, i)
            BY <2>2, LastOfItem, ExistingIsIn
        <3> QED  BY <2>2, <3>1
    <2> QED  BY <2>1, <2>2
<1>3. Adds(d, e, i, v, follows, elements)
    BY <1>2, WithVersionIsSound
<1>4. /\ v = <<i, d.count[i] + 1>> /\ e.follows[v] = follows
      /\ e.count[i] = d.count[i] + 1 /\ \A j \in Item \ {i} : e.count[j] = d.count[j]
      /\ \A w \in Version \ {v} : e.follows[w] = d.follows[w]
    BY <1>3 DEF Adds
<1> SUFFICES ASSUME NEW w \in Version, IsIn(w, e)
             PROVE  e.follows[w] = IF w[2] = 1 \/ w \in m THEN {} ELSE {<<w[1], w[2] - 1>>}
    BY DEF IsLinear
<1>5. CASE w = v
    <2>1. CASE d.count[i] = 0
        <3>1. w[2] = 1
            BY <1>4, <1>5, <2>1
        <3> QED  BY <1>4, <1>5, <2>1, <3>1
    <2>2. CASE d.count[i] # 0 /\ v \notin m
        <3>1. w[2] = d.count[i] + 1 /\ w[1] = i /\ w[2] # 1 /\ w[2] - 1 = d.count[i]
            BY <1>1, <1>4, <1>5, <2>2
        <3>2. e.follows[w] = {<<i, d.count[i]>>}
            BY <1>1, <1>4, <1>5, <2>2
        <3> QED  BY <1>5, <2>2, <3>1, <3>2
    <2>3. CASE v \in m
        BY <1>4, <1>5, <2>3
    <2> QED  BY <2>1, <2>2, <2>3
<1>6. CASE w # v
    <2>1. w = <<w[1], w[2]>> /\ w[1] \in Item /\ w[2] \in Nat
        BY VersionHasParts
    <2>2. IsIn(w, d)
        <3>1. CASE w[1] = i
            <4>1. w[2] # d.count[i] + 1
                BY <1>4, <1>6, <2>1, <3>1
            <4>2. w[2] <= e.count[i]
                BY <3>1 DEF IsIn
            <4>3. w[2] <= d.count[i]
                BY <1>1, <1>4, <2>1, <4>1, <4>2
            <4> QED  BY <3>1, <4>3 DEF IsIn
        <3>2. CASE w[1] # i
            BY <1>4, <2>1, <3>2 DEF IsIn
        <3> QED  BY <3>1, <3>2
    <2> QED  BY <1>4, <1>6, <2>2 DEF IsLinear
<1> QED  BY <1>5, <1>6

\* The next version of an item is not there yet.
LEMMA NextIsNotLoose ==
    ASSUME VersionsInv, LooseExist, NEW i \in Item
    PROVE  NextVersion(db, i) \notin loose
<1>1. db.count[i] \in Nat
    BY ItemAssumption DEF VersionsInv, Typed, Database
<1>2. ~ IsIn(NextVersion(db, i), db)
    BY <1>1 DEF IsIn, NextVersion
<1> QED  BY <1>2, ExistingIsIn DEF LooseExist

\* Versions are as many as they were, and follow what they did.
LEMMA FollowsTheSame ==
    ASSUME NEW d, NEW e, NEW l, IsLinear(d, l), e.count = d.count,
           \A w \in Version : e.follows[w] = d.follows[w]
    PROVE  IsLinear(e, l)
BY DEF IsLinear, IsIn

\* What is posted follows the last version, or none.
LEMMA PostKeepsLinear ==
    ASSUME VersionsInv, LinearInv, NEW i \in Item, NEW elements \in SUBSET Elementary(db, i),
           \/ PostItem(i, elements) \/ PostFollowingNone(i, elements)
           \/ \E f \in Version : PostVersion(i, f, elements)
    PROVE  IsLinear(db', loose')
<1>1. /\ db \in Database /\ IsSound(db) /\ IsLinear(db, loose)
      /\ db.count[i] \in Nat
    BY ItemAssumption DEF VersionsInv, Typed, Database, LinearInv
<1> DEFINE v == NextVersion(db, i)
<1>2. v \notin loose
    BY NextIsNotLoose DEF LinearInv
<1>3. CASE PostItem(i, elements)
    <2>1. /\ v \in Version /\ db.count[i] = 0 /\ db' = WithVersion(db, v, {}, elements)
          /\ loose' = loose
        BY <1>3 DEF PostItem, CreateFollowingNone
    <2> HIDE DEF v
    <2> QED  BY <1>1, <2>1, AddsToLast DEF v
<1>4. CASE PostFollowingNone(i, elements)
    <2>1. /\ v \in Version /\ db' = WithVersion(db, v, {}, elements)
          /\ loose' = loose \cup {v}
        BY <1>4 DEF PostFollowingNone, CreateFollowingNone
    <2>2. v \in loose' /\ \A w \in Version \ {v} : w \in loose' <=> w \in loose
        BY <2>1
    <2> HIDE DEF v
    <2> QED  BY <1>1, <2>1, <2>2, AddsToLast DEF v
<1>5. ASSUME NEW f \in Version, PostVersion(i, f, elements)
      PROVE  IsLinear(db', loose')
    <2>1. /\ v \in Version /\ db' = WithVersion(db, v, {f}, elements)
          /\ f = db.last[i] /\ db.count[i] # 0 /\ loose' = loose
        BY <1>1, <1>5 DEF PostVersion, CreateVersion, ValidFollows, UpdatesLast
    <2> HIDE DEF v
    <2> QED  BY <1>1, <1>2, <2>1, AddsToLast DEF v
<1> QED  BY <1>3, <1>4, <1>5

\* What a post writes to the last version, if it names the right predecessor.
LEMMA UpdateKeepsLinear ==
    ASSUME VersionsInv, IsLinear(db, loose), NEW v \in Version, IsIn(v, db),
           NEW m, \A w \in Version \ {v} : w \in m <=> w \in loose,
           NEW follows, follows = IF v[2] = 1 \/ v \in m THEN {} ELSE {<<v[1], v[2] - 1>>},
           NEW elements, UpdateVersion(v, follows, elements)
    PROVE  IsLinear(db', m)
<1>1. db \in Database
    BY DEF VersionsInv, Typed
<1>2. /\ db'.count = db.count /\ db'.follows[v] = follows
      /\ \A w \in Version \ {v} : db'.follows[w] = db.follows[w]
    <2>1. db' = [db EXCEPT !.refs = [@ EXCEPT ![v] = elements],
                           !.follows = [@ EXCEPT ![v] = follows]]
        BY DEF UpdateVersion
    <2>2. db'.count = db.count /\ db'.follows = [db.follows EXCEPT ![v] = follows]
        BY <1>1, <2>1 DEF Database
    <2> QED  BY <1>1, <2>2 DEF Database
<1> SUFFICES ASSUME NEW w \in Version, IsIn(w, db')
             PROVE  db'.follows[w] = IF w[2] = 1 \/ w \in m THEN {} ELSE {<<w[1], w[2] - 1>>}
    BY DEF IsLinear
<1>3. CASE w = v
    BY <1>2, <1>3
<1>4. CASE w # v
    BY <1>2, <1>4 DEF IsLinear, IsIn
<1> QED  BY <1>3, <1>4

\* What is posted to the new version of a batch names the version before it, or
\* leaves it what it follows.
LEMMA PostUpdateKeepsLinear ==
    ASSUME Careful, VersionsInv, BatchesMakeOne, LinearInv, NEW i \in Item, NEW f \in Version,
           NEW elements \in SUBSET Elementary(db, i), PostUpdate(i, f, elements)
    PROVE  IsLinear(db', loose')
<1> DEFINE v == db.last[i]
           follows == IF v[2] = 1 THEN db.follows[v] ELSE {f}
<1>1. /\ db \in Database /\ saved \in Database /\ LastIsTagged(db)
      /\ IsLinear(db, loose) /\ batch /\ f \in Predecessors(i) /\ UpdatesLast(i)
      /\ UpdateVersion(v, follows, elements) /\ loose' = loose \ {v}
    BY DEF VersionsInv, IsSound, Typed, LinearInv, PostUpdate, UpdatesLast
<1>2. v \in Version /\ IsNew(v, db, saved) /\ v = <<i, db.count[i]>>
    <2>1. v \in Version /\ IsNew(v, db, saved)
        BY <1>1, LastIsNew
    <2> QED  BY <1>1, <2>1, VersionHasParts DEF LastIsTagged
<1>3. db.count[i] \in Nat /\ saved.count[i] \in Nat
    BY <1>1, ItemAssumption DEF Database
<1>4. db.count[i] = saved.count[i] + 1
    <2>1. db.count[i] <= saved.count[i] + 1
        BY <1>1 DEF BatchesMakeOne, OnceInv, OneVersionPerTransaction
    <2>2. v[2] = db.count[i] /\ v[1] = i
        BY <1>2
    <2> QED  BY <1>2, <1>3, <2>1, <2>2 DEF IsNew, IsIn
<1>5. v[2] # 1 => f = <<i, v[2] - 1>>
    <2> SUFFICES ASSUME v[2] # 1
                 PROVE  f = <<i, v[2] - 1>>
        OBVIOUS
    <2>1. v[2] = saved.count[i] + 1 /\ saved.count[i] # 0
        BY <1>2, <1>3, <1>4
    <2>2. f[1] = i /\ f[2] = saved.count[i]
        BY <1>1, <2>1 DEF Predecessors, ItemOf
    <2> QED  BY <1>3, <2>1, <2>2, VersionHasParts
<1>6. IsIn(v, db) /\ v[1] = i
    BY <1>2 DEF IsNew
<1>7. follows = IF v[2] = 1 THEN {} ELSE {<<v[1], v[2] - 1>>}
    <2>1. CASE v[2] = 1
        <3>1. db.follows[v] = {}
            BY <1>1, <1>2, <1>6, <2>1 DEF IsLinear
        <3> QED  BY <2>1, <3>1
    <2>2. CASE v[2] # 1
        BY <1>5, <1>6, <2>2
    <2> QED  BY <2>1, <2>2
<1> HIDE DEF v, follows
<1>8. v \notin loose' /\ \A w \in Version \ {v} : w \in loose' <=> w \in loose
    BY <1>1
<1> QED  BY <1>1, <1>2, <1>6, <1>7, <1>8, UpdateKeepsLinear

\* Without a predecessor, the version follows what it did.
LEMMA UpdateFollowingNoneKeepsLinear ==
    ASSUME VersionsInv, LinearInv, NEW i \in Item, NEW elements \in SUBSET Elementary(db, i),
           UpdateFollowingNone(i, elements)
    PROVE  IsLinear(db', loose')
<1> DEFINE v == db.last[i]
<1>1. /\ UpdatesLast(i) /\ UpdateVersion(v, db.follows[v], elements) /\ loose' = loose
      /\ IsLinear(db, loose)
    BY DEF UpdateFollowingNone, LinearInv
<1>2. v \in Version /\ IsIn(v, db)
    BY <1>1, LastIsNew DEF IsNew
<1> HIDE DEF v
<1>3. db.follows[v] = IF v[2] = 1 \/ v \in loose THEN {} ELSE {<<v[1], v[2] - 1>>}
    BY <1>1, <1>2 DEF IsLinear
<1> QED  BY <1>1, <1>2, <1>3, UpdateKeepsLinear

\* An automatic update follows the last version.
LEMMA AutoCreateKeepsLinear ==
    ASSUME VersionsInv, LinearInv, NEW s \in Version, AutoCreate(s)
    PROVE  IsLinear(db', loose')
<1> DEFINE i == s[1]
           v == NextVersion(db, i)
<1>1. /\ db \in Database /\ IsSound(db) /\ IsLinear(db, loose) /\ loose' = loose
      /\ v \in Version /\ db' = WithVersion(db, v, {s}, Updated(s))
      /\ stack # <<>> /\ Innermost.old \in db.refs[s] /\ db.last[i] = s
    BY DEF VersionsInv, Typed, LinearInv, AutoCreate, Notify, CreateVersion, IsLast, ItemOf
<1>2. Updated(s) \subseteq Elementary(db, i) /\ i \in Item /\ IsIn(s, db)
    BY <1>1, SourceExists
<1>3. db.count[i] # 0
    BY <1>1, <1>2, VersionHasParts, ItemAssumption DEF Database, IsIn
<1>4. v \notin loose
    BY <1>2, NextIsNotLoose DEF LinearInv
<1> HIDE DEF v
<1> QED  BY <1>1, <1>2, <1>3, <1>4, AddsToLast DEF v

\* The saved versions are those that the transaction has kept.
LEMMA RollbackKeepsLinear ==
    ASSUME VersionsInv, LinearInv, Rollback
    PROVE  IsLinear(db', loose')
<1>1. /\ SavedIsKept /\ IsLinear(db, loose) /\ db \in Database /\ saved \in Database
      /\ db' = saved /\ loose' = loose \cap Existing(saved)
    BY DEF VersionsInv, Typed, LinearInv, Rollback
<1> SUFFICES ASSUME NEW v \in Version, IsIn(v, saved)
             PROVE  saved.follows[v] = IF v[2] = 1 \/ v \in loose' THEN {}
                                       ELSE {<<v[1], v[2] - 1>>}
    BY <1>1 DEF IsLinear
<1>2. saved.count[v[1]] \in Nat /\ db.count[v[1]] \in Nat /\ v[2] \in Nat /\ v[1] \in Item
    BY <1>1, VersionHasParts, ItemAssumption DEF Database
<1>3. IsIn(v, db) /\ saved.follows[v] = db.follows[v]
    BY <1>1, <1>2 DEF IsIn, SavedIsKept
<1>4. v \in loose' <=> v \in loose
    BY <1>1, ExistingIsIn
<1> QED  BY <1>1, <1>3, <1>4 DEF IsLinear

\* The steps that neither add a version nor change what one follows.
LEMMA OthersKeepLinear ==
    ASSUME VersionsInv, LinearInv,
           \/ \E isBatch \in BOOLEAN : Begin(isBatch)
           \/ \E s \in Version : Ignore(s) \/ AutoUpdate(s)
           \/ Created \/ Commit \/ Finish \/ UNCHANGED vars
    PROVE  IsLinear(db', loose')
<1>1. db \in Database /\ IsLinear(db, loose)
    BY DEF VersionsInv, Typed, LinearInv
<1>2. CASE \/ \E isBatch \in BOOLEAN : Begin(isBatch)
           \/ \E s \in Version : Ignore(s)
           \/ Created \/ Commit \/ Finish \/ UNCHANGED vars
    <2>1. db' = db /\ loose' = loose
        BY <1>2 DEF Begin, Ignore, Notify, Created, Commit, Finish, vars
    <2> QED  BY <1>1, <2>1
<1>3. ASSUME NEW s \in Version, AutoUpdate(s)
      PROVE  IsLinear(db', loose')
    <2> DEFINE v == LastVersionCreated(s)
    <2>1. loose' = loose /\ db' = [db EXCEPT !.refs[v] = Updated(s)]
        BY <1>3 DEF AutoUpdate, Notify
    <2>2. db'.count = db.count /\ db'.follows = db.follows
        BY <1>1, <2>1 DEF Database
    <2> QED  BY <1>1, <2>1, <2>2, FollowsTheSame
<1> QED  BY <1>2, <1>3

\* All steps together.
LEMMA StepKeepsLinear ==
    ASSUME Careful, VersionsInv, VersionsInv', BatchesMakeOne, LinearInv, [Next]_vars
    PROVE  LinearInv'
<1> SUFFICES IsLinear(db', loose')
    BY StepKeepsLoose DEF LinearInv, IsLinear, IsIn
<1>1. ASSUME NEW i \in Item, NEW elements \in SUBSET Elementary(db, i),
             PostItem(i, elements) \/ PostFollowingNone(i, elements)
      PROVE  IsLinear(db', loose')
    BY <1>1, PostKeepsLinear
<1>2. ASSUME NEW i \in Item, NEW elements \in SUBSET Elementary(db, i), NEW f \in Version,
             PostVersion(i, f, elements)
      PROVE  IsLinear(db', loose')
    BY <1>2, PostKeepsLinear
<1>3. ASSUME NEW i \in Item, NEW elements \in SUBSET Elementary(db, i), NEW f \in Version,
             PostUpdate(i, f, elements)
      PROVE  IsLinear(db', loose')
    BY <1>3, PostUpdateKeepsLinear
<1>4. ASSUME NEW i \in Item, NEW elements \in SUBSET Elementary(db, i),
             UpdateFollowingNone(i, elements)
      PROVE  IsLinear(db', loose')
    BY <1>4, UpdateFollowingNoneKeepsLinear
<1>5. ASSUME NEW s \in Version, AutoCreate(s)
      PROVE  IsLinear(db', loose')
    BY <1>5, AutoCreateKeepsLinear
<1>6. ASSUME NEW s \in Version, Fail(s)
      PROVE  IsLinear(db', loose')
    BY <1>6, RollbackKeepsLinear DEF Fail
<1>7. CASE Abort
    BY <1>7, RollbackKeepsLinear DEF Abort
<1>8. CASE \/ \E isBatch \in BOOLEAN : Begin(isBatch)
           \/ \E s \in Version : Ignore(s) \/ AutoUpdate(s)
           \/ Created \/ Commit \/ Finish \/ UNCHANGED vars
    BY <1>8, OthersKeepLinear
<1> QED  BY <1>1, <1>2, <1>3, <1>4, <1>5, <1>6, <1>7, <1>8 DEF Next

\* First versions follow none.
LEMMA InitIsLinear ==
    ASSUME Init
    PROVE  LinearInv
<1>1. /\ \A i \in Item : db.count[i] \in {0, 1}
      /\ \A v \in Version : db.follows[v] = {}
      /\ loose = {}
    BY DEF Init
<1>2. IsLinear(db, loose)
    <2> SUFFICES ASSUME NEW v \in Version, IsIn(v, db)
                 PROVE  v[2] = 1
        BY <1>1 DEF IsLinear
    <2>1. v[1] \in Item /\ v[2] \in Nat /\ v[2] >= 1 /\ v[2] <= db.count[v[1]]
        BY VersionHasParts DEF IsIn
    <2> QED  BY <1>1, <2>1
<1> QED  BY <1>1, <1>2 DEF LinearInv, LooseExist

\* LinearHistory: every version but the first follows the one before it and no other,
\* whether it was posted, written to by a later post of its batch, or made by an
\* automatic update; but for a posted one whose client named no predecessor and no
\* later post of the batch did, which follows none.
THEOREM HistoryIsLinear ==
    ASSUME Careful
    PROVE  Spec => []LinearHistory
<1>1. Init => VersionsInv /\ BatchesMakeOne /\ LinearInv
    BY InitIsFine, InitIsOnce, InitIsLinear DEF BatchesMakeOne
<1>2. VersionsInv /\ BatchesMakeOne /\ LinearInv /\ [Next]_vars
          => (VersionsInv /\ BatchesMakeOne /\ LinearInv)'
    BY StepIsFine, StepKeepsBatches, StepKeepsLinear
<1>3. LinearInv => LinearHistory
    <2> SUFFICES ASSUME LinearInv, NEW v \in Existing(db)
                 PROVE  db.follows[v] = IF v[2] = 1 \/ v \in loose THEN {}
                                        ELSE {<<ItemOf(v), v[2] - 1>>}
        BY DEF LinearHistory
    <2>1. v \in Version /\ IsIn(v, db)
        BY ExistingIsIn
    <2> QED  BY <2>1 DEF LinearInv, IsLinear, ItemOf
<1> QED  BY <1>1, <1>2, <1>3, PTL DEF Spec

--------------------------------------------------------------------------------
(* A post for which no root versions are named reaches all that refers to it,   *)
(* if what embeds the posted item does so along one path.                       *)

\* above[x] has the items that embed x, directly or not: of what an item embeds, at
\* most one is x or embeds x.
IsCone(above) ==
    /\ \A x \in Item : x \in above[x]
    /\ \A x, i \in Item : \A e \in Elements[i] : e \in above[x] => i \in above[x]
    /\ \A x, i \in Item : \A e, f \in Elements[i] \cap above[x] : e = f
SinglePaths == \E above \in [Item -> SUBSET Item] : IsCone(above)

\* What was followed is above the posted item x, and was the last version before.
FollowedAreAbove(rank, above, x) ==
    \A e \in Version : followedBy[e] # None =>
        e[1] \in above[x] /\ rank[x] <= rank[e[1]] /\ e[2] = saved.count[e[1]]

\* A new version refers to none that was followed; but for the one that was posted
\* it refers to another new one.
NewReferToNew(above, x) ==
    \A w \in Version : IsNew(w, db, saved) =>
        /\ \A e \in db.refs[w] : followedBy[e] = None
        /\ w[1] = x \/ \E e \in db.refs[w] : IsNew(e, db, saved) /\ e[1] \in above[x]

\* A creation under way follows its old version.  What refers to that and has been
\* followed itself was notified.
StackIsFollowed == \A k \in DOMAIN stack : followedBy[stack[k].old] # None
FollowedAreSeen ==
    \A t \in Version : \A k \in DOMAIN stack :
        followedBy[t] # None /\ stack[k].old \in db.refs[t] => t \in stack[k].seen

\* A last version that refers to one that was followed is still to be notified.
LastAreToBeSeen ==
    \A i \in Item : db.count[i] # 0 =>
        \A e \in db.refs[db.last[i]] : followedBy[e] # None =>
            \E k \in DOMAIN stack :
                stack[k].old = e /\ db.last[i] \in stack[k].start \ stack[k].seen

Reaches(rank, above) ==
    /\ \E x \in Item : FollowedAreAbove(rank, above, x) /\ NewReferToNew(above, x)
    /\ StackIsFollowed /\ FollowedAreSeen /\ LastAreToBeSeen
ReachInv(rank, above) ==
    /\ ~ batch /\ roots = {} /\ phase # "idle" /\ posts # 0 => Reaches(rank, above)
    /\ phase = "committed" => posts # 0

\* An item does not embed what is created under it, nor itself.
LEMMA RankIsStrict ==
    ASSUME NEW rank \in [Item -> Nat], IsRank(rank), NEW i \in Item, NEW j \in Item,
           rank[j] <= rank[i]
    PROVE  i \notin Elements[j]
BY ItemAssumption DEF IsRank

\* A version that follows none leaves nothing behind: nobody has to be notified.
LEMMA FollowingNoneReaches ==
    ASSUME VersionsInv, NEW rank, NEW above, NEW i \in Item,
           NEW elements \in SUBSET Elementary(db, i),
           Post, CreateFollowingNone(i, elements), ~ batch
    PROVE  Reaches(rank, above)'
<1> DEFINE v == NextVersion(db, i)
<1>1. /\ Typed /\ IsSound(db) /\ stack' = <<>> /\ posts = 0
      /\ saved' = saved /\ v \in Version /\ db' = WithVersion(db, v, {}, elements)
      /\ followedBy' = followedBy /\ followedBy = Blank /\ db = saved
    BY ItemAssumption DEF VersionsInv, Typed, CreateFollowingNone, Post, PhaseIsFine, IsClean, request
<1>2. v \in Version /\ v = NextVersion(db, i) /\ db.count[i] \in Nat
    BY <1>1, ItemAssumption DEF Typed, Database
<1>3. \A e : e \in Version => followedBy'[e] = None
    BY <1>1 DEF Blank
<1> HIDE DEF v
<1>4. Adds(db, db', i, v, {}, elements)
    BY <1>1, <1>2, WithVersionIsSound DEF Typed
<1>5. ASSUME NEW w \in Version, IsNew(w, db', saved')
      PROVE  w[1] = i
    BY <1>1, <1>4, <1>5, VersionHasParts DEF Adds, IsNew, IsIn
<1>6. ASSUME NEW w \in Version
      PROVE  db'.refs[w] \in SUBSET Version
    BY <1>4 DEF Adds, Database
<1>7. FollowedAreAbove(rank, above, i)'
    BY <1>3 DEF FollowedAreAbove
<1>8. NewReferToNew(above, i)'
    <2>1. \A w \in Version : IsNew(w, db', saved') =>
              (\A e \in db'.refs[w] : followedBy'[e] = None) /\ w[1] = i
        BY <1>3, <1>5, <1>6
    <2> QED  BY <2>1 DEF NewReferToNew, IsNew, IsIn
<1>9. StackIsFollowed' /\ FollowedAreSeen'
    BY <1>1 DEF StackIsFollowed, FollowedAreSeen
<1>10. LastAreToBeSeen'
    <2> SUFFICES ASSUME NEW j \in Item, db'.count[j] # 0, NEW e \in db'.refs[db'.last[j]]
                 PROVE  followedBy'[e] = None
        BY DEF LastAreToBeSeen
    <2>1. IsSound(db') /\ db' \in Database
        BY <1>1, <1>2, <1>4, WithVersionIsSound DEF Typed, Adds
    <2>2. db'.last[j] \in Version
        BY <2>1, LastOfItem
    <2> QED  BY <1>3, <1>6, <2>2
<1> QED  BY <1>7, <1>8, <1>9, <1>10 DEF Reaches

\* All that refers to the posted version's predecessor is to be notified.
LEMMA PostVersionReaches ==
    ASSUME VersionsInv, NEW rank \in [Item -> Nat], IsRank(rank),
           NEW above \in [Item -> SUBSET Item], IsCone(above), NEW i \in Item,
           NEW elements \in SUBSET Elementary(db, i), NEW f \in Version,
           PostVersion(i, f, elements), ~ batch
    PROVE  Reaches(rank, above)'
<1> DEFINE v == NextVersion(db, i)
           top == Creation(v, f, db')
<1>1. /\ db \in Database /\ IsSound(db) /\ db = saved /\ saved' = saved
      /\ followedBy = Blank /\ v \in Version /\ db' = WithVersion(db, v, {f}, elements)
      /\ followedBy' = [followedBy EXCEPT ![f] = v] /\ stack' = <<top>>
      /\ f = db.last[i] /\ db.count[i] # 0
    BY ItemAssumption DEF VersionsInv, Typed, Database, PostVersion, CreateVersion, Post,
       PhaseIsFine, IsClean, ValidFollows, request
<1>2. /\ f = <<i, db.count[i]>> /\ f[1] = i /\ f[2] = db.count[i] /\ IsIn(f, db)
      /\ db.count[i] \in Nat
    BY <1>1, LastOfItem, ItemAssumption DEF Database
<1>3. v = <<i, db.count[i] + 1>> /\ v[1] = i /\ v # None /\ v # f
    BY <1>1, <1>2, VersionHasParts DEF NextVersion
<1>4. /\ top.new = v /\ top.old = f /\ top.start = Sources(db', f) /\ top.seen = {}
    BY <1>1, CreationIsTyped
<1>5. \A e \in Version : followedBy'[e] # None <=> e = f
    BY <1>1, <1>3 DEF Blank
<1> HIDE DEF v, top
<1>6. IsSound(db') /\ Adds(db, db', i, v, {f}, elements)
    <2>1. {f} \subseteq VersionsOf(db, i)
        BY <1>2, ExistingIsIn
    <2>2. IsSound(db') /\ Adds(db, db', i, v, {f}, elements)
        BY <1>1, <2>1, WithVersionIsSound DEF v
    <2> QED  BY <2>2 DEF IsSound, LastIsTagged, ReferencesExist, IsIn
<1>7. /\ db' \in Database /\ db'.count[i] = db.count[i] + 1
      /\ \A j \in Item \ {i} : db'.count[j] = db.count[j]
      /\ db'.refs[v] = elements /\ \A w \in Version \ {v} : db'.refs[w] = db.refs[w]
    BY <1>6 DEF Adds
<1>8. ASSUME NEW w \in Version, IsNew(w, db', saved')
      PROVE  w = v
    <2>1. /\ w = <<w[1], w[2]>> /\ w[1] \in Item /\ w[2] \in Nat
          /\ w[2] <= db'.count[w[1]] /\ ~ (w[2] <= db.count[w[1]])
        BY <1>1, <1>8, VersionHasParts DEF IsNew, IsIn
    <2>2. w[1] = i
        BY <1>7, <2>1
    <2>3. w[2] = db.count[i] + 1
        BY <1>2, <1>7, <2>1, <2>2
    <2> QED  BY <1>3, <2>1, <2>2, <2>3
<1>9. ASSUME NEW w \in Version, f \in db'.refs[w]
      PROVE  w[1] # i /\ IsIn(w, db')
    <2>1. i \in Elements[w[1]] /\ w[1] \in Item /\ IsIn(w, db')
        BY <1>2, <1>6, <1>9, VersionHasParts DEF IsSound, ReferencesExist
    <2> QED  BY <2>1, RankIsStrict
<1>10. FollowedAreAbove(rank, above, i)'
    <2>1. /\ f[1] \in above[i] /\ rank[i] <= rank[f[1]] /\ f[2] = saved'.count[f[1]]
        BY <1>1, <1>2 DEF IsCone
    <2>2. \A e \in Version : followedBy'[e] # None =>
              e[1] \in above[i] /\ rank[i] <= rank[e[1]] /\ e[2] = saved'.count[e[1]]
        BY <1>5, <2>1
    <2> QED  BY <2>2 DEF FollowedAreAbove
<1>11. NewReferToNew(above, i)'
    <2>1. \A e \in db'.refs[v] : followedBy'[e] = None
        <3>1. f \notin db'.refs[v]
            BY <1>1, <1>3, <1>9
        <3>2. db'.refs[v] \in SUBSET Version
            BY <1>1, <1>7 DEF Database
        <3> QED  BY <1>5, <3>1, <3>2
    <2>2. \A w \in Version : IsNew(w, db', saved') =>
              (\A e \in db'.refs[w] : followedBy'[e] = None) /\ w[1] = i
        BY <1>3, <1>8, <2>1
    <2> QED  BY <2>2 DEF NewReferToNew, IsNew, IsIn
<1>12. DOMAIN stack' = {1} /\ stack'[1] = top
    BY <1>1
<1>13. StackIsFollowed'
    BY <1>4, <1>5, <1>12 DEF StackIsFollowed
<1>14. FollowedAreSeen'
    <2> SUFFICES ASSUME NEW t \in Version, followedBy'[t] # None, f \in db'.refs[t]
                 PROVE  FALSE
        BY <1>4, <1>12 DEF FollowedAreSeen
    <2> QED  BY <1>2, <1>5, <1>9
<1>15. LastAreToBeSeen'
    <2> SUFFICES ASSUME NEW j \in Item, db'.count[j] # 0, NEW e \in db'.refs[db'.last[j]],
                        followedBy'[e] # None
                 PROVE  stack'[1].old = e /\ db'.last[j] \in stack'[1].start \ stack'[1].seen
        BY <1>12 DEF LastAreToBeSeen
    <2>1. db'.last[j] \in Version
        BY <1>6, <1>7, LastOfItem
    <2>2. e \in Version
        BY <1>7, <2>1 DEF Database
    <2>3. e = f
        BY <1>5, <2>2
    <2>4. IsIn(db'.last[j], db')
        BY <1>9, <2>1, <2>3
    <2>5. db'.last[j] \in Sources(db', f)
        BY <2>1, <2>3, <2>4, ExistingIsIn DEF Sources
    <2> QED  BY <1>4, <1>12, <2>3, <2>5
<1> QED  BY <1>10, <1>11, <1>13, <1>14, <1>15 DEF Reaches

\* The last versions of items are versions.
LEMMA LastAreVersions ==
    ASSUME VersionsInv, NEW i \in Item, db.count[i] # 0
    PROVE  /\ db.last[i] \in Version /\ db.last[i][1] = i
           /\ db.refs[db.last[i]] \in SUBSET Version
           /\ \A e \in db.refs[db.last[i]] : db.last[i] \in Sources(db, e)
<1>1. db \in Database /\ IsSound(db)
    BY DEF VersionsInv, Typed
<1>2. db.last[i] \in Version /\ db.last[i][1] = i /\ IsIn(db.last[i], db)
    BY <1>1, LastOfItem
<1>3. db.last[i] \in Existing(db)
    BY <1>2, ExistingIsIn
<1> QED  BY <1>1, <1>2, <1>3 DEF Database, Sources

\* What is left alone is not the last version.
LEMMA IgnoreReaches ==
    ASSUME VersionsInv, NEW rank, NEW above, Reaches(rank, above), roots = {},
           NEW s \in Version, Ignore(s)
    PROVE  Reaches(rank, above)'
<1>1. /\ Typed /\ IsSound(db) /\ stack # <<>> /\ db' = db /\ saved' = saved
      /\ followedBy' = followedBy /\ stack' = Notified(s) /\ db.last[s[1]] # s
    BY DEF VersionsInv, Ignore, Notify, IsLast, InRootVersionSubtree, changelog, request
<1>2. /\ DOMAIN stack = 1..Len(stack) /\ DOMAIN stack' = 1..Len(stack)
      /\ \A k \in 1..Len(stack) :
             /\ stack'[k].old = stack[k].old /\ stack'[k].start = stack[k].start
             /\ stack[k].seen \subseteq stack'[k].seen
             /\ stack'[k].seen \subseteq stack[k].seen \cup {s}
    <2> DEFINE other == Notified(s)
    <2>1. /\ other \in Seq(CreationType) /\ Len(other) = Len(stack)
          /\ \A k \in 1..Len(stack) :
                 /\ other[k].old = stack[k].old /\ other[k].start = stack[k].start
                 /\ other[k].seen =
                        IF k = Len(stack) THEN stack[k].seen \cup {s} ELSE stack[k].seen
        BY <1>1, NotifiedKeepsStack DEF Typed
    <2>2. DOMAIN stack = 1..Len(stack) /\ stack' = other
        BY <1>1 DEF Typed
    <2> HIDE DEF other
    <2>3. DOMAIN stack' = 1..Len(stack)
        BY <2>1, <2>2
    <2> QED  BY <2>1, <2>2, <2>3
<1>3. \E x \in Item : FollowedAreAbove(rank, above, x)' /\ NewReferToNew(above, x)'
    BY <1>1 DEF Reaches, FollowedAreAbove, NewReferToNew, IsNew, IsIn
<1>4. StackIsFollowed'
    BY <1>1, <1>2 DEF Reaches, StackIsFollowed
<1>5. FollowedAreSeen'
    <2> SUFFICES ASSUME NEW t \in Version, NEW k \in 1..Len(stack),
                        followedBy[t] # None, stack[k].old \in db.refs[t]
                 PROVE  t \in stack'[k].seen
        BY <1>1, <1>2 DEF FollowedAreSeen
    <2>1. t \in stack[k].seen
        BY <1>2 DEF Reaches, FollowedAreSeen
    <2> QED  BY <1>2, <2>1
<1>6. LastAreToBeSeen'
    <2> SUFFICES ASSUME NEW j \in Item, db.count[j] # 0, NEW e \in db.refs[db.last[j]],
                        followedBy[e] # None
                 PROVE  \E k \in 1..Len(stack) :
                            stack'[k].old = e /\ db.last[j] \in stack'[k].start \ stack'[k].seen
        BY <1>1, <1>2 DEF LastAreToBeSeen
    <2>1. PICK k \in 1..Len(stack) :
              stack[k].old = e /\ db.last[j] \in stack[k].start \ stack[k].seen
        BY <1>2 DEF Reaches, LastAreToBeSeen
    <2>2. db.last[j] # s
        BY <1>1, LastAreVersions
    <2> QED  BY <1>2, <2>1, <2>2
<1> QED  BY <1>3, <1>4, <1>5, <1>6 DEF Reaches

\* No source's item has a version of this transaction already.
LEMMA NoAutoUpdate ==
    ASSUME VersionsInv, NEW rank, NEW above, Reaches(rank, above), ~ batch,
           NEW s \in Version, AutoUpdate(s)
    PROVE  FALSE
<1>1. /\ Typed /\ LogIsFine /\ stack # <<>> /\ Innermost.old \in db.refs[s]
      /\ LastVersionCreated(s) # None /\ s \notin Innermost.seen
    BY DEF VersionsInv, AutoUpdate, Notify, Pending
<1>2. /\ Len(stack) \in DOMAIN stack /\ Innermost = stack[Len(stack)]
    BY <1>1, InnermostIsTyped DEF Typed
<1>3. followedBy[Innermost.old] # None
    BY <1>2 DEF Reaches, StackIsFollowed
<1>4. CASE s \in created
    <2>1. IsNew(s, db, saved)
        BY <1>1, <1>4 DEF LogIsFine
    <2>2. \A e \in db.refs[s] : followedBy[e] = None
        BY <2>1 DEF Reaches, NewReferToNew
    <2> QED  BY <1>1, <1>3, <2>2
<1>5. CASE s \notin created
    <2>1. followedBy[s] # None
        BY <1>1, <1>5 DEF LastVersionCreated
    <2>2. s \in Innermost.seen
        BY <1>1, <1>2, <2>1 DEF Reaches, FollowedAreSeen
    <2> QED  BY <1>1, <2>2
<1> QED  BY <1>4, <1>5

\* A creation that ends has notified all last versions that refer to its old one.
LEMMA CreatedReaches ==
    ASSUME VersionsInv, NEW rank, NEW above, Reaches(rank, above), Created
    PROVE  Reaches(rank, above)'
<1>1. /\ Typed /\ stack # <<>> /\ db' = db /\ saved' = saved /\ followedBy' = followedBy
      /\ stack' = Front(stack)
      /\ Innermost.start \cap Sources(db, Innermost.old) \subseteq Innermost.seen
    BY DEF VersionsInv, Created, request
<1>2. /\ Len(stack) \in Nat \ {0} /\ DOMAIN stack = 1..Len(stack)
      /\ Innermost = stack[Len(stack)]
      /\ DOMAIN stack' = 1..(Len(stack) - 1)
      /\ \A k \in 1..(Len(stack) - 1) : stack'[k] = stack[k] /\ k \in DOMAIN stack
    BY <1>1, InnermostIsTyped, FrontKeepsStack DEF Typed
<1>3. \E x \in Item : FollowedAreAbove(rank, above, x)' /\ NewReferToNew(above, x)'
    BY <1>1 DEF Reaches, FollowedAreAbove, NewReferToNew, IsNew, IsIn
<1>4. StackIsFollowed'
    BY <1>1, <1>2 DEF Reaches, StackIsFollowed
<1>5. FollowedAreSeen'
    BY <1>1, <1>2 DEF Reaches, FollowedAreSeen
<1>6. LastAreToBeSeen'
    <2> SUFFICES ASSUME NEW j \in Item, db.count[j] # 0, NEW e \in db.refs[db.last[j]],
                        followedBy[e] # None
                 PROVE  \E k \in 1..(Len(stack) - 1) :
                            stack'[k].old = e /\ db.last[j] \in stack'[k].start \ stack'[k].seen
        BY <1>1, <1>2 DEF LastAreToBeSeen
    <2>1. PICK k \in 1..Len(stack) :
              stack[k].old = e /\ db.last[j] \in stack[k].start \ stack[k].seen
        BY <1>2 DEF Reaches, LastAreToBeSeen
    <2>2. db.last[j] \in Sources(db, e)
        BY LastAreVersions
    <2>3. k # Len(stack)
        BY <1>1, <1>2, <2>1, <2>2
    <2>4. k \in 1..(Len(stack) - 1)
        <3>1. Len(stack) \in Nat /\ k \in 1..Len(stack)
            BY <1>2, <2>1
        <3> QED  BY <2>3, <3>1
    <2> QED  BY <1>2, <2>1, <2>4
<1> QED  BY <1>3, <1>4, <1>5, <1>6 DEF Reaches

\* A successor is made of a source; all that refers to the source is to be notified.
LEMMA AutoCreateReaches ==
    ASSUME Acyclic, VersionsInv, OnceInv, NEW rank \in [Item -> Nat], IsRank(rank),
           NEW above \in [Item -> SUBSET Item], IsCone(above), Reaches(rank, above),
           NEW s \in Version, AutoCreate(s)
    PROVE  Reaches(rank, above)'
<1> DEFINE i == s[1]
           v == NextVersion(db, i)
           old == Innermost.old
           new == Innermost.new
           other == Notified(s)
           top == Creation(v, s, db')
           n == Len(stack)
<1>1. /\ Typed /\ db \in Database /\ IsSound(db) /\ StackIsFine /\ LogIsFine /\ stack # <<>>
      /\ saved' = saved /\ v \in Version /\ db' = WithVersion(db, v, {s}, Updated(s))
      /\ followedBy' = [followedBy EXCEPT ![s] = v] /\ stack' = Append(other, top)
      /\ old \in db.refs[s]
    BY DEF VersionsInv, Typed, AutoCreate, Notify, CreateVersion, request
<1>2. /\ i \in Item /\ s[2] = db.count[i] /\ s = <<i, db.count[i]>>
      /\ db.count[i] = saved.count[i] /\ db.count[i] \in Nat
    BY AutoCreateIsFirst
<1>3. /\ s \in VersionsOf(db, i) /\ Updated(s) \in SUBSET Elementary(db, i)
    BY <1>1, SourceExists
<1>4. v = <<i, db.count[i] + 1>> /\ v[1] = i /\ v # None /\ v # s
    BY <1>1, <1>2, VersionHasParts DEF NextVersion
<1>5. /\ n \in Nat \ {0} /\ n \in DOMAIN stack /\ DOMAIN stack = 1..n
      /\ Innermost = stack[n] /\ Innermost \in CreationType
    BY <1>1, InnermostIsTyped DEF Typed
<1>6. /\ old \in Version /\ new \in Version /\ new[1] = old[1] /\ IsNew(new, db, saved)
    BY <1>1, <1>5 DEF StackIsFine, CreationType
<1>7. /\ old[1] \in Item /\ new[1] \in Item /\ old[1] \in Elements[i]
    BY <1>1, <1>6, VersionHasParts DEF IsSound, ReferencesExist
<1>8. /\ top.new = v /\ top.old = s /\ top.start = Sources(db', s) /\ top.seen = {}
      /\ top \in CreationType
    BY <1>1, CreationIsTyped
<1>9. Updated(s) = (db.refs[s] \ {old}) \cup {new} /\ db.refs[s] \in SUBSET Version
    BY <1>1 DEF Updated, Database
<1>10. /\ other \in Seq(CreationType) /\ Len(other) = n
       /\ \A k \in 1..n : /\ other[k].old = stack[k].old /\ other[k].start = stack[k].start
                          /\ other[k].seen =
                                 IF k = n THEN stack[k].seen \cup {s} ELSE stack[k].seen
    BY <1>1, NotifiedKeepsStack DEF Typed
<1>11. \A j, k \in DOMAIN stack : stack[j].old = stack[k].old => j = k
    <2> SUFFICES ASSUME NEW j \in 1..n, NEW k \in 1..n, stack[j].old = stack[k].old, j < k
                 PROVE  FALSE
        BY <1>5
    <2>1. rank[stack[j].new[1]] < rank[stack[k].new[1]]
        BY <1>5 DEF OnceInv, StackRises
    <2>2. stack[j].new[1] = stack[k].new[1]
        <3>1. j \in DOMAIN stack /\ k \in DOMAIN stack
            BY <1>5
        <3>2. stack[j].new[1] = stack[j].old[1] /\ stack[k].new[1] = stack[k].old[1]
            BY <1>1, <3>1 DEF StackIsFine
        <3> QED  BY <3>2
    <2>3. stack[k] \in CreationType
        BY <1>1, <1>5 DEF Typed
    <2>4. rank[stack[k].new[1]] \in Nat
        BY <2>3, VersionHasParts DEF CreationType
    <2> QED  BY <2>1, <2>2, <2>4
<1>12. PICK x \in Item : FollowedAreAbove(rank, above, x) /\ NewReferToNew(above, x)
    BY DEF Reaches
<1>13. /\ StackIsFollowed /\ FollowedAreSeen /\ LastAreToBeSeen
    BY DEF Reaches
<1> HIDE DEF v, old, new, top, other, i, n
<1>14. IsSound(db') /\ Adds(db, db', i, v, {s}, Updated(s))
    <2>1. {s} \subseteq VersionsOf(db, i)
        BY <1>3
    <2>2. IsSound(db') /\ Adds(db, db', i, v, {s}, Updated(s))
        BY <1>1, <1>2, <1>3, <2>1, WithVersionIsSound DEF v
    <2> QED  BY <2>2 DEF IsSound, LastIsTagged, ReferencesExist, IsIn
<1>15. /\ db' \in Database /\ db'.count[i] = db.count[i] + 1
       /\ \A j \in Item \ {i} : db'.count[j] = db.count[j]
       /\ db'.refs[v] = Updated(s) /\ \A w \in Version \ {v} : db'.refs[w] = db.refs[w]
    BY <1>14 DEF Adds
<1>16. /\ followedBy[old] # None /\ followedBy'[s] = v
       /\ \A e \in Version \ {s} : followedBy'[e] = followedBy[e]
    <2>1. followedBy[stack[n].old] # None
        BY <1>5, <1>13 DEF StackIsFollowed
    <2> QED  BY <1>1, <1>5, <2>1 DEF Typed, old
\* The item is above the posted one.
<1>17. /\ old[1] \in above[x] /\ i \in above[x] /\ rank[x] <= rank[i] /\ new[1] \in above[x]
       /\ rank[i] \in Nat /\ rank[x] \in Nat /\ rank[x] < rank[i]
    <2>1. old[1] \in above[x] /\ rank[x] <= rank[old[1]]
        BY <1>6, <1>12, <1>16 DEF FollowedAreAbove
    <2>2. i \in above[x]
        BY <1>2, <1>7, <2>1 DEF IsCone
    <2>3. rank[old[1]] < rank[i]
        BY <1>2, <1>7 DEF IsRank
    <2>4. rank[old[1]] \in Nat /\ rank[i] \in Nat /\ rank[x] \in Nat
        BY <1>2, <1>7
    <2> QED  BY <1>6, <2>1, <2>2, <2>3, <2>4
\* The source refers to no other version that was followed.
<1>18. ASSUME NEW e \in db.refs[s], followedBy[e] # None
       PROVE  e = old
    <2>1. e \in Version /\ e[1] \in Elements[i]
        BY <1>1, <1>9, <1>18 DEF IsSound, ReferencesExist, i
    <2>2. e[1] \in above[x] /\ e[2] = saved.count[e[1]] /\ old[2] = saved.count[old[1]]
        BY <1>6, <1>12, <1>16, <1>18, <2>1 DEF FollowedAreAbove
    <2>3. e[1] = old[1]
        BY <1>2, <1>7, <1>17, <2>1, <2>2 DEF IsCone
    <2> QED  BY <1>6, <2>1, <2>2, <2>3, VersionHasParts
\* No new version's item embeds this one.
<1>19. ASSUME NEW w \in Version, IsNew(w, db, saved)
       PROVE  i \notin Elements[w[1]]
    <2> SUFFICES ASSUME i \in Elements[w[1]]
                 PROVE  FALSE
        OBVIOUS
    <2>1. w[1] \in Item
        BY VersionHasParts
    <2>2. CASE w[1] = x
        BY <1>2, <1>17, <2>2, RankIsStrict
    <2>3. CASE w[1] # x
        <3>1. PICK e \in db.refs[w] : IsNew(e, db, saved) /\ e[1] \in above[x]
            BY <1>12, <1>19, <2>3 DEF NewReferToNew
        <3>2. e \in Version /\ e[1] \in Elements[w[1]]
            BY <1>1, <3>1 DEF IsSound, ReferencesExist, Database
        <3>3. e[1] = i
            BY <1>2, <1>17, <2>1, <3>1, <3>2 DEF IsCone
        <3> QED  BY <1>2, <3>1, <3>3 DEF IsNew, IsIn
    <2> QED  BY <2>2, <2>3
<1>20. i \notin Elements[i]
    BY <1>2, <1>17, RankIsStrict
\* No version that was followed refers to the source.
<1>21. ASSUME NEW t \in Version, t = s \/ followedBy[t] # None
       PROVE  s \notin db.refs[t]
    <2>1. s \in db.refs[t] => i \in Elements[t[1]]
        BY <1>1, <1>21 DEF IsSound, ReferencesExist, i
    <2>2. CASE t = s
        BY <1>20, <2>1, <2>2 DEF i
    <2>3. CASE followedBy[t] # None
        <3>1. IsNew(followedBy[t], db, saved) /\ followedBy[t][1] = t[1] /\ followedBy[t] \in Version
            BY <1>1, <2>3 DEF LogIsFine, Typed
        <3> QED  BY <1>19, <2>1, <3>1
    <2> QED  BY <1>21, <2>2, <2>3
\* New versions are not followed.
<1>22. ASSUME NEW e \in Version, followedBy'[e] # None
       PROVE  e[2] = saved.count[e[1]] /\ e # v
    <2>1. e[2] = saved.count[e[1]]
        BY <1>2, <1>12, <1>16, <1>22 DEF FollowedAreAbove, i
    <2> QED  BY <1>2, <1>4, <2>1
<1>23. ASSUME NEW w \in Version, IsNew(w, db', saved')
       PROVE  w = v \/ IsNew(w, db, saved)
    <2>1. /\ w = <<w[1], w[2]>> /\ w[1] \in Item /\ w[2] \in Nat
          /\ w[2] <= db'.count[w[1]] /\ ~ (w[2] <= saved.count[w[1]])
        BY <1>1, <1>23, VersionHasParts DEF IsNew, IsIn
    <2>2. CASE w[1] = i
        <3>1. w[2] = db.count[i] + 1
            BY <1>2, <1>15, <2>1, <2>2
        <3> QED  BY <1>4, <2>1, <2>2, <3>1
    <2>3. CASE w[1] # i
        BY <1>15, <2>1, <2>3 DEF IsNew, IsIn
    <2> QED  BY <2>2, <2>3
<1>24. ASSUME NEW e \in Version, IsNew(e, db, saved)
       PROVE  IsNew(e, db', saved')
    <2>1. e[1] \in Item /\ e[2] \in Nat /\ db.count[e[1]] <= db'.count[e[1]]
          /\ db.count[e[1]] \in Nat /\ db'.count[e[1]] \in Nat
        <3>1. e[1] \in Item /\ e[2] \in Nat
            BY VersionHasParts
        <3>2. \A d \in Database : \A j \in Item : d.count[j] \in Nat
            BY ItemAssumption DEF Database
        <3>3. db.count[e[1]] \in Nat /\ db'.count[e[1]] \in Nat
            BY <1>1, <1>15, <3>1, <3>2
        <3>4. db.count[e[1]] <= db'.count[e[1]]
            <4>1. CASE e[1] = i
                BY <1>2, <1>15, <4>1
            <4>2. CASE e[1] # i
                BY <1>15, <3>1, <3>3, <4>2
            <4> QED  BY <4>1, <4>2
        <3> QED  BY <3>1, <3>3, <3>4
    <2> QED  BY <1>1, <1>24, <2>1 DEF IsNew, IsIn
<1>25. FollowedAreAbove(rank, above, x)'
    <2>1. ASSUME NEW e \in Version, followedBy'[e] # None
          PROVE  e[1] \in above[x] /\ rank[x] <= rank[e[1]] /\ e[2] = saved'.count[e[1]]
        <3>1. CASE e = s
            BY <1>1, <1>2, <1>17, <3>1 DEF i
        <3>2. CASE e # s
            BY <1>1, <1>12, <1>16, <2>1, <3>2 DEF FollowedAreAbove
        <3> QED  BY <3>1, <3>2
    <2> QED  BY <2>1 DEF FollowedAreAbove
<1>26. ASSUME NEW e \in Updated(s)
       PROVE  e \in Version /\ followedBy'[e] = None
    <2>1. CASE e = new
        <3>1. ~ (new[2] = saved.count[new[1]])
            BY <1>1, <1>6, <1>7, ItemAssumption DEF IsNew, IsIn, Typed, Database
        <3> QED  BY <1>6, <1>22, <2>1, <3>1
    <2>2. CASE e # new
        <3>1. e \in db.refs[s] /\ e # old /\ e \in Version
            BY <1>9, <1>26, <2>2
        <3>2. followedBy[e] = None
            BY <1>18, <3>1
        <3>3. e # s
            BY <1>3, <1>21, <3>1, ExistingIsIn
        <3> QED  BY <1>16, <3>1, <3>2, <3>3
    <2> QED  BY <2>1, <2>2
<1>27. NewReferToNew(above, x)'
    <2>1. ASSUME NEW w \in Version, IsNew(w, db', saved')
          PROVE  /\ \A e \in db'.refs[w] : followedBy'[e] = None
                 /\ w[1] = x \/ \E e \in db'.refs[w] : IsNew(e, db', saved') /\ e[1] \in above[x]
        <3>1. CASE w = v
            <4>1. new \in db'.refs[w] /\ IsNew(new, db', saved') /\ new[1] \in above[x]
                BY <1>6, <1>9, <1>15, <1>17, <1>24, <3>1
            <4>2. \A e \in db'.refs[w] : followedBy'[e] = None
                BY <1>15, <1>26, <3>1
            <4> QED  BY <4>1, <4>2
        <3>2. CASE w # v
            <4>1. IsNew(w, db, saved) /\ db'.refs[w] = db.refs[w] /\ db.refs[w] \in SUBSET Version
                BY <1>1, <1>15, <1>23, <2>1, <3>2 DEF Database
            <4>2. s \notin db.refs[w]
                BY <1>1, <1>19, <4>1 DEF IsSound, ReferencesExist, i
            <4>3. \A e \in db.refs[w] : followedBy[e] = None
                BY <1>12, <4>1 DEF NewReferToNew
            <4>4. \A e \in db'.refs[w] : followedBy'[e] = None
                BY <1>16, <4>1, <4>2, <4>3
            <4>5. w[1] = x \/ \E e \in db.refs[w] : IsNew(e, db, saved) /\ e[1] \in above[x]
                BY <1>12, <4>1 DEF NewReferToNew
            <4> QED  BY <1>24, <4>1, <4>4, <4>5
        <3> QED  BY <3>1, <3>2
    <2> QED  BY <2>1 DEF NewReferToNew, IsNew, IsIn
\* The stack.
<1>28. /\ DOMAIN stack' = 1..(n + 1) /\ stack'[n + 1] = top
       /\ \A k \in 1..n : /\ stack'[k].old = stack[k].old /\ stack'[k].start = stack[k].start
                          /\ stack'[k].seen =
                                 IF k = n THEN stack[k].seen \cup {s} ELSE stack[k].seen
    <2>1. /\ stack' \in Seq(CreationType) /\ Len(stack') = n + 1
          /\ \A k \in 1..n : stack'[k] = other[k]
          /\ stack'[n + 1] = top
        BY <1>1, <1>8, <1>10, AppendKeepsStack
    <2>2. DOMAIN stack' = 1..(n + 1)
        BY <1>5, <2>1
    <2> QED  BY <1>10, <2>1, <2>2
<1>29. \A k \in 1..n : stack[k].old \in Version /\ stack[k].seen \in SUBSET Version
    <2>1. \A k \in 1..n : stack[k] \in CreationType
        BY <1>1, <1>5 DEF Typed
    <2> QED  BY <2>1 DEF CreationType
<1>30. StackIsFollowed'
    <2> SUFFICES ASSUME NEW k \in 1..(n + 1)
                 PROVE  followedBy'[stack'[k].old] # None
        BY <1>28 DEF StackIsFollowed
    <2>1. CASE k = n + 1
        BY <1>4, <1>8, <1>16, <1>28, <2>1
    <2>2. CASE k # n + 1
        <3>1. k \in 1..n
            BY <1>5, <2>2
        <3>2. followedBy[stack[k].old] # None
            BY <1>5, <1>13, <3>1 DEF StackIsFollowed
        <3> QED  BY <1>4, <1>16, <1>28, <1>29, <3>1, <3>2
    <2> QED  BY <2>1, <2>2
<1>31. FollowedAreSeen'
    <2> SUFFICES ASSUME NEW t \in Version, NEW k \in 1..(n + 1),
                        followedBy'[t] # None, stack'[k].old \in db'.refs[t]
                 PROVE  t \in stack'[k].seen
        BY <1>28 DEF FollowedAreSeen
    <2>1. db'.refs[t] = db.refs[t]
        BY <1>15, <1>22
    <2>2. t = s \/ followedBy[t] # None
        BY <1>16
    <2>3. k # n + 1
        BY <1>8, <1>21, <1>28, <2>1, <2>2
    <2>4. k \in 1..n /\ stack[k].old \in db.refs[t]
        <3>1. k \in 1..n
            BY <1>5, <2>3
        <3> QED  BY <1>28, <2>1, <3>1
    <2>5. CASE t = s
        <3>1. stack[k].old = old
            BY <1>5, <1>13, <1>18, <2>4, <2>5 DEF StackIsFollowed
        <3>2. k = n
            BY <1>5, <1>11, <2>4, <3>1 DEF old
        <3> QED  BY <1>28, <2>4, <2>5, <3>2
    <2>6. CASE t # s
        <3>1. t \in stack[k].seen
            BY <1>5, <1>13, <2>2, <2>4, <2>6 DEF FollowedAreSeen
        <3> QED  BY <1>28, <2>4, <3>1
    <2> QED  BY <2>5, <2>6
<1>32. LastAreToBeSeen'
    <2> SUFFICES ASSUME NEW j \in Item, db'.count[j] # 0, NEW e \in db'.refs[db'.last[j]],
                        followedBy'[e] # None
                 PROVE  \E k \in 1..(n + 1) :
                            stack'[k].old = e /\ db'.last[j] \in stack'[k].start \ stack'[k].seen
        BY <1>28 DEF LastAreToBeSeen
    <2>1. db'.last[j] = <<j, db'.count[j]>> /\ db'.last[j] \in Version /\ IsIn(db'.last[j], db')
        BY <1>14, <1>15, LastOfItem
    <2>2. e \in Version
        BY <1>15, <2>1 DEF Database
    <2>3. j # i
        <3> SUFFICES ASSUME j = i
                     PROVE  FALSE
            OBVIOUS
        <3>1. db'.last[j] = v
            BY <1>4, <1>15, <2>1
        <3> QED  BY <1>15, <1>26, <3>1
    <2>4. db'.last[j] = db.last[j] /\ db.count[j] # 0 /\ db'.last[j] # v /\ db'.last[j] # s
        <3>1. db'.count[j] = db.count[j]
            BY <1>15, <2>3
        <3>2. db.last[j] = <<j, db.count[j]>>
            BY <1>1, <3>1, LastOfItem
        <3> QED  BY <1>2, <1>4, <2>1, <2>3, <3>1, <3>2
    <2>5. e \in db.refs[db.last[j]] /\ db.last[j] \in Version
        BY <1>15, <2>1, <2>4
    <2>6. CASE e = s
        <3>1. db'.last[j] \in Existing(db')
            BY <2>1, ExistingIsIn
        <3>2. db'.last[j] \in Sources(db', s)
            BY <2>6, <3>1 DEF Sources
        <3>3. n + 1 \in 1..(n + 1)
            BY <1>5
        <3> QED  BY <1>8, <1>28, <2>6, <3>2, <3>3
    <2>7. CASE e # s
        <3>1. followedBy[e] # None
            BY <1>16, <2>2, <2>7
        <3>2. PICK k \in 1..n :
                  stack[k].old = e /\ db.last[j] \in stack[k].start \ stack[k].seen
            BY <1>5, <1>13, <2>4, <2>5, <3>1 DEF LastAreToBeSeen
        <3>3. k \in 1..(n + 1)
            BY <1>5, <3>2
        <3> QED  BY <1>28, <2>4, <3>2, <3>3
    <2> QED  BY <2>6, <2>7
<1> QED  BY <1>25, <1>27, <1>30, <1>31, <1>32 DEF Reaches

\* All steps together.
LEMMA StepReaches ==
    ASSUME Acyclic, VersionsInv, OnceInv, NEW rank \in [Item -> Nat], IsRank(rank),
           NEW above \in [Item -> SUBSET Item], IsCone(above), ReachInv(rank, above),
           [Next]_vars
    PROVE  ReachInv(rank, above)'
<1> DEFINE Guard == ~ batch /\ roots = {} /\ phase # "idle" /\ posts # 0
<1>1. /\ batch \in BOOLEAN /\ posts \in Nat
      /\ Guard => Reaches(rank, above)
      /\ phase = "committed" => posts # 0
    BY ItemAssumption DEF VersionsInv, Typed, ReachInv
<1>2. ASSUME (Guard => Reaches(rank, above))', phase' = "committed" => posts' # 0
      PROVE  ReachInv(rank, above)'
    BY <1>2 DEF ReachInv
<1>3. ASSUME NEW isBatch \in BOOLEAN, Begin(isBatch)
      PROVE  ReachInv(rank, above)'
    BY <1>2, <1>3 DEF Begin
<1>4. ASSUME NEW i \in Item, NEW elements \in SUBSET Elementary(db, i),
             PostItem(i, elements) \/ PostFollowingNone(i, elements)
      PROVE  ReachInv(rank, above)'
    <2>1. Post /\ CreateFollowingNone(i, elements)
        BY <1>4 DEF PostItem, PostFollowingNone
    <2>2. phase' = "open" /\ batch' = batch
        BY <2>1 DEF Post, request
    <2>3. ~ batch => Reaches(rank, above)'
        BY <2>1, FollowingNoneReaches
    <2> QED  BY <1>2, <2>2, <2>3
<1>5. ASSUME NEW i \in Item, NEW elements \in SUBSET Elementary(db, i), NEW f \in Version,
             PostVersion(i, f, elements)
      PROVE  ReachInv(rank, above)'
    <2>1. phase' = "open" /\ batch' = batch
        BY <1>5 DEF PostVersion, Post, request
    <2>2. ~ batch => Reaches(rank, above)'
        BY <1>5, PostVersionReaches
    <2> QED  BY <1>2, <2>1, <2>2
<1>6. ASSUME NEW i \in Item, NEW elements \in SUBSET Elementary(db, i), NEW f \in Version,
             PostUpdate(i, f, elements)
      PROVE  ReachInv(rank, above)'
    <2>1. phase' = "open" /\ batch' = batch /\ batch
        BY <1>6 DEF PostUpdate, Post, UpdatesLast, request
    <2> QED  BY <1>2, <2>1
<1>13. ASSUME NEW i \in Item, NEW elements \in SUBSET Elementary(db, i),
              UpdateFollowingNone(i, elements)
       PROVE  ReachInv(rank, above)'
    <2>1. phase' = "open" /\ batch' = batch /\ batch
        BY <1>13 DEF UpdateFollowingNone, Post, UpdatesLast, request
    <2> QED  BY <1>2, <2>1
<1>7. ASSUME NEW s \in Version, Ignore(s)
      PROVE  ReachInv(rank, above)'
    <2>1. phase = "open" /\ UNCHANGED <<batch, roots, phase, posts>>
        BY <1>7 DEF Ignore, Notify, request
    <2>2. Guard => Reaches(rank, above)'
        BY <1>1, <1>7, IgnoreReaches
    <2> QED  BY <1>2, <2>1, <2>2
<1>8. ASSUME NEW s \in Version, AutoUpdate(s)
      PROVE  ReachInv(rank, above)'
    <2>1. phase = "open" /\ UNCHANGED <<batch, roots, phase, posts>>
        BY <1>8 DEF AutoUpdate, Notify, request
    <2>2. ~ Guard
        BY <1>1, <1>8, NoAutoUpdate
    <2> QED  BY <1>2, <2>1, <2>2
<1>9. ASSUME NEW s \in Version, AutoCreate(s)
      PROVE  ReachInv(rank, above)'
    <2>1. phase = "open" /\ UNCHANGED <<batch, roots, phase, posts>>
        BY <1>9 DEF AutoCreate, Notify, request
    <2>2. Guard => Reaches(rank, above)'
        BY <1>1, <1>9, AutoCreateReaches
    <2> QED  BY <1>2, <2>1, <2>2
<1>10. CASE Rollback \/ Finish
    BY <1>2, <1>10 DEF Rollback, Finish
<1>11. CASE Created
    <2>1. phase = "open" /\ UNCHANGED <<batch, roots, phase, posts>>
        BY <1>11 DEF Created, request
    <2>2. Guard => Reaches(rank, above)'
        BY <1>1, <1>11, CreatedReaches
    <2> QED  BY <1>2, <2>1, <2>2
<1>12. CASE Commit \/ UNCHANGED vars
    <2>1. UNCHANGED <<batch, roots, posts, db, saved, followedBy, stack>>
        BY <1>12 DEF Commit, vars, request, changelog
    <2>2. Reaches(rank, above) => Reaches(rank, above)'
        BY <2>1 DEF Reaches, FollowedAreAbove, NewReferToNew, StackIsFollowed, FollowedAreSeen,
           LastAreToBeSeen, IsNew, IsIn
    <2>3. phase' # "idle" => phase # "idle"
        BY <1>12 DEF Commit, vars
    <2>4. phase' = "committed" => posts' # 0
        BY <1>1, <1>12, <2>1 DEF Commit, vars
    <2> QED  BY <1>1, <1>2, <2>1, <2>2, <2>3, <2>4
<1> QED  BY <1>3, <1>4, <1>5, <1>6, <1>7, <1>8, <1>9, <1>10, <1>11, <1>12, <1>13
         DEF Next, Fail, Abort

\* With no creation under way, nothing is to be notified any more.
LEMMA ReachIsUpdatesReachLast ==
    ASSUME VersionsInv, NEW rank, NEW above, ReachInv(rank, above)
    PROVE  UpdatesReachLast
<1> SUFFICES ASSUME phase = "committed", ~ batch, roots = {},
                    NEW i \in Item, db.count[i] > 0, NEW e \in db.refs[db.last[i]],
                    followedBy[e] # None
             PROVE  FALSE
    BY DEF UpdatesReachLast
<1>1. stack = <<>> /\ db.count[i] # 0
    BY ItemAssumption DEF VersionsInv, PhaseIsFine, Typed, Database
<1>2. LastAreToBeSeen
    BY DEF ReachInv, Reaches
<1> QED  BY <1>1, <1>2 DEF LastAreToBeSeen

\* The theorem, for given ranks and cones.
LEMMA ReachIsInvariant ==
    ASSUME Acyclic, NEW rank \in [Item -> Nat], IsRank(rank),
           NEW above \in [Item -> SUBSET Item], IsCone(above)
    PROVE  Spec => []UpdatesReachLast
<1>1. Init => VersionsInv /\ OnceInv /\ ReachInv(rank, above)
    BY InitIsFine, InitIsOnce DEF Init, ReachInv
<1>2. VersionsInv /\ OnceInv /\ ReachInv(rank, above) /\ [Next]_vars
          => (VersionsInv /\ OnceInv /\ ReachInv(rank, above))'
    BY StepIsFine, StepKeepsOnce, StepReaches
<1>3. VersionsInv /\ ReachInv(rank, above) => UpdatesReachLast
    BY ReachIsUpdatesReachLast
<1> QED  BY <1>1, <1>2, <1>3, PTL DEF Spec

\* UpdatesReachLast: a single post for which no root versions are named is carried on to
\* the last version of every item that refers to what got a successor, in whatever order
\* the references are walked.
THEOREM UpdatesReachEverything ==
    ASSUME Acyclic, SinglePaths
    PROVE  Spec => []UpdatesReachLast
<1>1. PICK rank \in [Item -> Nat] : IsRank(rank)
    BY DEF Acyclic
<1>2. PICK above \in [Item -> SUBSET Item] : IsCone(above)
    BY DEF SinglePaths
<1> QED  BY <1>1, <1>2, ReachIsInvariant

================================================================================
