------------------------------ MODULE RatingProofs ------------------------------
(* Proofs about Rating, for any pages, widgets and users, and any number of      *)
(* events.                                                                      *)
EXTENDS Rating, SequenceTheorems, WellFoundedInduction, TLAPS

--------------------------------------------------------------------------------
(* The inductive invariant.                                                     *)

Persons == Raters \cup {Nobody}
RateValues == Buttons \cup {0, 1}
VersionName == Nat \X Nat
RateType ==
    [item : Nat, subject : Raters, rate : RateValues, page : DOMAIN Pages \cup {Elsewhere}]
WidgetType ==
    [at : {"absent", "mounting", "loading", "ready", "broken"}, mine : VersionName,
     shown : VersionName, listens : Nat, lock : BOOLEAN]
RequestType == [from : Nat, subject : Persons, cast : BOOLEAN]

\* What a cast knows depends on how far it is.
Waiting == [at : {"none", "refresh", "failed"}]
Creating == [at : {"create"}, rate : RateValues, subject : Raters]
Answered == [at : {"created"}, rate : RateValues, item : Nat]
PostingCast == [at : {"post", "wait", "stored", "failed"}, version : VersionName, rate : RateValues,
                subject : Persons, rounds : Int]
CastType == Waiting \cup Creating \cup Answered \cup PostingCast

RateTypes ==
    /\ rateItems \in Seq(Raters) /\ rateLog \in Seq(RateType)
    /\ user \in [DOMAIN Pages -> Persons] /\ known \in [DOMAIN Pages -> Nat]
    /\ widgets \in [Widgets -> WidgetType]
    /\ casts \in [Widgets -> CastType]
    /\ fetches \in [Widgets -> Seq(RequestType)]
    /\ mishap \in BOOLEAN

\* A rate is of the user who created its item; what widgets and casts know of are
\* items that there are.
KnownIn(items, version) == version = NoVersion \/ version[1] \in DOMAIN items
IsOfCreator(items, rate) ==
    rate.item \in DOMAIN items /\ rate.subject = items[rate.item]
CastKnows(items, cast) ==
    /\ cast.at = "created" => cast.item \in DOMAIN items
    /\ cast.at \in {"post", "wait", "stored"} => cast.version[1] \in DOMAIN items
ItemsAreKnown ==
    /\ \A n \in 1 .. Len(rateLog) : IsOfCreator(rateItems, rateLog[n])
    /\ \A w \in Widgets : KnownIn(rateItems, widgets[w].mine)
    /\ \A w \in Widgets : CastKnows(rateItems, casts[w])

RatingInv == RateTypes /\ ItemsAreKnown /\ OneRatePerUser

\* The requests of a widget are in the order in which its page's cache became
\* sure of the log, and without a mishap they are all for the user of the page.
Ordered(requests, sure) ==
    /\ \A i, j \in 1 .. Len(requests) : i <= j => requests[i].from <= requests[j].from
    /\ \A i \in 1 .. Len(requests) : requests[i].from <= sure
RequestsInOrder == \A w \in Widgets : Ordered(fetches[w], known[PageOf(w)])
CachesAreReal == \A p \in DOMAIN Pages : known[p] <= Len(rateLog)
AllOf(requests, u) == \A i \in 1 .. Len(requests) : requests[i].subject = u
NobodySwitched == mishap \/ \A w \in Widgets : AllOf(fetches[w], UserOf(w))

\* RateOf, of any log.
RateIn(log, u, k) ==
    LET own == {n \in 1 .. k : log[n].subject = u}
    IN  IF own = {} THEN NoVersion ELSE <<log[Max(own)].item, Max(own)>>

\* When a page has made the last rate of its user, then one of its casts is about
\* to tell its widgets, or its cache is sure of that rate, and every widget that
\* has been loaded shows it or has asked since.
Follows(widget, requests, last) ==
    widget.at \in {"loading", "ready"} =>
        IF requests = <<>> THEN widget.shown = last
                           ELSE \E i \in 1 .. Len(requests) : requests[i].from >= last[2]
LastRate(log, u) == RateIn(log, u, Len(log))
MadeOn(log, last, p) == last # NoVersion /\ log[last[2]].page = p
Telling(p) == \E w \in Range(Pages[p]) : casts[w].at = "stored"
AllFollow(p, last) ==
    /\ last[2] <= known[p]
    /\ \A w \in Range(Pages[p]) : Follows(widgets[w], fetches[w], last)
PageFollows(p, last) == MadeOn(rateLog, last, p) => Telling(p) \/ AllFollow(p, last)
PagesFollow == mishap \/ \A p \in DOMAIN Pages : PageFollows(p, LastRate(rateLog, user[p]))

\* A widget that casts is locked.
CastsAreLocked == \A w \in Widgets : casts[w].at # "none" => widgets[w].lock

AgreeInv ==
    /\ RatingInv /\ CastsAreLocked
    /\ RequestsInOrder /\ CachesAreReal /\ NobodySwitched /\ PagesFollow

--------------------------------------------------------------------------------
(* Lemmas about the operators of the model.                                     *)

\* A bounded set of numbers has a maximum.
LEMMA MaxIsThere ==
    ASSUME NEW S \in SUBSET Nat, S # {}, NEW n \in Nat, \A m \in S : m <= n
    PROVE  Max(S) \in S /\ \A m \in S : m <= Max(S)
<1> DEFINE T == {n - m : m \in S}
<1>1. T \subseteq Nat /\ T # {}
  OBVIOUS
<1>2. PICK d \in T : \A e \in T : ~ (<<e, d>> \in OpToRel(<, Nat))
  BY <1>1, NatLessThanWellFounded, WFMin
<1>3. \A e \in T : ~ (e < d)
  BY <1>1, <1>2 DEF OpToRel
<1>4. PICK m \in S : d = n - m
  BY <1>2
<1>5. \A h \in S : h <= m
  <2> SUFFICES ASSUME NEW h \in S PROVE h <= m
    OBVIOUS
  <2>1. n - h \in T
    OBVIOUS
  <2>2. ~ (n - h < n - m)
    BY <1>3, <1>4, <2>1
  <2> QED
    BY ONLY <1>4, <2>2, h \in Nat, m \in Nat, n \in Nat
<1>6. \E x \in S : \A y \in S : x >= y
  BY <1>4, <1>5
<1> QED
  BY <1>6 DEF Max

\* So has a pair of numbers.
LEMMA MaxOfTwo ==
    ASSUME NEW m \in Nat, NEW n \in Nat
    PROVE  Max({m, n}) \in {m, n} /\ m <= Max({m, n}) /\ n <= Max({m, n})
<1>1. \A h \in {m, n} : h <= m + n
  OBVIOUS
<1>2. {m, n} \in SUBSET Nat /\ {m, n} # {} /\ m + n \in Nat
  OBVIOUS
<1> QED
  BY <1>1, <1>2, MaxIsThere

\* A widget is on one page.
LEMMA PageOfWidget ==
    ASSUME NEW w \in Widgets
    PROVE  PageOf(w) \in DOMAIN Pages /\ w \in Range(Pages[PageOf(w)])
BY DEF Widgets, PageOf
\* A widget of a page is on no other page.
LEMMA WidgetOfPage ==
    ASSUME NEW p \in DOMAIN Pages, NEW w \in Range(Pages[p])
    PROVE  w \in Widgets /\ PageOf(w) = p
<1>1. w \in Widgets
  BY DEF Widgets
<1>2. PageOf(w) \in DOMAIN Pages /\ w \in Range(Pages[PageOf(w)])
  BY <1>1, PageOfWidget
<1> QED
  BY <1>1, <1>2, RatingAssumption

\* The last rate of a user in a log is the last of the user's rates, if there are
\* any.
LEMMA RateInIs ==
    ASSUME NEW log \in Seq(RateType), NEW u, NEW k \in Nat, k <= Len(log)
    PROVE  \/ /\ RateIn(log, u, k) = NoVersion
              /\ \A n \in 1 .. k : log[n].subject # u
           \/ \E n \in 1 .. k :
                  /\ RateIn(log, u, k) = <<log[n].item, n>>
                  /\ log[n].subject = u
                  /\ \A m \in 1 .. k : log[m].subject = u => m <= n
<1> DEFINE own == {n \in 1 .. k : log[n].subject = u}
<1>1. CASE own = {}
  BY <1>1 DEF RateIn
<1>2. CASE own # {}
  <2>1. own \in SUBSET Nat /\ \A m \in own : m <= k
    OBVIOUS
  <2>2. Max(own) \in own /\ \A m \in own : m <= Max(own)
    BY ONLY <1>2, <2>1, MaxIsThere, k \in Nat
  <2>3. RateIn(log, u, k) = <<log[Max(own)].item, Max(own)>>
    BY <1>2 DEF RateIn
  <2> HIDE DEF own
  <2>4. Max(own) \in 1 .. k /\ log[Max(own)].subject = u
    BY <2>2 DEF own
  <2>5. \A m \in 1 .. k : log[m].subject = u => m <= Max(own)
    BY <2>2 DEF own
  <2> QED
    BY <2>3, <2>4, <2>5
<1> QED
  BY <1>1, <1>2
\* The last rate is a version of an item in the log.
LEMMA RateInType ==
    ASSUME NEW log \in Seq(RateType), NEW u, NEW k \in Nat, k <= Len(log)
    PROVE  /\ RateIn(log, u, k) \in VersionName
           /\ RateIn(log, u, k) # NoVersion =>
                  /\ RateIn(log, u, k)[2] \in 1 .. k
                  /\ RateIn(log, u, k)[1] = log[RateIn(log, u, k)[2]].item
                  /\ log[RateIn(log, u, k)[2]].subject = u
<1>1. \A n \in 1 .. k : log[n] \in RateType /\ log[n].item \in Nat
  <2>1. \A n \in 1 .. k : n \in 1 .. Len(log)
    OBVIOUS
  <2>2. \A n \in 1 .. k : log[n] \in RateType
    BY <2>1
  <2> QED
    BY <2>2 DEF RateType
<1> QED
  BY <1>1, RateInIs DEF VersionName, NoVersion

\* Who is answered about enough of the log learns of the last rate.
LEMMA RateInOfMore ==
    ASSUME NEW log \in Seq(RateType), NEW u, NEW k \in Nat, k <= Len(log),
           NEW h \in Nat, h <= k, RateIn(log, u, k) # NoVersion,
           RateIn(log, u, k)[2] <= h
    PROVE  RateIn(log, u, h) = RateIn(log, u, k)
<1>1. PICK n \in 1 .. k :
          /\ RateIn(log, u, k) = <<log[n].item, n>>
          /\ log[n].subject = u
          /\ \A m \in 1 .. k : log[m].subject = u => m <= n
  BY RateInIs
<1>2. n <= h
  BY <1>1
<1>3. {m \in 1 .. h : log[m].subject = u} = {m \in 1 .. k : log[m].subject = u}
  <2>1. \A m \in 1 .. h : m \in 1 .. k
    OBVIOUS
  <2>2. \A m \in 1 .. k : log[m].subject = u => m \in 1 .. h
    BY <1>1, <1>2
  <2> QED
    BY <2>1, <2>2
<1> QED
  BY <1>3 DEF RateIn

\* A new rate is the last one of its user, and of nobody else.
LEMMA RateInAppend ==
    ASSUME NEW log \in Seq(RateType), NEW u, NEW rate \in RateType
    PROVE  RateIn(Append(log, rate), u, Len(Append(log, rate))) =
               IF rate.subject = u THEN <<rate.item, Len(log) + 1>>
                                   ELSE RateIn(log, u, Len(log))
<1> DEFINE new == Append(log, rate)
<1>1. /\ new \in Seq(RateType) /\ Len(new) = Len(log) + 1 /\ Len(log) \in Nat
      /\ \A n \in 1 .. Len(log) : new[n] = log[n]
      /\ new[Len(log) + 1] = rate
  OBVIOUS
<1> HIDE DEF new
<1>2. CASE rate.subject = u
  <2>1. Len(new) \in 1 .. Len(new) /\ new[Len(new)].subject = u
    BY <1>1, <1>2
  <2>2. PICK n \in 1 .. Len(new) :
            /\ RateIn(new, u, Len(new)) = <<new[n].item, n>>
            /\ \A m \in 1 .. Len(new) : new[m].subject = u => m <= n
    BY <1>1, <2>1, RateInIs
  <2>3. n = Len(new)
    BY <1>1, <2>1, <2>2
  <2> QED
    BY <1>1, <1>2, <2>2, <2>3 DEF new
<1>3. CASE rate.subject # u
  <2>1. {m \in 1 .. Len(new) : new[m].subject = u} = {m \in 1 .. Len(log) : log[m].subject = u}
    BY <1>1, <1>3
  <2> DEFINE own == {m \in 1 .. Len(log) : log[m].subject = u}
  <2>2. own # {} => Max(own) \in own
    <3>1. own \in SUBSET Nat /\ \A m \in own : m <= Len(log)
      OBVIOUS
    <3> QED
      BY ONLY <1>1, <3>1, MaxIsThere
  <2>3. own # {} => new[Max(own)] = log[Max(own)]
    BY <1>1, <2>2
  <2>4. RateIn(new, u, Len(new)) = IF own = {} THEN NoVersion ELSE <<new[Max(own)].item, Max(own)>>
    BY <2>1 DEF RateIn
  <2>5. RateIn(log, u, Len(log)) = IF own = {} THEN NoVersion ELSE <<log[Max(own)].item, Max(own)>>
    BY DEF RateIn
  <2> QED
    BY <1>3, <2>3, <2>4, <2>5 DEF new
<1> QED
  BY <1>2, <1>3

\* What asking leaves behind.
Continues(asked, requests, subject, sure) ==
    /\ asked \in Seq(RequestType) /\ asked # <<>>
    /\ Len(requests) <= Len(asked)
    /\ \A i \in 1 .. Len(requests) :
           asked[i].from = requests[i].from /\ asked[i].subject = requests[i].subject
    /\ \A i \in 1 .. Len(asked) :
           i \in 1 .. Len(requests) \/ (asked[i].from = sure /\ asked[i].subject = subject)
    /\ \E i \in 1 .. Len(asked) : asked[i].from = sure
\* Asking keeps what was asked, and has asked what it is to ask in the end.
LEMMA AskedIs ==
    ASSUME NEW requests \in Seq(RequestType), NEW w, UserOf(w) \in Persons,
           NEW sure \in Nat, NEW inCast \in BOOLEAN
    PROVE  Continues(Asked(requests, w, sure, inCast), requests, UserOf(w), sure)
<1> DEFINE same == {i \in DOMAIN requests :
                        requests[i].from = sure /\ requests[i].subject = UserOf(w)}
           new == [from |-> sure, subject |-> UserOf(w), cast |-> inCast]
<1>1. CASE same = {}
  <2>1. Asked(requests, w, sure, inCast) = Append(requests, new)
    BY <1>1 DEF Asked
  <2>2. new \in RequestType
    BY DEF RequestType
  <2> HIDE DEF new
  <2>3. new.from = sure /\ new.subject = UserOf(w)
    BY DEF new
  <2> DEFINE asked == Append(requests, new)
  <2>4. /\ asked \in Seq(RequestType) /\ Len(asked) = Len(requests) + 1 /\ Len(requests) \in Nat
        /\ \A i \in 1 .. Len(requests) : asked[i] = requests[i]
        /\ asked[Len(requests) + 1] = new
    BY <2>2
  <2> HIDE DEF asked
  <2>5. \A i \in 1 .. Len(asked) : i \in 1 .. Len(requests) \/ i = Len(requests) + 1
    BY <2>4
  <2>6. asked # <<>> /\ Len(requests) + 1 \in 1 .. Len(asked)
    BY <2>4
  <2>7. Asked(requests, w, sure, inCast) = asked
    BY <2>1 DEF asked
  <2>8. \A i \in 1 .. Len(requests) :
            asked[i].from = requests[i].from /\ asked[i].subject = requests[i].subject
    BY <2>4
  <2>9. \A i \in 1 .. Len(asked) :
            i \in 1 .. Len(requests) \/ (asked[i].from = sure /\ asked[i].subject = UserOf(w))
    BY <2>3, <2>4, <2>5
  <2>10. \E i \in 1 .. Len(asked) : asked[i].from = sure
    BY <2>3, <2>4, <2>6
  <2>11. Len(requests) <= Len(asked)
    BY <2>4
  <2> QED
    BY ONLY <2>4, <2>6, <2>7, <2>8, <2>9, <2>10, <2>11 DEF Continues
<1>2. CASE same # {}
  <2> DEFINE max == Max(same)
             asked == [requests EXCEPT ![max].cast = @ \/ inCast]
  <2>1. Asked(requests, w, sure, inCast) = asked
    BY <1>2 DEF Asked
  <2>2. PICK i0 \in 1 .. Len(requests) : requests[i0].from = sure
    BY <1>2
  <2>3. \A i \in 1 .. Len(requests) : requests[i] \in RequestType
    OBVIOUS
  <2> HIDE DEF max
  <2>4. \A i \in 1 .. Len(requests) :
            asked[i] = IF i = max THEN [requests[i] EXCEPT !.cast = @ \/ inCast] ELSE requests[i]
    OBVIOUS
  <2>5. DOMAIN asked = 1 .. Len(requests)
    OBVIOUS
  <2> HIDE DEF asked
  <2>6. \A i \in 1 .. Len(requests) :
            /\ asked[i] \in RequestType
            /\ asked[i].from = requests[i].from /\ asked[i].subject = requests[i].subject
    BY <2>3, <2>4 DEF RequestType
  <2>7. asked \in Seq(RequestType) /\ Len(asked) = Len(requests)
    <3>1. asked = [i \in 1 .. Len(requests) |-> asked[i]]
      BY <2>4, <2>5 DEF asked
    <3> QED
      BY <2>5, <2>6, <3>1, Len(requests) \in Nat
  <2>8. asked # <<>> /\ asked[i0].from = sure
    BY <2>2, <2>6, <2>7
  <2>9. \E i \in 1 .. Len(asked) : asked[i].from = sure
    BY <2>2, <2>7, <2>8
  <2>10. \A i \in 1 .. Len(asked) : i \in 1 .. Len(requests)
    BY <2>7
  <2>11. Len(requests) <= Len(asked)
    BY <2>7
  <2> QED
    BY ONLY <2>1, <2>6, <2>7, <2>8, <2>9, <2>10, <2>11 DEF Continues
<1> QED
  BY <1>1, <1>2

\* An answered request leaves the others as they were.
LEMMA RemoveAtIs ==
    ASSUME NEW requests \in Seq(RequestType), NEW i \in 1 .. Len(requests)
    PROVE  LET rest == RemoveAt(requests, i)
           IN  /\ rest \in Seq(RequestType) /\ Len(rest) = Len(requests) - 1
               /\ \A j \in 1 .. Len(rest) :
                      rest[j] = IF j < i THEN requests[j] ELSE requests[j + 1]
<1> DEFINE front == SubSeq(requests, 1, i - 1)
           back == SubSeq(requests, i + 1, Len(requests))
           rest == front \o back
<1>1. front \in Seq(RequestType) /\ Len(front) = i - 1
      /\ \A j \in 1 .. i - 1 : front[j] = requests[j]
  BY SubSeqProperties
<1>2. back \in Seq(RequestType) /\ Len(back) = Len(requests) - i
      /\ \A j \in 1 .. Len(requests) - i : back[j] = requests[i + j]
  BY SubSeqProperties
<1> HIDE DEF front, back
<1>3. rest \in Seq(RequestType) /\ Len(rest) = Len(requests) - 1
  BY <1>1, <1>2
<1>4. \A j \in 1 .. Len(rest) : rest[j] = IF j < i THEN requests[j] ELSE requests[j + 1]
  BY <1>1, <1>2, <1>3
<1> QED
  BY <1>3, <1>4 DEF RemoveAt, front, back

--------------------------------------------------------------------------------
(* Types.                                                                       *)

\* What is done to a widget leaves a widget.
LEMMA WidgetSteps ==
    ASSUME NEW widget \in WidgetType
    PROVE  /\ \A at \in {"absent", "mounting", "loading", "ready", "broken"} :
                  [widget EXCEPT !.at = at] \in WidgetType
           /\ [widget EXCEPT !.lock = TRUE] \in WidgetType
           /\ Finally(widget) \in WidgetType
BY DEF WidgetType, Finally
\* So does storing and showing a version.
LEMMA ShowsTypes ==
    ASSUME NEW widget \in WidgetType, NEW version \in VersionName
    PROVE  /\ StoreMyRate(widget, version) \in WidgetType
           /\ Shows(widget, version) \in WidgetType
           /\ StoreMyRate(widget, version).mine = version
           /\ Shows(widget, version).mine \in {widget.mine, version}
<1>1. version[1] \in Nat
  BY DEF VersionName
<1> DEFINE stored == StoreMyRate(widget, version)
<1>2. stored \in WidgetType /\ stored.mine = version
  BY <1>1 DEF WidgetType, StoreMyRate
<1> HIDE DEF stored
<1>3. [stored EXCEPT !.shown = version] \in WidgetType /\ [stored EXCEPT !.shown = version].mine = version
  BY <1>2 DEF WidgetType
<1>4. Shows(widget, version) \in WidgetType /\ Shows(widget, version).mine \in {widget.mine, version}
  BY <1>3 DEF Shows, stored
<1> QED
  BY <1>2, <1>4 DEF stored

\* The user of a widget is somebody or nobody.
LEMMA UserOfType ==
    ASSUME RateTypes, NEW w \in Widgets
    PROVE  UserOf(w) \in Persons /\ known[PageOf(w)] \in Nat
BY PageOfWidget DEF RateTypes, UserOf

\* The last rate of a user is a version.
LEMMA RateOfIs ==
    ASSUME RateTypes, NEW u, NEW k \in 0 .. Len(rateLog)
    PROVE  /\ RateOf(u, k) = RateIn(rateLog, u, k)
           /\ RateOf(u, k) \in VersionName
           /\ RateOf(u, k) # NoVersion =>
                  RateOf(u, k)[2] \in 1 .. k /\ RateOf(u, k)[1] = rateLog[RateOf(u, k)[2]].item
<1>1. RateOf(u, k) = RateIn(rateLog, u, k)
  BY DEF RateOf, RateIn
<1>2. rateLog \in Seq(RateType) /\ k \in Nat /\ k <= Len(rateLog)
  BY DEF RateTypes
<1> QED
  BY <1>1, <1>2, RateInType

\* A new cast at a widget.
LEMMA CastingTypes ==
    ASSUME RateTypes, NEW w \in Widgets, NEW cast \in CastType, Casting(w, cast)
    PROVE  casts' \in [Widgets -> CastType]
BY DEF RateTypes, Casting

\* Requests at a widget.
LEMMA FetchingTypes ==
    ASSUME RateTypes, NEW w \in Widgets, NEW inCast \in BOOLEAN, Fetching(w, inCast)
    PROVE  fetches' \in [Widgets -> Seq(RequestType)]
<1>1. fetches[w] \in Seq(RequestType)
  BY DEF RateTypes
<1>2. Asked(fetches[w], w, known[PageOf(w)], inCast) \in Seq(RequestType)
  BY <1>1, AskedIs, UserOfType DEF Continues
<1> QED
  BY <1>2 DEF RateTypes, Fetching

\* What the server takes is of the creator of the item, who rated nowhere else.
LEMMA NoErrors ==
    ASSUME NEW cast, Errors(cast) = {}
    PROVE  MayEdit(cast.subject, cast.version[1]) /\ ~ RatedElsewhere(cast.subject, cast.version[1])
<1>1. MayEdit(cast.subject, cast.version[1])
  BY DEF Errors
<1>2. "unique" \notin Errors(cast)
  OBVIOUS
<1> QED
  BY <1>1, <1>2 DEF Errors

\* The types hold in the beginning.
LEMMA TypesInit == RatingInit => RateTypes
<1> SUFFICES ASSUME RatingInit PROVE RateTypes
  OBVIOUS
<1>1. Rater \in Raters
  BY RatingAssumption DEF Rater
<1>2. rateItems \in Seq(Raters)
  BY <1>1 DEF RatingInit
<1>3. rateLog \in Seq(RateType) /\ Len(rateLog) = Len(rateItems)
  <2>1. \A i \in DOMAIN rateItems :
            [item |-> i, subject |-> rateItems[i], rate |-> 1, page |-> Elsewhere] \in RateType
    BY <1>2 DEF RateType, RateValues
  <2>2. DOMAIN rateItems = 1 .. Len(rateItems) /\ Len(rateItems) \in Nat
    BY <1>2
  <2>3. rateLog = [i \in 1 .. Len(rateItems) |->
                      [item |-> i, subject |-> rateItems[i], rate |-> 1, page |-> Elsewhere]]
    BY <2>2 DEF RatingInit
  <2> QED
    BY <2>1, <2>2, <2>3
<1>4. user \in [DOMAIN Pages -> Persons] /\ known \in [DOMAIN Pages -> Nat]
  BY <1>1, <1>3 DEF RatingInit, Persons
<1>5. widgets \in [Widgets -> WidgetType]
  <2>1. Absent \in WidgetType
    BY DEF Absent, WidgetType, VersionName, NoVersion
  <2>2. ASSUME NEW w \in Widgets PROVE Loaded(w) \in WidgetType
    <3>1. RateOf(UserOf(w), Len(rateLog)) = RateIn(rateLog, UserOf(w), Len(rateLog))
      BY DEF RateOf, RateIn
    <3>2. RateOf(UserOf(w), Len(rateLog)) \in VersionName
      BY <1>3, <3>1, RateInType
    <3> QED
      BY <3>2 DEF Loaded, WidgetType, VersionName
  <2> QED
    BY <2>1, <2>2 DEF RatingInit
<1>6. casts \in [Widgets -> CastType]
  BY DEF RatingInit, NoCast, CastType, Waiting
<1>7. fetches \in [Widgets -> Seq(RequestType)]
  BY DEF RatingInit
<1> QED
  BY <1>2, <1>3, <1>4, <1>5, <1>6, <1>7 DEF RatingInit, RateTypes

\* Every step keeps the types.
LEMMA TypesStep ==
    ASSUME RateTypes, ItemsAreKnown, [RatingNext]_ratingVars
    PROVE  RateTypes'
<1>1. CASE UNCHANGED ratingVars
  BY <1>1 DEF ratingVars, RateTypes
<1>2. ASSUME NEW w \in Widgets, Mount(w) PROVE RateTypes'
  <2>1. [widgets[w] EXCEPT !.at = "mounting"] \in WidgetType
    BY WidgetSteps DEF RateTypes
  <2> QED
    BY <1>2, <2>1 DEF Mount, RateTypes
<1>3. ASSUME NEW w \in Widgets, Cast(w) PROVE RateTypes'
  <2>1. [widgets[w] EXCEPT !.lock = TRUE] \in WidgetType
    BY WidgetSteps DEF RateTypes
  <2>2. casts' \in [Widgets -> CastType]
    <3>1. PICK value \in Buttons :
              LET rate == IF RateShown(w) = value THEN 0 ELSE value
              IN  Casting(w, IF widgets[w].mine # NoVersion THEN Post(w, widgets[w].mine, rate)
                             ELSE [at |-> "create", rate |-> rate, subject |-> UserOf(w)])
      BY <1>3 DEF Cast
    <3> DEFINE rate == IF RateShown(w) = value THEN 0 ELSE value
    <3>2. rate \in RateValues
      BY DEF RateValues
    <3> HIDE DEF rate
    <3>3. UserOf(w) \in Raters
      BY <1>3, UserOfType DEF Cast, Persons
    <3>4. widgets[w].mine \in VersionName
      BY DEF RateTypes, WidgetType
    <3>5. Post(w, widgets[w].mine, rate) \in CastType
      BY <3>2, <3>3, <3>4 DEF Post, CastType, PostingCast, Persons, RateRounds
    <3>6. [at |-> "create", rate |-> rate, subject |-> UserOf(w)] \in CastType
      BY <3>2, <3>3 DEF CastType, Creating
    <3> QED
      BY <3>1, <3>5, <3>6, CastingTypes DEF rate
  <2> QED
    BY <1>3, <2>1, <2>2 DEF Cast, RateTypes
<1>4. ASSUME NEW w \in Widgets, GotPool(w) PROVE RateTypes'
  <2>1. [widgets[w] EXCEPT !.at = "loading"] \in WidgetType
    BY WidgetSteps DEF RateTypes
  <2> QED
    BY <1>4, <2>1, FetchingTypes DEF GotPool, RateTypes
<1>5. ASSUME NEW w \in Widgets, Ready(w) PROVE RateTypes'
  <2>1. [widgets[w] EXCEPT !.at = "ready"] \in WidgetType
    BY WidgetSteps DEF RateTypes
  <2> QED
    BY <1>5, <2>1 DEF Ready, RateTypes
<1>6. ASSUME NEW w \in Widgets, GotRates(w) PROVE RateTypes'
  <2>1. PICK i \in DOMAIN fetches[w] :
            /\ InTurn(i)
            /\ \E k \in Answers(fetches[w][i]) :
                   /\ known' = [known EXCEPT ![PageOf(w)] = Max({@, k})]
                   /\ widgets' = [widgets EXCEPT ![w] = Shows(@, RateOf(fetches[w][i].subject, k))]
            /\ fetches' = [fetches EXCEPT ![w] = RemoveAt(@, i)]
            /\ UNCHANGED <<rateItems, rateLog, user, casts, messages>>
    BY <1>6 DEF GotRates
  <2>2. fetches[w] \in Seq(RequestType) /\ i \in 1 .. Len(fetches[w])
    BY <2>1 DEF RateTypes
  <2>3. RemoveAt(fetches[w], i) \in Seq(RequestType)
    BY <2>2, RemoveAtIs
  <2>4. fetches[w][i].from \in Nat
    <3>1. fetches[w][i] \in RequestType
      BY <2>2
    <3> QED
      BY <3>1 DEF RequestType
  <2>5. PICK k \in Answers(fetches[w][i]) :
            /\ known' = [known EXCEPT ![PageOf(w)] = Max({@, k})]
            /\ widgets' = [widgets EXCEPT ![w] = Shows(@, RateOf(fetches[w][i].subject, k))]
    BY <2>1
  <2>6. k \in 0 .. Len(rateLog)
    BY <2>4, <2>5 DEF Answers, RateTypes
  <2>7. Max({known[PageOf(w)], k}) \in Nat
    BY <2>6, UserOfType, MaxOfTwo
  <2>8. Shows(widgets[w], RateOf(fetches[w][i].subject, k)) \in WidgetType
    BY <2>6, RateOfIs, ShowsTypes DEF RateTypes
  <2>9. mishap' \in BOOLEAN
    BY <2>1 DEF InTurn, Mishap, RateTypes
  <2> QED
    BY <2>1, <2>3, <2>5, <2>7, <2>8, <2>9 DEF RateTypes
<1>7. ASSUME NEW w \in Widgets, Told(w) PROVE RateTypes'
  BY <1>7, FetchingTypes DEF Told, RateTypes
<1>8. ASSUME NEW w \in Widgets, ServerCreates(w) PROVE RateTypes'
  <2>1. casts[w] \in Creating
    BY <1>8 DEF ServerCreates, RateTypes, CastType, Waiting, Creating, Answered, PostingCast
  <2>2. casts[w].rate \in RateValues /\ casts[w].subject \in Raters
    BY <2>1 DEF Creating
  <2>3. [at |-> "created", rate |-> casts[w].rate, item |-> Len(rateItems) + 1] \in CastType
    BY <2>2 DEF CastType, Answered, RateTypes
  <2>4. Append(rateItems, casts[w].subject) \in Seq(Raters)
    BY <2>2 DEF RateTypes
  <2> QED
    BY <1>8, <2>3, <2>4, CastingTypes DEF ServerCreates, RateTypes
<1>9. ASSUME NEW w \in Widgets, Created(w) PROVE RateTypes'
  <2>1. casts[w] \in Answered
    BY <1>9 DEF Created, RateTypes, CastType, Waiting, Creating, Answered, PostingCast
  <2>2. casts[w].rate \in RateValues /\ <<casts[w].item, 0>> \in VersionName
    BY <2>1 DEF Answered, VersionName
  <2> DEFINE version == <<casts[w].item, 0>>
  <2> HIDE DEF version
  <2>3. Post(w, version, casts[w].rate) \in CastType
    BY <2>2, UserOfType DEF Post, CastType, PostingCast, RateRounds, version
  <2>4. StoreMyRate(widgets[w], version) \in WidgetType
    BY <2>2, ShowsTypes DEF RateTypes, version
  <2>5. /\ widgets' = [widgets EXCEPT ![w] = StoreMyRate(@, version)]
        /\ Casting(w, Post(w, version, casts[w].rate))
    BY <1>9 DEF Created, version
  <2> QED
    BY <1>9, <2>3, <2>4, <2>5, CastingTypes DEF Created, RateTypes
<1>10. ASSUME NEW w \in Widgets, ServerTakesRate(w) PROVE RateTypes'
  <2> DEFINE cast == casts[w]
             rate == [item |-> cast.version[1], subject |-> cast.subject, rate |-> cast.rate,
                      page |-> PageOf(w)]
  <2>1. cast \in PostingCast
    BY <1>10 DEF ServerTakesRate, RateTypes, CastType, Waiting, Creating, Answered, PostingCast
  <2>2. \A at \in {"wait", "stored", "failed"} : [cast EXCEPT !.at = at] \in CastType
    BY <2>1 DEF CastType, PostingCast
  <2>3. CASE Errors(cast) = {}
    <3>1. /\ rateLog' = Append(rateLog, rate)
          /\ Casting(w, [cast EXCEPT !.at = "stored"])
      BY <1>10, <2>3 DEF ServerTakesRate
    <3>2. cast.version[1] \in DOMAIN rateItems
      BY <1>10 DEF ServerTakesRate, ItemsAreKnown, CastKnows
    <3>3. cast.subject \in Raters
      <4>1. cast.subject = rateItems[cast.version[1]]
        BY <2>3, NoErrors DEF MayEdit
      <4> HIDE DEF cast
      <4> QED
        BY <3>2, <4>1 DEF RateTypes
    <3>4. rate \in RateType
      BY <2>1, <3>3, PageOfWidget DEF PostingCast, VersionName, RateType
    <3>5. rateLog' \in Seq(RateType)
      BY <3>1, <3>4 DEF RateTypes
    <3>6. casts' \in [Widgets -> CastType]
      BY <2>2, <3>1, CastingTypes
    <3> QED
      BY <1>10, <3>5, <3>6 DEF ServerTakesRate, RateTypes
  <2>4. CASE Errors(cast) # {}
    <3>1. PICK at \in {"wait", "failed"} : Casting(w, [cast EXCEPT !.at = at])
      BY <1>10, <2>4 DEF ServerTakesRate
    <3>2. casts' \in [Widgets -> CastType]
      BY <2>2, <3>1, CastingTypes
    <3> QED
      BY <1>10, <2>4, <3>2 DEF ServerTakesRate, RateTypes
  <2> QED
    BY <2>3, <2>4
<1>11. ASSUME NEW w \in Widgets, GotNewest(w) PROVE RateTypes'
  <2> DEFINE cast == casts[w]
  <2>1. cast \in PostingCast
    BY <1>11 DEF GotNewest, RateTypes, CastType, Waiting, Creating, Answered, PostingCast
  <2>2. PICK n \in known[PageOf(w)] .. Len(rateLog) :
            LET newest == Max({0} \cup {m \in 1 .. n : rateLog[m].item = cast.version[1]})
            IN  Casting(w, [cast EXCEPT !.at = "post", !.version = <<cast.version[1], newest>>,
                                        !.rounds = @ - 1])
    BY <1>11 DEF GotNewest
  <2>3. n \in Nat
    BY <2>2, UserOfType DEF RateTypes
  <2> DEFINE items == {0} \cup {m \in 1 .. n : rateLog[m].item = cast.version[1]}
  <2>4. items \in SUBSET Nat /\ items # {} /\ \A m \in items : m <= n
    BY <2>3
  <2>5. Max(items) \in Nat
    <3> HIDE DEF items
    <3> QED
      BY <2>3, <2>4, MaxIsThere
  <2>6. Casting(w, [cast EXCEPT !.at = "post", !.version = <<cast.version[1], Max(items)>>,
                                !.rounds = @ - 1])
    BY <2>2
  <2> HIDE DEF items
  <2>7. <<cast.version[1], Max(items)>> \in VersionName
    BY <2>1, <2>5 DEF PostingCast, VersionName
  <2>8. cast.rounds - 1 \in Int
    BY <2>1 DEF PostingCast
  <2>9. [cast EXCEPT !.at = "post", !.version = <<cast.version[1], Max(items)>>,
                     !.rounds = @ - 1] \in CastType
    <3> HIDE DEF cast
    <3> QED
      BY <2>1, <2>7, <2>8 DEF CastType, PostingCast
  <2> QED
    BY <1>11, <2>6, <2>9, CastingTypes DEF GotNewest, RateTypes
<1>12. ASSUME NEW w \in Widgets, Succeeded(w) PROVE RateTypes'
  <2>1. known' \in [DOMAIN Pages -> Nat]
    BY <1>12, PageOfWidget DEF Succeeded, RateTypes
  <2>2. PICK thrown \in BOOLEAN :
            /\ fetches' = Trigger(PageOf(w), w, thrown)
            /\ Casting(w, [at |-> IF thrown THEN "failed" ELSE "refresh"])
            /\ mishap' = (mishap \/ thrown)
    BY <1>12 DEF Succeeded
  <2>3. [at |-> IF thrown THEN "failed" ELSE "refresh"] \in CastType
    BY DEF CastType, Waiting
  <2>4. fetches' \in [Widgets -> Seq(RequestType)]
    <3>1. ASSUME NEW v \in Widgets
          PROVE  Asked(fetches[v], v, Len(rateLog), v = w /\ ~ thrown) \in Seq(RequestType)
      <4>1. fetches[v] \in Seq(RequestType) /\ Len(rateLog) \in Nat
        BY DEF RateTypes
      <4> QED
        BY <4>1, AskedIs, UserOfType DEF Continues
    <3> QED
      BY <2>2, <3>1 DEF Trigger, RateTypes
  <2> QED
    BY <1>12, <2>1, <2>2, <2>3, <2>4, CastingTypes DEF Succeeded, RateTypes
<1>13. ASSUME NEW w \in Widgets, Finishes(w) PROVE RateTypes'
  <2>1. Finally(widgets[w]) \in WidgetType
    BY WidgetSteps DEF RateTypes
  <2>2. NoCast \in CastType
    BY DEF NoCast, CastType, Waiting
  <2> QED
    BY <1>13, <2>1, <2>2, CastingTypes DEF Finishes, RateTypes
<1>14. ASSUME NEW w \in Widgets, CastFails(w) PROVE RateTypes'
  <2>1. [at |-> "failed"] \in CastType
    BY DEF CastType, Waiting
  <2> QED
    BY <1>14, <2>1, CastingTypes DEF CastFails, Mishap, RateTypes
<1>15. ASSUME NEW w \in Widgets, FetchFails(w) PROVE RateTypes'
  <2>1. [widgets[w] EXCEPT !.at = IF @ = "loading" THEN "broken" ELSE @] \in WidgetType
    BY DEF RateTypes, WidgetType
  <2>2. Tail(fetches[w]) \in Seq(RequestType)
    BY <1>15 DEF FetchFails, RateTypes
  <2> QED
    BY <1>15, <2>1, <2>2 DEF FetchFails, Mishap, RateTypes
<1>16. ASSUME NEW p \in DOMAIN Pages, SwitchUser(p) PROVE RateTypes'
  BY <1>16 DEF SwitchUser, Mishap, RateTypes, Persons
<1> QED
  BY <1>1, <1>2, <1>3, <1>4, <1>5, <1>6, <1>7, <1>8, <1>9, <1>10, <1>11, <1>12, <1>13,
     <1>14, <1>15, <1>16 DEF RatingNext, WidgetGoesOn, CastGoesOn

--------------------------------------------------------------------------------
(* One rate of every user.                                                      *)

\* Another item changes nothing for those that there are.
LEMMA MoreItems ==
    ASSUME NEW items \in Seq(Raters), NEW u \in Raters
    PROVE  /\ \A version : KnownIn(items, version) => KnownIn(Append(items, u), version)
           /\ \A rate : IsOfCreator(items, rate) => IsOfCreator(Append(items, u), rate)
           /\ \A cast : CastKnows(items, cast) => CastKnows(Append(items, u), cast)
           /\ Len(items) + 1 \in DOMAIN Append(items, u)
<1>1. /\ \A i \in DOMAIN items : i \in DOMAIN Append(items, u) /\ Append(items, u)[i] = items[i]
      /\ Len(items) + 1 \in DOMAIN Append(items, u)
  OBVIOUS
<1> QED
  BY ONLY <1>1 DEF KnownIn, IsOfCreator, CastKnows

\* Casts that know of their items, when one of them goes on.
LEMMA CastingKnows ==
    ASSUME RateTypes, ItemsAreKnown, NEW w \in Widgets, NEW cast, Casting(w, cast),
           CastKnows(rateItems, cast)
    PROVE  \A v \in Widgets : CastKnows(rateItems, casts'[v])
BY DEF RateTypes, ItemsAreKnown, Casting

\* A cast that has nothing to know of.
LEMMA KnowsNothing ==
    ASSUME NEW items, NEW cast, cast.at \notin {"created", "post", "wait", "stored"}
    PROVE  CastKnows(items, cast)
BY DEF CastKnows

\* A widget learns of a version of an item.
LEMMA ShowingKnows ==
    ASSUME NEW items, NEW widget \in WidgetType, NEW version \in VersionName,
           KnownIn(items, widget.mine), KnownIn(items, version)
    PROVE  /\ KnownIn(items, StoreMyRate(widget, version).mine)
           /\ KnownIn(items, Shows(widget, version).mine)
BY ShowsTypes

\* The last rate of a user is of an item.
LEMMA RateOfKnows ==
    ASSUME RateTypes, ItemsAreKnown, NEW u, NEW k \in 0 .. Len(rateLog)
    PROVE  KnownIn(rateItems, RateOf(u, k))
<1>1. CASE RateOf(u, k) = NoVersion
  BY <1>1 DEF KnownIn
<1>2. CASE RateOf(u, k) # NoVersion
  <2>1. RateOf(u, k)[2] \in 1 .. Len(rateLog) /\ RateOf(u, k)[1] = rateLog[RateOf(u, k)[2]].item
    BY <1>2, RateOfIs DEF RateTypes
  <2> QED
    BY <2>1 DEF ItemsAreKnown, IsOfCreator, KnownIn
<1> QED
  BY <1>1, <1>2

\* The invariant holds in the beginning.
LEMMA RatingInvInit == RatingInit => RatingInv
<1> SUFFICES ASSUME RatingInit PROVE RatingInv
  OBVIOUS
<1>1. RateTypes
  BY TypesInit
<1>2. Len(rateLog) = Len(rateItems) /\ DOMAIN rateItems = 1 .. Len(rateItems)
      /\ Len(rateItems) \in {0, 1}
  BY <1>1 DEF RatingInit, RateTypes
<1>3. \A n \in 1 .. Len(rateLog) : rateLog[n].item = n /\ IsOfCreator(rateItems, rateLog[n])
  BY <1>2 DEF RatingInit, IsOfCreator
<1>4. ItemsAreKnown
  <2>1. ASSUME NEW w \in Widgets PROVE KnownIn(rateItems, widgets[w].mine)
    <3>1. widgets[w] = Absent \/ widgets[w] = Loaded(w)
      BY DEF RatingInit
    <3>2. Absent.mine = NoVersion /\ Loaded(w).mine = RateOf(UserOf(w), Len(rateLog))
      BY DEF Absent, Loaded
    <3>3. Len(rateLog) \in 0 .. Len(rateLog)
      BY <1>2
    <3>4. RateOf(UserOf(w), Len(rateLog)) # NoVersion =>
              RateOf(UserOf(w), Len(rateLog))[1] \in DOMAIN rateItems
      BY <1>1, <1>3, <3>3, RateOfIs DEF IsOfCreator
    <3> QED
      BY <3>1, <3>2, <3>4 DEF KnownIn
  <2>2. \A w \in Widgets : CastKnows(rateItems, casts[w])
    BY KnowsNothing DEF RatingInit, NoCast
  <2> QED
    BY <1>3, <2>1, <2>2 DEF ItemsAreKnown
<1>5. OneRatePerUser
  BY <1>1, <1>2, <1>3 DEF OneRatePerUser, IsOfCreator, RateTypes
<1> QED
  BY <1>1, <1>4, <1>5 DEF RatingInv

\* Every step keeps the invariant.
LEMMA RatingInvStep ==
    ASSUME RatingInv, [RatingNext]_ratingVars
    PROVE  RatingInv'
<1> USE DEF RatingInv
<1>0. RateTypes'
  BY TypesStep
<1> DEFINE Keeps == UNCHANGED <<rateItems, rateLog>>
<1>a. ASSUME Keeps,
             \A w \in Widgets : KnownIn(rateItems, widgets'[w].mine),
             \A w \in Widgets : CastKnows(rateItems, casts'[w])
      PROVE  RatingInv'
  BY <1>0, <1>a DEF ItemsAreKnown, OneRatePerUser
<1>b. ASSUME Keeps, UNCHANGED widgets,
             \A w \in Widgets : CastKnows(rateItems, casts'[w])
      PROVE  RatingInv'
  BY <1>a, <1>b DEF ItemsAreKnown
<1>c. ASSUME Keeps, UNCHANGED casts, NEW w \in Widgets, NEW widget,
             widgets' = [widgets EXCEPT ![w] = widget], KnownIn(rateItems, widget.mine)
      PROVE  RatingInv'
  BY <1>a, <1>c DEF ItemsAreKnown, RateTypes
<1>1. CASE UNCHANGED ratingVars
  BY <1>1, <1>b DEF ratingVars, ItemsAreKnown
<1>2. ASSUME NEW w \in Widgets, Mount(w) \/ GotPool(w) \/ Ready(w) PROVE RatingInv'
  <2>1. PICK at \in {"mounting", "loading", "ready"} :
            Keeps /\ UNCHANGED casts /\ widgets' = [widgets EXCEPT ![w].at = at]
    BY <1>2 DEF Mount, GotPool, Ready
  <2>2. [widgets[w] EXCEPT !.at = at].mine = widgets[w].mine
    BY DEF RateTypes, WidgetType
  <2> QED
    BY <1>c, <2>1, <2>2 DEF ItemsAreKnown
<1>3. ASSUME NEW w \in Widgets, Cast(w) PROVE RatingInv'
  <2>1. PICK rate :
            Casting(w, IF widgets[w].mine # NoVersion THEN Post(w, widgets[w].mine, rate)
                       ELSE [at |-> "create", rate |-> rate, subject |-> UserOf(w)])
    BY <1>3 DEF Cast
  <2>2. Keeps /\ widgets' = [widgets EXCEPT ![w].lock = TRUE]
    BY <1>3 DEF Cast
  <2>3. \A v \in Widgets : KnownIn(rateItems, widgets'[v].mine)
    <3>1. [widgets[w] EXCEPT !.lock = TRUE].mine = widgets[w].mine
      BY DEF RateTypes, WidgetType
    <3> QED
      BY <2>2, <3>1 DEF ItemsAreKnown, RateTypes
  <2>4. widgets[w].mine # NoVersion => CastKnows(rateItems, Post(w, widgets[w].mine, rate))
    BY DEF ItemsAreKnown, KnownIn, CastKnows, Post
  <2>5. CastKnows(rateItems, [at |-> "create", rate |-> rate, subject |-> UserOf(w)])
    BY KnowsNothing
  <2>6. \A v \in Widgets : CastKnows(rateItems, casts'[v])
    BY <2>1, <2>4, <2>5, CastingKnows
  <2> QED
    BY <1>a, <2>2, <2>3, <2>6
<1>4. ASSUME NEW w \in Widgets, GotRates(w) PROVE RatingInv'
  <2>1. Keeps /\ UNCHANGED casts
    BY <1>4 DEF GotRates
  <2>2. PICK i \in DOMAIN fetches[w] : \E k \in Answers(fetches[w][i]) :
            widgets' = [widgets EXCEPT ![w] = Shows(@, RateOf(fetches[w][i].subject, k))]
    BY <1>4 DEF GotRates
  <2>3. PICK k \in Answers(fetches[w][i]) :
            widgets' = [widgets EXCEPT ![w] = Shows(widgets[w], RateOf(fetches[w][i].subject, k))]
    BY <2>2
  <2>4. k \in 0 .. Len(rateLog)
    <3>1. fetches[w][i] \in RequestType
      BY <2>2 DEF RateTypes
    <3> QED
      BY <2>3, <3>1 DEF RequestType, Answers, RateTypes
  <2>5. KnownIn(rateItems, Shows(widgets[w], RateOf(fetches[w][i].subject, k)).mine)
    BY <2>4, RateOfIs, RateOfKnows, ShowingKnows DEF ItemsAreKnown, RateTypes
  <2> QED
    BY <1>c, <2>1, <2>3, <2>5
<1>5. ASSUME NEW w \in Widgets, Told(w) PROVE RatingInv'
  BY <1>5, <1>b DEF Told, ItemsAreKnown
<1>6. ASSUME NEW w \in Widgets, ServerCreates(w) PROVE RatingInv'
  <2> DEFINE u == casts[w].subject
             cast == [at |-> "created", rate |-> casts[w].rate, item |-> Len(rateItems) + 1]
  <2>1. u \in Raters
    <3>1. casts[w] \in Creating
      BY <1>6 DEF ServerCreates, RateTypes, CastType, Waiting, Creating, Answered, PostingCast
    <3> QED
      BY <3>1 DEF Creating
  <2>2. /\ rateItems' = Append(rateItems, u) /\ Casting(w, cast)
        /\ UNCHANGED <<rateLog, widgets>>
    BY <1>6 DEF ServerCreates
  <2>3. rateItems \in Seq(Raters)
    BY DEF RateTypes
  <2>4. CastKnows(Append(rateItems, u), cast)
    BY <2>1, <2>3, MoreItems DEF CastKnows
  <2> HIDE DEF u, cast
  <2>5. \A v \in Widgets : CastKnows(rateItems', casts'[v])
    BY <2>1, <2>2, <2>3, <2>4, MoreItems DEF Casting, ItemsAreKnown, RateTypes
  <2>6. \A v \in Widgets : KnownIn(rateItems', widgets'[v].mine)
    BY <2>1, <2>2, <2>3, MoreItems DEF ItemsAreKnown
  <2>7. \A n \in 1 .. Len(rateLog) : IsOfCreator(rateItems', rateLog'[n])
    BY <2>1, <2>2, <2>3, MoreItems DEF ItemsAreKnown
  <2>8. ItemsAreKnown'
    BY <2>2, <2>5, <2>6, <2>7 DEF ItemsAreKnown
  <2>9. OneRatePerUser'
    <3>1. DOMAIN rateLog = 1 .. Len(rateLog)
      BY DEF RateTypes
    <3> QED
      BY <2>2, <2>7, <3>1 DEF OneRatePerUser, IsOfCreator
  <2> QED
    BY <1>0, <2>8, <2>9
<1>7. ASSUME NEW w \in Widgets, Created(w) PROVE RatingInv'
  <2> DEFINE version == <<casts[w].item, 0>>
  <2>1. /\ Keeps /\ widgets' = [widgets EXCEPT ![w] = StoreMyRate(widgets[w], version)]
        /\ Casting(w, Post(w, version, casts[w].rate))
    BY <1>7 DEF Created
  <2>2. casts[w].item \in DOMAIN rateItems
    BY <1>7 DEF Created, ItemsAreKnown, CastKnows
  <2>3. version \in VersionName /\ version[1] \in DOMAIN rateItems
    BY <2>2 DEF VersionName, RateTypes
  <2> HIDE DEF version
  <2>4. KnownIn(rateItems, StoreMyRate(widgets[w], version).mine)
    BY <2>3, ShowingKnows DEF ItemsAreKnown, RateTypes, KnownIn
  <2>5. CastKnows(rateItems, Post(w, version, casts[w].rate))
    BY <2>3 DEF CastKnows, Post
  <2>6. \A v \in Widgets : CastKnows(rateItems, casts'[v])
    BY <2>1, <2>5, CastingKnows
  <2>7. \A v \in Widgets : KnownIn(rateItems, widgets'[v].mine)
    BY <2>1, <2>4 DEF ItemsAreKnown, RateTypes
  <2> QED
    BY <1>a, <2>1, <2>6, <2>7
<1>8. ASSUME NEW w \in Widgets, ServerTakesRate(w) PROVE RatingInv'
  <2> DEFINE cast == casts[w]
             item == cast.version[1]
             rate == [item |-> item, subject |-> cast.subject, rate |-> cast.rate,
                      page |-> PageOf(w)]
  <2>1. cast \in PostingCast /\ item \in DOMAIN rateItems
    <3>1. cast.at = "post"
      BY <1>8 DEF ServerTakesRate
    <3> QED
      BY <3>1 DEF RateTypes, CastType, Waiting, Creating, Answered, PostingCast, ItemsAreKnown, CastKnows
  <2>2. \A at \in {"wait", "stored", "failed"} :
            CastKnows(rateItems, [cast EXCEPT !.at = at])
    <3> HIDE DEF cast
    <3> QED
      BY <2>1 DEF PostingCast, CastKnows
  <2>3. CASE Errors(cast) = {}
    <3>1. /\ rateLog' = Append(rateLog, rate) /\ UNCHANGED <<rateItems, widgets>>
          /\ Casting(w, [cast EXCEPT !.at = "stored"])
      BY <1>8, <2>3 DEF ServerTakesRate
    <3>2. cast.subject = rateItems[item] /\ ~ RatedElsewhere(cast.subject, item)
      BY <2>3, NoErrors DEF MayEdit
    <3>3. IsOfCreator(rateItems, rate)
      BY <2>1, <3>2 DEF IsOfCreator
    <3>4. \A v \in Widgets : CastKnows(rateItems, casts'[v])
      BY <2>2, <3>1, CastingKnows
    <3>5. rate.subject = cast.subject /\ rate.item = item
      OBVIOUS
    <3> HIDE DEF rate, item, cast
    <3>6. /\ Len(rateLog') = Len(rateLog) + 1 /\ Len(rateLog) \in Nat
          /\ DOMAIN rateLog' = 1 .. Len(rateLog) + 1 /\ DOMAIN rateLog = 1 .. Len(rateLog)
          /\ \A n \in 1 .. Len(rateLog) : rateLog'[n] = rateLog[n]
          /\ rateLog'[Len(rateLog) + 1] = rate
      BY <3>1 DEF RateTypes
    <3>7. \A n \in DOMAIN rateLog' : n \in DOMAIN rateLog \/ n = Len(rateLog) + 1
      BY <3>6
    <3>8. \A n \in DOMAIN rateLog' : IsOfCreator(rateItems, rateLog'[n])
      BY <3>3, <3>6, <3>7 DEF ItemsAreKnown
    <3>9. ItemsAreKnown'
      BY <3>1, <3>4, <3>6, <3>8 DEF ItemsAreKnown
    <3>10. \A n \in DOMAIN rateLog : rateLog[n].subject = rate.subject => rateLog[n].item = rate.item
      BY <3>2, <3>5 DEF RatedElsewhere
    <3>11. \A m, n \in DOMAIN rateLog' :
              rateLog'[m].subject = rateLog'[n].subject => rateLog'[m].item = rateLog'[n].item
      BY <3>6, <3>7, <3>10 DEF OneRatePerUser
    <3>12. OneRatePerUser'
      BY <3>1, <3>8, <3>11 DEF OneRatePerUser, IsOfCreator
    <3> QED
      BY <1>0, <3>9, <3>12
  <2>4. CASE Errors(cast) # {}
    <3>1. PICK at \in {"wait", "failed"} : Casting(w, [cast EXCEPT !.at = at])
      BY <1>8, <2>4 DEF ServerTakesRate
    <3>2. Keeps /\ UNCHANGED widgets
      BY <1>8, <2>4 DEF ServerTakesRate
    <3> QED
      BY <1>b, <2>2, <3>1, <3>2, CastingKnows
  <2> QED
    BY <2>3, <2>4
<1>9. ASSUME NEW w \in Widgets, GotNewest(w) PROVE RatingInv'
  <2> DEFINE cast == casts[w]
  <2>1. PICK newest : Casting(w, [cast EXCEPT !.at = "post", !.version = <<cast.version[1], newest>>,
                                              !.rounds = @ - 1])
    BY <1>9 DEF GotNewest
  <2>2. cast \in PostingCast /\ cast.version[1] \in DOMAIN rateItems
    <3>1. cast.at = "wait"
      BY <1>9 DEF GotNewest
    <3> QED
      BY <3>1 DEF RateTypes, CastType, Waiting, Creating, Answered, PostingCast, ItemsAreKnown, CastKnows
  <2> HIDE DEF cast
  <2>3. CastKnows(rateItems, [cast EXCEPT !.at = "post", !.version = <<cast.version[1], newest>>,
                                          !.rounds = @ - 1])
    BY <2>2 DEF PostingCast, CastKnows
  <2>4. Keeps /\ UNCHANGED widgets
    BY <1>9 DEF GotNewest
  <2> QED
    BY <1>b, <2>1, <2>3, <2>4, CastingKnows
<1>10. ASSUME NEW w \in Widgets, Succeeded(w) \/ CastFails(w) PROVE RatingInv'
  <2>1. PICK at \in {"failed", "refresh"} : Casting(w, [at |-> at])
    BY <1>10 DEF Succeeded, CastFails
  <2>2. Keeps /\ UNCHANGED widgets
    BY <1>10 DEF Succeeded, CastFails
  <2>3. CastKnows(rateItems, [at |-> at])
    BY KnowsNothing
  <2> QED
    BY <1>b, <2>1, <2>2, <2>3, CastingKnows
<1>11. ASSUME NEW w \in Widgets, Finishes(w) PROVE RatingInv'
  <2>1. /\ Keeps /\ Casting(w, NoCast) /\ widgets' = [widgets EXCEPT ![w] = Finally(widgets[w])]
    BY <1>11 DEF Finishes
  <2>2. Finally(widgets[w]).mine = widgets[w].mine
    BY DEF Finally, RateTypes, WidgetType
  <2>3. \A v \in Widgets : KnownIn(rateItems, widgets'[v].mine)
    BY <2>1, <2>2 DEF ItemsAreKnown, RateTypes
  <2>4. \A v \in Widgets : CastKnows(rateItems, casts'[v])
    BY <2>1, KnowsNothing, CastingKnows DEF NoCast
  <2> QED
    BY <1>a, <2>1, <2>3, <2>4
<1>12. ASSUME NEW w \in Widgets, FetchFails(w) PROVE RatingInv'
  <2> DEFINE at == IF widgets[w].at = "loading" THEN "broken" ELSE widgets[w].at
  <2>1. Keeps /\ UNCHANGED casts /\ widgets' = [widgets EXCEPT ![w] = [widgets[w] EXCEPT !.at = at]]
    BY <1>12 DEF FetchFails
  <2>2. [widgets[w] EXCEPT !.at = at].mine = widgets[w].mine
    BY DEF RateTypes, WidgetType
  <2> HIDE DEF at
  <2> QED
    BY <1>c, <2>1, <2>2 DEF ItemsAreKnown
<1>13. ASSUME NEW p \in DOMAIN Pages, SwitchUser(p) PROVE RatingInv'
  BY <1>13, <1>b DEF SwitchUser, ItemsAreKnown
<1> QED
  BY <1>1, <1>2, <1>3, <1>4, <1>5, <1>6, <1>7, <1>8, <1>9, <1>10, <1>11, <1>12, <1>13
     DEF RatingNext, WidgetGoesOn, CastGoesOn

\* The server never has two rates of one user, and every rate is of the user who
\* made its item: however many widgets and pages cast, answers are late and
\* requests fail, and whoever uses a page.
THEOREM EveryUserRatesOnce == RatingSpec => []OneRatePerUser
<1>1. RatingInv => OneRatePerUser
  BY DEF RatingInv
<1> QED
  BY <1>1, RatingInvInit, RatingInvStep, PTL DEF RatingSpec

--------------------------------------------------------------------------------
(* The widgets of a page agree.                                                 *)

\* Who asks asks last, and about what the cache is sure of.
LEMMA AskedInOrder ==
    ASSUME NEW requests \in Seq(RequestType), NEW asked, NEW u, NEW sure \in Nat,
           NEW before \in Nat, before <= sure, Ordered(requests, before),
           Continues(asked, requests, u, sure)
    PROVE  Ordered(asked, sure)
<1>1. /\ asked \in Seq(RequestType) /\ Len(asked) \in Nat /\ Len(requests) \in Nat
      /\ \A i \in 1 .. Len(asked) : i \in 1 .. Len(requests) \/ asked[i].from = sure
      /\ \A i \in 1 .. Len(requests) : asked[i].from = requests[i].from
  BY DEF Continues
<1>2. \A i \in 1 .. Len(requests) : requests[i].from \in Nat
  <2>1. \A i \in 1 .. Len(requests) : requests[i] \in RequestType
    OBVIOUS
  <2> QED
    BY <2>1 DEF RequestType
<1>3. \A i \in 1 .. Len(asked) : asked[i].from <= sure
  BY <1>1, <1>2 DEF Ordered
<1>4. ASSUME NEW i \in 1 .. Len(asked), NEW j \in 1 .. Len(asked), i <= j
      PROVE  asked[i].from <= asked[j].from
  <2>1. CASE j \in 1 .. Len(requests)
    <3>1. i \in 1 .. Len(requests)
      BY <1>1, <1>4, <2>1
    <3> QED
      BY <1>1, <1>4, <2>1, <3>1 DEF Ordered
  <2>2. CASE j \notin 1 .. Len(requests)
    BY <1>1, <1>3, <2>2
  <2> QED
    BY <2>1, <2>2
<1> QED
  BY <1>3, <1>4 DEF Ordered

\* The cache being surer leaves the requests in order.
LEMMA StaysInOrder ==
    ASSUME NEW requests \in Seq(RequestType), NEW before \in Nat, NEW sure \in Nat,
           before <= sure, Ordered(requests, before)
    PROVE  Ordered(requests, sure)
<1>1. \A i \in 1 .. Len(requests) : requests[i] \in RequestType
  OBVIOUS
<1>2. \A i \in 1 .. Len(requests) : requests[i].from \in Nat
  BY <1>1 DEF RequestType
<1> QED
  BY <1>2 DEF Ordered
\* An answer leaves the requests in order.
LEMMA RestInOrder ==
    ASSUME NEW requests \in Seq(RequestType), NEW sure, Ordered(requests, sure),
           NEW i \in 1 .. Len(requests)
    PROVE  Ordered(RemoveAt(requests, i), sure)
<1> DEFINE rest == RemoveAt(requests, i)
           place(j) == IF j < i THEN j ELSE j + 1
<1>1. /\ Len(rest) = Len(requests) - 1 /\ Len(requests) \in Nat
      /\ \A j \in 1 .. Len(rest) : rest[j] = requests[place(j)]
  BY RemoveAtIs
<1>2. \A j \in 1 .. Len(rest) : place(j) \in 1 .. Len(requests)
  BY <1>1
<1>3. \A j, h \in 1 .. Len(rest) : j <= h => place(j) <= place(h)
  BY <1>1
<1> HIDE DEF rest, place
<1> QED
  BY <1>1, <1>2, <1>3 DEF Ordered, rest
\* So does a request that fails.
LEMMA TailInOrder ==
    ASSUME NEW requests \in Seq(RequestType), NEW sure, Ordered(requests, sure),
           requests # <<>>
    PROVE  Ordered(Tail(requests), sure)
<1> DEFINE rest == Tail(requests)
<1>1. /\ Len(rest) = Len(requests) - 1 /\ Len(requests) \in Nat
      /\ \A j \in 1 .. Len(rest) : rest[j] = requests[j + 1] /\ j + 1 \in 1 .. Len(requests)
  OBVIOUS
<1> HIDE DEF rest
<1>2. \A j, h \in 1 .. Len(rest) : j <= h => j + 1 <= h + 1
  BY <1>1
<1> QED
  BY <1>1, <1>2 DEF Ordered, rest

\* Who asks, asks for the user of the page.
LEMMA AskedAllOf ==
    ASSUME NEW requests, NEW asked, NEW u, NEW sure, AllOf(requests, u),
           Continues(asked, requests, u, sure)
    PROVE  AllOf(asked, u)
BY DEF AllOf, Continues
\* An answer leaves the requests for the user of the page.
LEMMA RestAllOf ==
    ASSUME NEW requests \in Seq(RequestType), NEW u, AllOf(requests, u),
           NEW i \in 1 .. Len(requests)
    PROVE  AllOf(RemoveAt(requests, i), u)
<1> DEFINE rest == RemoveAt(requests, i)
           place(j) == IF j < i THEN j ELSE j + 1
<1>1. /\ Len(rest) = Len(requests) - 1 /\ Len(requests) \in Nat
      /\ \A j \in 1 .. Len(rest) : rest[j] = requests[place(j)]
  BY RemoveAtIs
<1>2. \A j \in 1 .. Len(rest) : place(j) \in 1 .. Len(requests)
  BY <1>1
<1> HIDE DEF rest, place
<1> QED
  BY <1>1, <1>2 DEF AllOf, rest

\* A widget whose cache is sure of the last rate follows when it asks.
LEMMA AskedFollows ==
    ASSUME NEW widget, NEW requests, NEW asked, NEW u, NEW sure, NEW last,
           Continues(asked, requests, u, sure), last[2] <= sure, sure \in Nat, last[2] \in Nat
    PROVE  Follows(widget, asked, last)
BY DEF Follows, Continues

\* A widget that follows still does when its first request is answered.
LEMMA AnswerFollows ==
    ASSUME NEW log \in Seq(RateType), NEW u, NEW widget \in WidgetType,
           NEW requests \in Seq(RequestType), NEW sure, Ordered(requests, sure),
           1 \in 1 .. Len(requests), NEW k \in requests[1].from .. Len(log),
           LastRate(log, u) # NoVersion, Follows(widget, requests, LastRate(log, u))
    PROVE  Follows(Shows(widget, RateIn(log, u, k)), RemoveAt(requests, 1), LastRate(log, u))
<1> DEFINE last == LastRate(log, u)
           rest == RemoveAt(requests, 1)
           version == RateIn(log, u, k)
           shows == Shows(widget, version)
<1>1. \A i \in 1 .. Len(requests) : requests[i].from \in Nat
  <2>1. \A i \in 1 .. Len(requests) : requests[i] \in RequestType
    OBVIOUS
  <2> QED
    BY <2>1 DEF RequestType
<1>2. /\ rest \in Seq(RequestType) /\ Len(rest) = Len(requests) - 1 /\ Len(requests) \in Nat
      /\ \A j \in 1 .. Len(rest) : rest[j] = requests[j + 1]
  BY RemoveAtIs
<1>3. k \in Nat /\ k <= Len(log) /\ Len(log) \in Nat /\ requests[1].from <= k
  BY <1>1
<1>4. last \in VersionName /\ last[2] \in Nat
  BY <1>3, RateInType DEF LastRate, VersionName
<1>5. shows.at = widget.at
  <2>1. StoreMyRate(widget, version).at = widget.at /\ StoreMyRate(widget, version) \in WidgetType
    <3>1. version \in VersionName
      BY <1>3, RateInType
    <3> QED
      BY <3>1, ShowsTypes DEF StoreMyRate, WidgetType
  <2>2. [StoreMyRate(widget, version) EXCEPT !.shown = version].at = widget.at
    BY <2>1 DEF WidgetType
  <2> QED
    BY <2>2 DEF Shows
<1>6. SUFFICES ASSUME widget.at \in {"loading", "ready"}
               PROVE  IF rest = <<>> THEN shows.shown = last
                      ELSE \E i \in 1 .. Len(rest) : rest[i].from >= last[2]
  BY <1>5 DEF Follows
<1>7. PICK i \in 1 .. Len(requests) : requests[i].from >= last[2]
  <2>1. requests # <<>>
    OBVIOUS
  <2> QED
    BY <1>6, <2>1 DEF Follows
<1>8. CASE rest = <<>>
  <2>1. i = 1
    BY <1>2, <1>7, <1>8
  <2>2. last[2] <= k
    BY <1>1, <1>3, <1>4, <1>7, <2>1
  <2>3. version = last
    BY <1>3, <2>2, RateInOfMore DEF LastRate
  <2>4. shows.shown = version
    <3>1. StoreMyRate(widget, version) \in WidgetType
      BY <1>4, <2>3, ShowsTypes
    <3>2. [StoreMyRate(widget, version) EXCEPT !.shown = version].shown = version
      BY <3>1 DEF WidgetType
    <3> QED
      BY <2>3, <3>2 DEF Shows
  <2> QED
    BY <1>8, <2>3, <2>4
<1>9. CASE rest # <<>>
  <2>1. Len(rest) > 0 /\ 1 \in 1 .. Len(rest)
    BY <1>2, <1>9
  <2>2. CASE i = 1
    <3>1. requests[2].from >= requests[1].from /\ 2 \in 1 .. Len(requests)
      BY <1>2, <2>1 DEF Ordered
    <3>2. rest[1].from >= last[2]
      BY <1>1, <1>2, <1>4, <1>7, <2>1, <2>2, <3>1
    <3> QED
      BY <1>9, <2>1, <3>2
  <2>3. CASE i # 1
    <3>1. i - 1 \in 1 .. Len(rest) /\ (i - 1) + 1 = i
      BY <1>2, <2>3
    <3>2. rest[i - 1].from >= last[2]
      BY <1>2, <1>7, <3>1
    <3> QED
      BY <1>9, <3>1, <3>2
  <2> QED
    BY <2>2, <2>3
<1> QED
  BY <1>8, <1>9

\* The last rate of a user is in the log.
LEMMA LastRateType ==
    ASSUME RateTypes, NEW u
    PROVE  /\ LastRate(rateLog, u) \in VersionName /\ LastRate(rateLog, u)[2] \in 0 .. Len(rateLog)
           /\ RateOf(u, Len(rateLog)) = LastRate(rateLog, u)
<1>1. rateLog \in Seq(RateType) /\ Len(rateLog) \in Nat
  BY DEF RateTypes
<1>2. LastRate(rateLog, u) \in VersionName
      /\ (LastRate(rateLog, u) # NoVersion => LastRate(rateLog, u)[2] \in 1 .. Len(rateLog))
  BY <1>1, RateInType DEF LastRate
<1>3. LastRate(rateLog, u) = NoVersion => LastRate(rateLog, u)[2] = 0
  BY DEF NoVersion
<1>4. RateOf(u, Len(rateLog)) = LastRate(rateLog, u)
  BY DEF RateOf, RateIn, LastRate
<1> QED
  BY <1>1, <1>2, <1>3, <1>4

\* The invariant of the widgets holds in the beginning.
LEMMA AgreeInvInit == RatingInit => AgreeInv
<1> SUFFICES ASSUME RatingInit PROVE AgreeInv
  OBVIOUS
<1>1. RatingInv /\ RateTypes
  BY RatingInvInit DEF RatingInv
<1>2. \A w \in Widgets : fetches[w] = <<>>
  BY DEF RatingInit
<1>3. RequestsInOrder /\ NobodySwitched
  BY <1>2 DEF RequestsInOrder, Ordered, NobodySwitched, AllOf
<1>4. CachesAreReal /\ CastsAreLocked
  BY <1>1 DEF CachesAreReal, CastsAreLocked, RatingInit, RateTypes, NoCast
<1>5. ASSUME NEW p \in DOMAIN Pages PROVE AllFollow(p, LastRate(rateLog, user[p]))
  <2> DEFINE last == LastRate(rateLog, user[p])
  <2>1. last[2] <= known[p]
    BY <1>1, LastRateType DEF RatingInit, RateTypes
  <2>2. ASSUME NEW w \in Range(Pages[p]) PROVE Follows(widgets[w], fetches[w], last)
    <3>1. w \in Widgets /\ PageOf(w) = p
      BY WidgetOfPage
    <3>2. Absent.at = "absent" /\ Loaded(w).shown = last
      BY <1>1, <3>1, LastRateType DEF Absent, Loaded, UserOf
    <3>3. widgets[w] = Absent \/ widgets[w] = Loaded(w)
      BY <3>1 DEF RatingInit
    <3> HIDE DEF last
    <3> QED
      BY <1>2, <3>1, <3>2, <3>3 DEF Follows
  <2> QED
    BY <2>1, <2>2 DEF AllFollow
<1>6. PagesFollow
  BY <1>5 DEF PagesFollow, PageFollows
<1> QED
  BY <1>1, <1>3, <1>4, <1>6 DEF AgreeInv

\* Every step keeps the lock of a widget that casts.
LEMMA LockStep ==
    ASSUME AgreeInv, [RatingNext]_ratingVars
    PROVE  CastsAreLocked'
<1> USE DEF AgreeInv, RatingInv
<1>0. \A w \in Widgets : widgets[w] \in WidgetType
  BY DEF RateTypes
<1>a. ASSUME \A v \in Widgets : widgets'[v].lock = widgets[v].lock,
             \A v \in Widgets : casts'[v].at # "none" => casts[v].at # "none"
      PROVE  CastsAreLocked'
  BY <1>a DEF CastsAreLocked
<1>b. ASSUME NEW w \in Widgets, NEW widget \in WidgetType,
             widgets' = [widgets EXCEPT ![w] = widget], widget.lock = widgets[w].lock
      PROVE  \A v \in Widgets : widgets'[v].lock = widgets[v].lock
  BY <1>b DEF RateTypes
<1>c. ASSUME NEW w \in Widgets, NEW cast, Casting(w, cast), casts[w].at # "none"
      PROVE  \A v \in Widgets : casts'[v].at # "none" => casts[v].at # "none"
  BY <1>c DEF Casting, RateTypes
<1>d. \A w \in Widgets, version \in VersionName :
          /\ StoreMyRate(widgets[w], version).lock = widgets[w].lock
          /\ Shows(widgets[w], version).lock = widgets[w].lock
          /\ StoreMyRate(widgets[w], version) \in WidgetType
          /\ Shows(widgets[w], version) \in WidgetType
  <2> SUFFICES ASSUME NEW w \in Widgets, NEW version \in VersionName
               PROVE  /\ StoreMyRate(widgets[w], version).lock = widgets[w].lock
                      /\ Shows(widgets[w], version).lock = widgets[w].lock
                      /\ StoreMyRate(widgets[w], version) \in WidgetType
                      /\ Shows(widgets[w], version) \in WidgetType
    OBVIOUS
  <2> DEFINE stored == StoreMyRate(widgets[w], version)
  <2>1. stored \in WidgetType /\ Shows(widgets[w], version) \in WidgetType
    BY <1>0, ShowsTypes
  <2>2. stored.lock = widgets[w].lock
    BY <1>0 DEF StoreMyRate, WidgetType
  <2>3. [stored EXCEPT !.shown = version].lock = stored.lock
    BY <2>1 DEF WidgetType
  <2> QED
    BY <2>1, <2>2, <2>3 DEF Shows
<1>1. CASE UNCHANGED ratingVars
  BY <1>1, <1>a DEF ratingVars
<1>2. ASSUME NEW w \in Widgets, Mount(w) \/ GotPool(w) \/ Ready(w) \/ FetchFails(w)
      PROVE  CastsAreLocked'
  <2>1. PICK at \in {"absent", "mounting", "loading", "ready", "broken"} :
            widgets' = [widgets EXCEPT ![w].at = at] /\ UNCHANGED casts
    BY <1>0, <1>2 DEF Mount, GotPool, Ready, FetchFails, WidgetType
  <2>2. [widgets[w] EXCEPT !.at = at].lock = widgets[w].lock
        /\ [widgets[w] EXCEPT !.at = at] \in WidgetType
    BY <1>0 DEF WidgetType
  <2> QED
    BY <1>a, <1>b, <2>1, <2>2
<1>3. ASSUME NEW w \in Widgets, Cast(w) PROVE CastsAreLocked'
  <2>1. PICK cast : Casting(w, cast) /\ widgets' = [widgets EXCEPT ![w].lock = TRUE]
    BY <1>3 DEF Cast
  <2>2. [widgets[w] EXCEPT !.lock = TRUE].lock = TRUE
    BY <1>0 DEF WidgetType
  <2> QED
    BY <2>1, <2>2 DEF CastsAreLocked, Casting, RateTypes
<1>4. ASSUME NEW w \in Widgets, GotRates(w) PROVE CastsAreLocked'
  <2>1. UNCHANGED casts
    BY <1>4 DEF GotRates
  <2>2. PICK i \in DOMAIN fetches[w] : \E k \in Answers(fetches[w][i]) :
            widgets' = [widgets EXCEPT ![w] = Shows(@, RateOf(fetches[w][i].subject, k))]
    BY <1>4 DEF GotRates
  <2>3. PICK k \in Answers(fetches[w][i]) :
            widgets' = [widgets EXCEPT ![w] = Shows(widgets[w], RateOf(fetches[w][i].subject, k))]
    BY <2>2
  <2>4. k \in 0 .. Len(rateLog)
    <3>1. fetches[w][i] \in RequestType
      BY <2>2 DEF RateTypes
    <3> QED
      BY <2>3, <3>1 DEF RequestType, Answers, RateTypes
  <2> QED
    BY <1>a, <1>b, <1>d, <2>1, <2>3, <2>4, RateOfIs
<1>5. ASSUME NEW w \in Widgets, Created(w) PROVE CastsAreLocked'
  <2> DEFINE version == <<casts[w].item, 0>>
  <2>1. /\ widgets' = [widgets EXCEPT ![w] = StoreMyRate(widgets[w], version)]
        /\ Casting(w, Post(w, version, casts[w].rate)) /\ casts[w].at = "created"
    BY <1>5 DEF Created
  <2>2. version \in VersionName
    BY <2>1 DEF VersionName, RateTypes, ItemsAreKnown, CastKnows
  <2> HIDE DEF version
  <2> QED
    BY <1>a, <1>b, <1>c, <1>d, <2>1, <2>2
<1>6. ASSUME NEW w \in Widgets, ServerCreates(w) \/ ServerTakesRate(w) \/ GotNewest(w)
                                \/ Succeeded(w) \/ CastFails(w)
      PROVE  CastsAreLocked'
  <2>1. UNCHANGED widgets /\ casts[w].at # "none" /\ \E cast : Casting(w, cast)
    BY <1>6 DEF ServerCreates, ServerTakesRate, GotNewest, Succeeded, CastFails
  <2> QED
    BY <1>a, <1>c, <2>1
<1>7. ASSUME NEW w \in Widgets, Finishes(w) PROVE CastsAreLocked'
  <2>1. Casting(w, NoCast) /\ widgets' = [widgets EXCEPT ![w] = Finally(widgets[w])]
    BY <1>7 DEF Finishes
  <2>2. \A v \in Widgets : v # w => widgets'[v] = widgets[v] /\ casts'[v] = casts[v]
    BY <2>1 DEF Casting, RateTypes
  <2>3. casts'[w].at = "none"
    BY <2>1 DEF Casting, RateTypes, NoCast
  <2> QED
    BY <2>2, <2>3 DEF CastsAreLocked
<1>8. ASSUME NEW w \in Widgets, Told(w) PROVE CastsAreLocked'
  BY <1>8, <1>a DEF Told
<1>9. ASSUME NEW p \in DOMAIN Pages, SwitchUser(p) PROVE CastsAreLocked'
  BY <1>9, <1>a DEF SwitchUser
<1> QED
  BY <1>1, <1>2, <1>3, <1>4, <1>5, <1>6, <1>7, <1>8, <1>9
     DEF RatingNext, WidgetGoesOn, CastGoesOn

\* Every step keeps the requests in order, and for the user.
LEMMA OrderStep ==
    ASSUME AgreeInv, RateTypes', [RatingNext]_ratingVars
    PROVE  RequestsInOrder' /\ CachesAreReal' /\ NobodySwitched'
<1> USE DEF AgreeInv, RatingInv
<1> DEFINE Goal == RequestsInOrder' /\ CachesAreReal' /\ NobodySwitched'
<1>0. \A w \in Widgets : /\ fetches[w] \in Seq(RequestType) /\ UserOf(w) \in Persons
                         /\ known[PageOf(w)] \in Nat /\ PageOf(w) \in DOMAIN Pages
  BY UserOfType, PageOfWidget DEF RateTypes
\* Steps that ask for nothing.
<1>a. ASSUME UNCHANGED <<rateLog, user, known, fetches, mishap>> PROVE Goal
  BY <1>a DEF RequestsInOrder, CachesAreReal, NobodySwitched, UserOf
\* Steps after which one widget has asked.
<1>b. ASSUME UNCHANGED <<rateLog, user, known, mishap>>, NEW w \in Widgets,
             NEW inCast \in BOOLEAN, Fetching(w, inCast)
      PROVE  Goal
  <2> DEFINE sure == known[PageOf(w)]
             asked == Asked(fetches[w], w, sure, inCast)
  <2>1. Continues(asked, fetches[w], UserOf(w), sure)
    BY <1>0, AskedIs
  <2>2. fetches' = [fetches EXCEPT ![w] = asked]
    BY <1>b DEF Fetching
  <2> HIDE DEF asked
  <2>3. Ordered(asked, sure)
    BY <1>0, <2>1, AskedInOrder DEF RequestsInOrder
  <2>4. RequestsInOrder'
    BY <1>b, <2>2, <2>3 DEF RequestsInOrder, RateTypes
  <2>5. mishap \/ AllOf(asked, UserOf(w))
    BY <2>1, AskedAllOf DEF NobodySwitched
  <2>6. NobodySwitched'
    BY <1>b, <2>2, <2>5 DEF NobodySwitched, RateTypes, UserOf
  <2> QED
    BY <1>b, <2>4, <2>6 DEF CachesAreReal
<1>1. CASE UNCHANGED ratingVars
  BY <1>1, <1>a DEF ratingVars
<1>2. ASSUME NEW w \in Widgets, Mount(w) \/ Cast(w) \/ Ready(w) \/ ServerCreates(w)
                                \/ Created(w) \/ GotNewest(w) \/ Finishes(w)
      PROVE  Goal
  BY <1>2, <1>a DEF Mount, Cast, Ready, ServerCreates, Created, GotNewest, Finishes
<1>3. ASSUME NEW w \in Widgets, GotPool(w) \/ Told(w) PROVE Goal
  BY <1>3, <1>b DEF GotPool, Told
<1>4. ASSUME NEW w \in Widgets, GotRates(w) PROVE Goal
  <2> DEFINE p == PageOf(w)
             requests == fetches[w]
  <2>1. PICK i \in DOMAIN requests :
            /\ InTurn(i)
            /\ \E k \in Answers(requests[i]) : known' = [known EXCEPT ![p] = Max({@, k})]
            /\ fetches' = [fetches EXCEPT ![w] = RemoveAt(@, i)]
            /\ UNCHANGED <<rateLog, user>>
    BY <1>4 DEF GotRates
  <2>2. requests \in Seq(RequestType) /\ i \in 1 .. Len(requests) /\ p \in DOMAIN Pages
    BY <1>0, <2>1
  <2>3. PICK k \in Answers(requests[i]) : known' = [known EXCEPT ![p] = Max({known[p], k})]
    BY <2>1
  <2>4. k \in Nat /\ k <= Len(rateLog)
    <3>1. requests[i] \in RequestType
      BY <2>2
    <3> QED
      BY <2>3, <3>1 DEF RequestType, Answers, RateTypes
  <2>5. /\ known[p] <= Max({known[p], k}) /\ Max({known[p], k}) <= Len(rateLog)
        /\ Max({known[p], k}) \in Nat /\ known[p] \in Nat
    BY <1>0, <2>2, <2>4, MaxOfTwo DEF CachesAreReal
  <2>6. known'[p] = Max({known[p], k}) /\ \A q \in DOMAIN Pages : q # p => known'[q] = known[q]
    BY <2>2, <2>3 DEF RateTypes
  <2>7. CachesAreReal'
    BY <2>1, <2>5, <2>6 DEF CachesAreReal
  <2>8. ASSUME NEW v \in Widgets PROVE Ordered(fetches'[v], known'[PageOf(v)])
    <3> DEFINE sure == known[PageOf(v)]
    <3>1. sure \in Nat /\ known'[PageOf(v)] \in Nat /\ sure <= known'[PageOf(v)]
      BY <1>0, <2>5, <2>6
    <3>2. Ordered(fetches[v], sure)
      BY DEF RequestsInOrder
    <3>3. Ordered(fetches'[v], sure) /\ fetches'[v] \in Seq(RequestType)
      <4>1. CASE v = w
        <5>1. fetches'[v] = RemoveAt(requests, i)
          BY <2>1, <4>1 DEF RateTypes
        <5> QED
          BY <2>2, <3>2, <4>1, <5>1, RestInOrder, RemoveAtIs
      <4>2. CASE v # w
        BY <1>0, <2>1, <3>2, <4>2 DEF RateTypes
      <4> QED
        BY <4>1, <4>2
    <3> QED
      BY <3>1, <3>3, StaysInOrder
  <2>9. NobodySwitched'
    <3>1. mishap => mishap'
      BY <2>1 DEF InTurn, Mishap
    <3>2. AllOf(requests, UserOf(w)) => AllOf(RemoveAt(requests, i), UserOf(w))
      BY <2>2, RestAllOf
    <3> HIDE DEF requests
    <3>3. fetches' = [fetches EXCEPT ![w] = RemoveAt(requests, i)] /\ requests = fetches[w]
      BY <2>1 DEF requests
    <3>4. CASE mishap'
      BY <3>4 DEF NobodySwitched
    <3>5. CASE ~ mishap
      BY <2>1, <3>2, <3>3, <3>5 DEF NobodySwitched, RateTypes, UserOf
    <3> QED
      BY <3>1, <3>4, <3>5
  <2> QED
    BY <2>7, <2>8, <2>9 DEF RequestsInOrder
<1>5. ASSUME NEW w \in Widgets, ServerTakesRate(w) PROVE Goal
  <2>1. UNCHANGED <<user, known, fetches, mishap>>
    BY <1>5 DEF ServerTakesRate
  <2>2. PICK rate : rateLog' \in {rateLog, Append(rateLog, rate)}
    BY <1>5 DEF ServerTakesRate
  <2>3. Len(rateLog) <= Len(rateLog') /\ Len(rateLog) \in Nat /\ Len(rateLog') \in Nat
    BY <2>2 DEF RateTypes
  <2>4. CachesAreReal'
    BY <2>1, <2>3 DEF CachesAreReal, RateTypes
  <2> QED
    BY <2>1, <2>4 DEF RequestsInOrder, NobodySwitched, UserOf
<1>6. ASSUME NEW w \in Widgets, Succeeded(w) PROVE Goal
  <2> DEFINE p == PageOf(w)
             sure == Len(rateLog)
  <2>1. /\ known' = [known EXCEPT ![p] = sure] /\ UNCHANGED <<rateLog, user>>
        /\ mishap => mishap'
    BY <1>6 DEF Succeeded, RateTypes
  <2>2. PICK thrown \in BOOLEAN : fetches' = Trigger(p, w, thrown)
    BY <1>6 DEF Succeeded
  <2>3. sure \in Nat /\ p \in DOMAIN Pages /\ known[p] <= sure
    BY <1>0 DEF RateTypes, CachesAreReal
  <2>4. known'[p] = sure /\ \A q \in DOMAIN Pages : q # p => known'[q] = known[q]
    BY <2>1, <2>3 DEF RateTypes
  <2>5. CachesAreReal'
    BY <2>1, <2>3, <2>4 DEF CachesAreReal
  <2>6. ASSUME NEW v \in Widgets
        PROVE  /\ Ordered(fetches'[v], known'[PageOf(v)])
               /\ AllOf(fetches[v], UserOf(v)) => AllOf(fetches'[v], UserOf(v))
    <3>1. Ordered(fetches[v], known[PageOf(v)])
      BY DEF RequestsInOrder
    <3>2. CASE v \in Called(p)
      <4> DEFINE asked == Asked(fetches[v], v, sure, v = w /\ ~ thrown)
      <4>1. fetches'[v] = asked
        BY <2>2, <3>2 DEF Trigger
      <4>2. Continues(asked, fetches[v], UserOf(v), sure)
        BY <1>0, <2>3, AskedIs
      <4>3. PageOf(v) = p
        <5>1. v \in Range(Pages[p])
          BY <2>3, <3>2 DEF Called, Mounted, Range
        <5> QED
          BY <2>3, <5>1, WidgetOfPage
      <4> HIDE DEF asked
      <4>4. Ordered(asked, sure)
        BY <1>0, <2>3, <3>1, <4>2, <4>3, AskedInOrder
      <4> QED
        BY <2>4, <4>1, <4>2, <4>3, <4>4, AskedAllOf
    <3>3. CASE v \notin Called(p)
      <4>1. fetches'[v] = fetches[v]
        BY <2>2, <3>3 DEF Trigger
      <4>2. known[PageOf(v)] <= known'[PageOf(v)] /\ known'[PageOf(v)] \in Nat
        BY <1>0, <2>3, <2>4
      <4> QED
        BY <1>0, <3>1, <4>1, <4>2, StaysInOrder
    <3> QED
      BY <3>2, <3>3
  <2> QED
    BY <2>1, <2>5, <2>6 DEF RequestsInOrder, NobodySwitched, UserOf
<1>7. ASSUME NEW w \in Widgets, CastFails(w) PROVE Goal
  <2>1. mishap' /\ UNCHANGED <<rateLog, known, fetches>>
    BY <1>7 DEF CastFails, Mishap
  <2> QED
    BY <2>1 DEF RequestsInOrder, CachesAreReal, NobodySwitched
<1>8. ASSUME NEW w \in Widgets, FetchFails(w) PROVE Goal
  <2>1. /\ mishap' /\ UNCHANGED <<rateLog, known>> /\ fetches[w] # <<>>
        /\ fetches' = [fetches EXCEPT ![w] = Tail(@)]
    BY <1>8 DEF FetchFails, Mishap
  <2>2. Ordered(Tail(fetches[w]), known[PageOf(w)])
    BY <1>0, <2>1, TailInOrder DEF RequestsInOrder
  <2>3. RequestsInOrder'
    BY <2>1, <2>2 DEF RequestsInOrder, RateTypes
  <2> QED
    BY <2>1, <2>3 DEF CachesAreReal, NobodySwitched
<1>9. ASSUME NEW p \in DOMAIN Pages, SwitchUser(p) PROVE Goal
  <2>1. mishap' /\ UNCHANGED <<rateLog, known, fetches>>
    BY <1>9 DEF SwitchUser, Mishap
  <2> QED
    BY <2>1 DEF RequestsInOrder, CachesAreReal, NobodySwitched
<1> QED
  BY <1>1, <1>2, <1>3, <1>4, <1>5, <1>6, <1>7, <1>8, <1>9
     DEF RatingNext, WidgetGoesOn, CastGoesOn

\* Every step keeps the pages following.
LEMMA FollowStep ==
    ASSUME AgreeInv, RatingInv', [RatingNext]_ratingVars
    PROVE  PagesFollow'
<1> USE DEF AgreeInv, RatingInv
<1>0. \A w \in Widgets : /\ fetches[w] \in Seq(RequestType) /\ UserOf(w) \in Persons
                         /\ known[PageOf(w)] \in Nat /\ PageOf(w) \in DOMAIN Pages
                         /\ w \in Range(Pages[PageOf(w)]) /\ widgets[w] \in WidgetType
  BY UserOfType, PageOfWidget DEF RateTypes
<1>1. CASE mishap'
  BY <1>1 DEF PagesFollow
<1>2. SUFFICES ASSUME ~ mishap', ~ mishap PROVE PagesFollow'
  <2>1. mishap => mishap'
    BY DEF ratingVars, RatingNext, WidgetGoesOn, CastGoesOn, Mount, Cast, GotPool, Ready,
           GotRates, InTurn, Mishap, Told, ServerCreates, Created, ServerTakesRate, GotNewest,
           Succeeded, Finishes, CastFails, FetchFails, SwitchUser
  <2> QED
    BY <1>1, <2>1
<1> DEFINE last(p) == LastRate(rateLog, user[p])
<1>3. \A p \in DOMAIN Pages : PageFollows(p, last(p))
  BY <1>2 DEF PagesFollow
<1>4. \A p \in DOMAIN Pages : last(p)[2] \in Nat
  BY LastRateType DEF RateTypes
\* Steps that leave the log as it was: the casts that are about to tell their
\* page still are, and every widget of the others goes on following.
<1>a. ASSUME UNCHANGED <<rateLog, user>>,
             \A w \in Widgets : casts[w].at = "stored" => casts'[w].at = "stored",
             \A p \in DOMAIN Pages : known[p] <= known'[p],
             \A w \in Widgets :
                 /\ last(PageOf(w)) # NoVersion
                 /\ last(PageOf(w))[2] <= known[PageOf(w)]
                 /\ Follows(widgets[w], fetches[w], last(PageOf(w)))
                 => Follows(widgets'[w], fetches'[w], last(PageOf(w)))
      PROVE  PagesFollow'
  <2>1. SUFFICES ASSUME NEW p \in DOMAIN Pages, MadeOn(rateLog, last(p), p), ~ Telling(p)'
                 PROVE  AllFollow(p, last(p))'
    BY <1>a DEF PagesFollow, PageFollows
  <2>2. ~ Telling(p)
    BY <1>a, <2>1, WidgetOfPage DEF Telling
  <2>3. AllFollow(p, last(p)) /\ last(p) # NoVersion
    BY <1>3, <2>1, <2>2 DEF PageFollows, MadeOn
  <2>4. last(p)[2] <= known'[p]
    <3>1. known[p] \in Nat /\ known'[p] \in Nat /\ last(p)[2] <= known[p] /\ known[p] <= known'[p]
      BY <1>a, <2>3 DEF RateTypes, AllFollow
    <3> HIDE DEF last
    <3> QED
      BY <1>4, <3>1
  <2>5. ASSUME NEW w \in Range(Pages[p]) PROVE Follows(widgets'[w], fetches'[w], last(p))
    <3>1. w \in Widgets /\ PageOf(w) = p
      BY WidgetOfPage
    <3> QED
      BY <1>a, <2>3, <3>1 DEF AllFollow
  <2>6. last(p)' = last(p)
    BY <1>a
  <2> HIDE DEF last
  <2> QED
    BY <2>4, <2>5, <2>6 DEF AllFollow
\* Steps that ask for nothing and show nothing new.
<1>b. ASSUME UNCHANGED <<rateLog, user, known, fetches>>,
             \A w \in Widgets : casts[w].at = "stored" => casts'[w].at = "stored",
             \A w \in Widgets :
                 widgets'[w].at \in {"loading", "ready"} =>
                     /\ widgets[w].at \in {"loading", "ready"}
                     /\ widgets'[w].shown = widgets[w].shown
      PROVE  PagesFollow'
  <2>1. \A p \in DOMAIN Pages : known[p] <= known'[p]
    BY <1>b DEF RateTypes
  <2>2. ASSUME NEW w \in Widgets, Follows(widgets[w], fetches[w], last(PageOf(w)))
        PROVE  Follows(widgets'[w], fetches'[w], last(PageOf(w)))
    <3> HIDE DEF last
    <3> QED
      BY <1>b, <2>2 DEF Follows
  <2> QED
    BY <1>a, <1>b, <2>1, <2>2
\* Steps after which one widget has asked.
<1>c. ASSUME UNCHANGED <<rateLog, user, known, casts>>, NEW w \in Widgets,
             NEW inCast \in BOOLEAN, Fetching(w, inCast),
             \A v \in Widgets : v # w => widgets'[v] = widgets[v]
      PROVE  PagesFollow'
  <2> DEFINE sure == known[PageOf(w)]
             asked == Asked(fetches[w], w, sure, inCast)
  <2>1. Continues(asked, fetches[w], UserOf(w), sure)
    BY <1>0, AskedIs
  <2>2. fetches'[w] = asked /\ \A v \in Widgets : v # w => fetches'[v] = fetches[v]
    BY <1>c DEF Fetching, RateTypes
  <2> HIDE DEF asked
  <2>3. last(PageOf(w))[2] <= sure => Follows(widgets'[w], asked, last(PageOf(w)))
    <3> HIDE DEF last
    <3> QED
      BY <1>0, <1>4, <2>1, AskedFollows
  <2>4. \A p \in DOMAIN Pages : known[p] <= known'[p]
    BY <1>c DEF RateTypes
  <2> HIDE DEF last
  <2>5. ASSUME NEW v \in Widgets, last(PageOf(v))[2] <= known[PageOf(v)],
               Follows(widgets[v], fetches[v], last(PageOf(v)))
        PROVE  Follows(widgets'[v], fetches'[v], last(PageOf(v)))
    BY <1>c, <2>2, <2>3, <2>5
  <2> QED
    BY <1>a, <1>c, <2>4, <2>5 DEF last
\* A cast that goes on is not one that is about to tell.
<1>d. ASSUME NEW w \in Widgets, NEW cast, Casting(w, cast), casts[w].at # "stored"
      PROVE  \A v \in Widgets : casts[v].at = "stored" => casts'[v].at = "stored"
  BY <1>d DEF Casting, RateTypes
<1>5. CASE UNCHANGED ratingVars
  BY <1>5, <1>b DEF ratingVars
<1>6. ASSUME NEW w \in Widgets, Mount(w) \/ Ready(w) PROVE PagesFollow'
  <2>1. PICK at \in {"mounting", "ready"} :
            /\ widgets' = [widgets EXCEPT ![w].at = at]
            /\ at = "ready" => widgets[w].at = "loading"
            /\ UNCHANGED <<rateLog, user, known, casts, fetches>>
    BY <1>6 DEF Mount, Ready
  <2>2. [widgets[w] EXCEPT !.at = at].at = at /\ [widgets[w] EXCEPT !.at = at].shown = widgets[w].shown
    BY <1>0 DEF WidgetType
  <2>3. \A v \in Widgets : widgets'[v] = IF v = w THEN [widgets[w] EXCEPT !.at = at] ELSE widgets[v]
    BY <2>1 DEF RateTypes
  <2> QED
    BY <1>b, <2>1, <2>2, <2>3
<1>7. ASSUME NEW w \in Widgets, Cast(w) PROVE PagesFollow'
  <2>1. PICK cast : Casting(w, cast)
    BY <1>7 DEF Cast
  <2>2. casts[w].at # "stored"
    BY <1>7 DEF Cast, CastsAreLocked
  <2>3. /\ [widgets[w] EXCEPT !.lock = TRUE].at = widgets[w].at
        /\ [widgets[w] EXCEPT !.lock = TRUE].shown = widgets[w].shown
    BY <1>0 DEF WidgetType
  <2>4. \A v \in Widgets : widgets'[v] = IF v = w THEN [widgets[w] EXCEPT !.lock = TRUE] ELSE widgets[v]
    BY <1>7 DEF Cast, RateTypes
  <2>5. UNCHANGED <<rateLog, user, known, fetches>>
    BY <1>7 DEF Cast
  <2> QED
    BY <1>b, <1>d, <2>1, <2>2, <2>3, <2>4, <2>5
<1>8. ASSUME NEW w \in Widgets, GotPool(w) \/ Told(w) PROVE PagesFollow'
  BY <1>8, <1>c DEF GotPool, Told, RateTypes
<1>9. ASSUME NEW w \in Widgets, GotRates(w) PROVE PagesFollow'
  <2> DEFINE p == PageOf(w)
             requests == fetches[w]
             u == user[p]
  <2>1. PICK i \in DOMAIN requests :
            /\ InTurn(i)
            /\ \E k \in Answers(requests[i]) :
                /\ known' = [known EXCEPT ![p] = Max({@, k})]
                /\ widgets' = [widgets EXCEPT ![w] = Shows(@, RateOf(requests[i].subject, k))]
            /\ fetches' = [fetches EXCEPT ![w] = RemoveAt(@, i)]
            /\ UNCHANGED <<rateLog, user, casts>>
    BY <1>9 DEF GotRates
  <2>2. PICK k \in Answers(requests[i]) :
            /\ known' = [known EXCEPT ![p] = Max({known[p], k})]
            /\ widgets' = [widgets EXCEPT ![w] = Shows(widgets[w], RateOf(requests[i].subject, k))]
    BY <2>1
  <2>3. i = 1 /\ 1 \in 1 .. Len(requests) /\ requests \in Seq(RequestType)
    BY <1>0, <1>2, <2>1 DEF InTurn, Mishap
  <2>4. requests[1].subject = u
    BY <1>2, <2>3 DEF NobodySwitched, AllOf, UserOf
  <2>5. k \in requests[1].from .. Len(rateLog) /\ k \in 0 .. Len(rateLog)
    <3>1. requests[1] \in RequestType
      BY <2>3
    <3> QED
      BY <2>2, <2>3, <3>1 DEF RequestType, Answers, RateTypes
  <2>6. RateOf(requests[i].subject, k) = RateIn(rateLog, u, k)
    BY <2>3, <2>4, <2>5, RateOfIs
  <2>7. widgets'[w] = Shows(widgets[w], RateIn(rateLog, u, k)) /\ fetches'[w] = RemoveAt(requests, 1)
    BY <2>1, <2>2, <2>3, <2>6 DEF RateTypes
  <2>8. \A v \in Widgets : v # w => widgets'[v] = widgets[v] /\ fetches'[v] = fetches[v]
    BY <2>1, <2>2 DEF RateTypes
  <2>9. \A q \in DOMAIN Pages : known[q] <= known'[q]
    <3>1. known[p] <= Max({known[p], k}) /\ p \in DOMAIN Pages
      BY <1>0, <2>5, MaxOfTwo
    <3> QED
      BY <2>2, <3>1 DEF RateTypes
  <2>10. Ordered(requests, known[p])
    BY DEF RequestsInOrder
  <2>11. rateLog \in Seq(RateType) /\ widgets[w] \in WidgetType
    BY <1>0 DEF RateTypes
  <2> HIDE DEF requests
  <2>12. last(p) # NoVersion /\ Follows(widgets[w], requests, last(p))
             => Follows(widgets'[w], fetches'[w], last(p))
    BY <2>3, <2>5, <2>7, <2>10, <2>11, AnswerFollows
  <2>13. ASSUME NEW v \in Widgets, last(PageOf(v)) # NoVersion,
                Follows(widgets[v], fetches[v], last(PageOf(v)))
         PROVE  Follows(widgets'[v], fetches'[v], last(PageOf(v)))
    BY <2>8, <2>12, <2>13 DEF requests
  <2> QED
    BY <1>a, <2>1, <2>9, <2>13
<1>10. ASSUME NEW w \in Widgets, Told(w) PROVE PagesFollow'
  BY <1>8, <1>10
<1>11. ASSUME NEW w \in Widgets, ServerCreates(w) \/ GotNewest(w) PROVE PagesFollow'
  <2>1. PICK cast : Casting(w, cast) /\ casts[w].at # "stored"
    BY <1>11 DEF ServerCreates, GotNewest
  <2>2. UNCHANGED <<rateLog, user, known, fetches, widgets>>
    BY <1>11 DEF ServerCreates, GotNewest
  <2> QED
    BY <1>b, <1>d, <2>1, <2>2
<1>12. ASSUME NEW w \in Widgets, Created(w) \/ Finishes(w) PROVE PagesFollow'
  <2>1. PICK cast : Casting(w, cast) /\ casts[w].at # "stored"
    BY <1>12 DEF Created, Finishes
  <2>2. UNCHANGED <<rateLog, user, known, fetches>>
    BY <1>12 DEF Created, Finishes
  <2>3. PICK version : widgets' = [widgets EXCEPT ![w] = StoreMyRate(@, version)]
                       \/ widgets' = [widgets EXCEPT ![w] = Finally(@)]
    BY <1>12 DEF Created, Finishes
  <2>4. PICK widget :
            /\ widgets' = [widgets EXCEPT ![w] = widget]
            /\ widget.at = widgets[w].at /\ widget.shown = widgets[w].shown
    <3>1. /\ StoreMyRate(widgets[w], version).at = widgets[w].at
          /\ StoreMyRate(widgets[w], version).shown = widgets[w].shown
      BY <1>0 DEF StoreMyRate, WidgetType
    <3>2. /\ Finally(widgets[w]).at = widgets[w].at
          /\ Finally(widgets[w]).shown = widgets[w].shown
      BY <1>0 DEF Finally, WidgetType
    <3> QED
      BY <2>3, <3>1, <3>2
  <2>5. \A v \in Widgets : widgets'[v].at = widgets[v].at /\ widgets'[v].shown = widgets[v].shown
    BY <2>4 DEF RateTypes
  <2> QED
    BY <1>b, <1>d, <2>1, <2>2, <2>5
\* A new rate: the page that made it is about to tell its widgets of it.
<1>13. ASSUME NEW w \in Widgets, ServerTakesRate(w) PROVE PagesFollow'
  <2>1. UNCHANGED <<user, known, widgets, fetches>> /\ casts[w].at = "post"
    BY <1>13 DEF ServerTakesRate
  <2>2. PICK cast : Casting(w, cast)
    BY <1>13 DEF ServerTakesRate
  <2>3. CASE Errors(casts[w]) = {}
    <3> DEFINE rate == [item |-> casts[w].version[1], subject |-> casts[w].subject,
                        rate |-> casts[w].rate, page |-> PageOf(w)]
    <3>1. rateLog' = Append(rateLog, rate) /\ Casting(w, [casts[w] EXCEPT !.at = "stored"])
      BY <1>13, <2>3 DEF ServerTakesRate
    <3>2. casts'[w].at = "stored"
      <4>1. casts[w] \in PostingCast
        BY <2>1 DEF RateTypes, CastType, Waiting, Creating, Answered, PostingCast
      <4>2. [casts[w] EXCEPT !.at = "stored"].at = "stored"
        BY <4>1 DEF PostingCast
      <4> QED
        BY <3>1, <4>2 DEF Casting, RateTypes
    <3>3. rate \in RateType
      <4>1. /\ rateLog' \in Seq(RateType) /\ Len(rateLog) + 1 \in 1 .. Len(rateLog')
            /\ rateLog'[Len(rateLog) + 1] = rate
        BY <3>1 DEF RateTypes
      <4> QED
        BY <4>1
    <3>4. rate.page = PageOf(w)
      OBVIOUS
    <3> HIDE DEF rate
    <3>5. /\ Len(rateLog') = Len(rateLog) + 1 /\ rateLog'[Len(rateLog) + 1] = rate
          /\ \A n \in 1 .. Len(rateLog) : rateLog'[n] = rateLog[n]
          /\ rateLog \in Seq(RateType) /\ Len(rateLog) \in Nat
      BY <3>1, <3>3 DEF RateTypes
    <3>6. SUFFICES ASSUME NEW p \in DOMAIN Pages,
                          MadeOn(rateLog', LastRate(rateLog', user'[p]), p), ~ Telling(p)'
                   PROVE  AllFollow(p, LastRate(rateLog, user[p]))'
      BY DEF PagesFollow, PageFollows
    <3> DEFINE new == LastRate(rateLog', user'[p])
    <3>7. new = IF rate.subject = user[p] THEN <<rate.item, Len(rateLog) + 1>> ELSE last(p)
      BY <2>1, <3>1, <3>3, <3>5, RateInAppend DEF LastRate
    <3>8. CASE rate.subject = user[p]
      <4>1. rateLog'[new[2]] = rate
        BY <3>5, <3>7, <3>8
      <4>2. p = PageOf(w)
        BY <3>4, <3>6, <4>1 DEF MadeOn
      <4>3. Telling(p)'
        BY <1>0, <3>2, <4>2 DEF Telling
      <4> QED
        BY <3>6, <4>3
    <3>9. CASE rate.subject # user[p]
      <4>1. new = last(p)
        BY <3>7, <3>9
      <4>2. last(p)[2] \in 1 .. Len(rateLog)
        <5>1. last(p) # NoVersion
          BY <3>6, <4>1 DEF MadeOn
        <5> QED
          BY <3>5, <5>1, RateInType DEF LastRate
      <4>3. MadeOn(rateLog, last(p), p)
        BY <3>5, <3>6, <4>1, <4>2 DEF MadeOn
      <4>4. ~ Telling(p)
        BY <1>d, <2>1, <2>2, <3>6, WidgetOfPage DEF Telling
      <4>5. AllFollow(p, last(p))
        BY <1>3, <4>3, <4>4 DEF PageFollows
      <4> HIDE DEF last
      <4> QED
        BY <2>1, <4>1, <4>5 DEF AllFollow
    <3> QED
      BY <3>8, <3>9
  <2>4. CASE Errors(casts[w]) # {}
    <3>1. UNCHANGED rateLog
      BY <1>13, <2>4 DEF ServerTakesRate
    <3> QED
      BY <1>b, <1>d, <2>1, <2>2, <3>1
  <2> QED
    BY <2>3, <2>4
\* The page is told: its widgets ask.
<1>14. ASSUME NEW w \in Widgets, Succeeded(w) PROVE PagesFollow'
  <2> DEFINE q == PageOf(w)
             sure == Len(rateLog)
  <2>1. /\ known' = [known EXCEPT ![q] = sure]
        /\ \A v \in Range(Pages[q]) : ~ Throws(v)
        /\ UNCHANGED <<rateLog, user, widgets>>
    BY <1>2, <1>14 DEF Succeeded
  <2>2. PICK thrown \in BOOLEAN : fetches' = Trigger(q, w, thrown)
    BY <1>14 DEF Succeeded
  <2>3. PICK cast : Casting(w, cast)
    BY <1>14 DEF Succeeded
  <2>4. SUFFICES ASSUME NEW p \in DOMAIN Pages, MadeOn(rateLog, last(p), p), ~ Telling(p)'
                 PROVE  AllFollow(p, last(p))'
    BY <2>1 DEF PagesFollow, PageFollows
  <2>5. last(p)' = last(p)
    BY <2>1
  <2>6. last(p)[2] \in Nat /\ last(p)[2] <= sure /\ sure \in Nat
    BY LastRateType DEF RateTypes
  <2>7. CASE p = q
    <3>1. known'[p] = sure
      BY <2>1, <2>7 DEF RateTypes
    <3>2. ASSUME NEW v \in Range(Pages[p]) PROVE Follows(widgets'[v], fetches'[v], last(p))
      <4>1. v \in Widgets
        BY WidgetOfPage
      <4>2. CASE widgets[v].at = "absent"
        <5> HIDE DEF last
        <5> QED
          BY <2>1, <4>2 DEF Follows
      <4>3. CASE widgets[v].at # "absent"
        <5>1. PICK j \in DOMAIN Pages[p] : v = Pages[p][j]
          BY DEF Range
        <5>2. \A h \in 1 .. j : h \in DOMAIN Pages[p]
          <6>1. Pages[p] \in Seq(Range(Pages[p]))
            BY RatingAssumption
          <6> QED
            BY <5>1, <6>1
        <5>3. \A h \in 1 .. j : ~ Throws(Pages[p][h])
          BY <2>1, <2>7, <5>2 DEF Range
        <5>4. v \in Called(q)
          BY <2>7, <4>3, <5>1, <5>3 DEF Called, Mounted
        <5> DEFINE asked == Asked(fetches[v], v, sure, v = w /\ ~ thrown)
        <5>5. fetches'[v] = asked
          BY <2>2, <4>1, <5>4 DEF Trigger
        <5>6. Continues(asked, fetches[v], UserOf(v), sure)
          BY <1>0, <2>6, <4>1, AskedIs
        <5> HIDE DEF asked, last
        <5> QED
          BY <2>6, <5>5, <5>6, AskedFollows
      <4> QED
        BY <4>2, <4>3
    <3> HIDE DEF last
    <3> QED
      BY <2>5, <2>6, <3>1, <3>2 DEF AllFollow
  <2>8. CASE p # q
    <3>1. ~ Telling(p)
      <4>1. ASSUME NEW v \in Range(Pages[p]) PROVE casts'[v] = casts[v]
        BY <2>3, <2>8, WidgetOfPage DEF Casting, RateTypes
      <4> QED
        BY <2>4, <4>1 DEF Telling
    <3>2. AllFollow(p, last(p))
      BY <1>3, <2>4, <3>1 DEF PageFollows
    <3>3. known'[p] = known[p]
      BY <2>1, <2>8 DEF RateTypes
    <3>4. ASSUME NEW v \in Range(Pages[p]) PROVE fetches'[v] = fetches[v]
      <4>1. v \in Widgets /\ PageOf(v) = p
        BY WidgetOfPage
      <4>2. v \notin Called(q)
        <5>1. Called(q) \subseteq Range(Pages[q])
          BY DEF Called, Mounted, Range
        <5> QED
          BY <1>0, <2>8, <4>1, <5>1, WidgetOfPage
      <4> QED
        BY <2>2, <4>1, <4>2 DEF Trigger
    <3> HIDE DEF last
    <3> QED
      BY <2>1, <2>5, <3>2, <3>3, <3>4 DEF AllFollow
  <2> QED
    BY <2>7, <2>8
<1>15. ASSUME NEW w \in Widgets, CastFails(w) \/ FetchFails(w) PROVE FALSE
  BY <1>2, <1>15 DEF CastFails, FetchFails, Mishap
<1>16. ASSUME NEW p \in DOMAIN Pages, SwitchUser(p) PROVE FALSE
  BY <1>2, <1>16 DEF SwitchUser, Mishap
<1> QED
  BY <1>5, <1>6, <1>7, <1>8, <1>9, <1>10, <1>11, <1>12, <1>13, <1>14, <1>15, <1>16
     DEF RatingNext, WidgetGoesOn, CastGoesOn

\* Every step keeps the invariant of the widgets.
LEMMA AgreeInvStep ==
    ASSUME AgreeInv, [RatingNext]_ratingVars
    PROVE  AgreeInv'
<1>1. RatingInv' /\ RateTypes'
  BY RatingInvStep DEF AgreeInv, RatingInv
<1> QED
  BY <1>1, LockStep, OrderStep, FollowStep DEF AgreeInv

\* What the properties say follows from the invariant.
LEMMA AgreeFollows == ASSUME AgreeInv PROVE WidgetsAgree /\ OneRatePerUser
<1>1. WidgetsAgree
  <2> USE DEF AgreeInv, RatingInv
  <2>1. SUFFICES ASSUME NEW p \in DOMAIN Pages, ~ mishap, Resting(p),
                        LastRate(rateLog, user[p]) # NoVersion,
                        rateLog[LastRate(rateLog, user[p])[2]].page = p,
                        NEW w \in Range(Pages[p]), widgets[w].at = "ready"
                 PROVE  widgets[w].shown = LastRate(rateLog, user[p])
    BY LastRateType DEF WidgetsAgree
  <2>2. ~ Telling(p)
    BY <2>1 DEF Resting, Telling, NoCast
  <2>3. AllFollow(p, LastRate(rateLog, user[p]))
    BY <2>1, <2>2 DEF PagesFollow, PageFollows, MadeOn
  <2> QED
    BY <2>1, <2>3 DEF AllFollow, Follows, Resting
<1>2. OneRatePerUser
  BY DEF AgreeInv, RatingInv
<1> QED
  BY <1>1, <1>2

\* When a page that made the last rate of its user has come to rest, and no request
\* failed, no answer overtook another and nobody logged in or out, all its
\* widgets show that rate: the event manager and the order of the answers suffice.
THEOREM WidgetsAlwaysAgree == RatingSpec => []WidgetsAgree
<1>1. AgreeInv => WidgetsAgree
  BY AgreeFollows
<1> QED
  BY <1>1, AgreeInvInit, AgreeInvStep, PTL DEF RatingSpec
=================================================================================
