-------------------------------- MODULE Editing --------------------------------
(* Forms at work: several browsers load one resource into a form, change it and *)
(* post it, while the others do the same.  Every form has its own steps between *)
(* the click on "submit" and the request: an upload, a GET, the promises of the *)
(* wrapper.  Some read the form at the click and some when they get there.  The *)
(* server takes a new version only if it follows the last one; what is PUT it   *)
(* takes as it is.                                                              *)
EXTENDS Forms

CONSTANTS Clients,      \* browsers; the name of a browser is the value its user enters
          Written,      \* the value of what its author entered
          Touchable,    \* the fields that a user may change: a set for every kind
          Statuses,     \* bound of the runs: those that users pick for an organization
          Submissions,  \* how often each form may be submitted at the same time
          MaxVersions,  \* bounds of the runs: versions, changes to one form,
          MaxChanges,   \*   submissions of one form, requests that fail
          MaxSubmits,
          MaxFailures

\* Paragraphs are typed one by one, and not as fields.
ASSUME BoundsAssumption ==
    /\ Clients # {} /\ Written \notin Clients
    /\ MaxVersions \in Nat \ {0} /\ MaxChanges \in Nat
    /\ MaxSubmits \in Nat /\ MaxFailures \in Nat
    /\ Statuses \subseteq DOMAIN OrganizationFieldsMap
    /\ DOMAIN Touchable = Kinds
    /\ \A kind \in Kinds :
         Touchable[kind] \subseteq Fields(kind) \ (IF HasParagraphs(kind)
                                                 THEN {Text(p) : p \in Range(Paragraphs)} ELSE {})
    /\ Submissions \in [[kind : Kinds, create : BOOLEAN] -> Nat \ {0}]

VARIABLES
    form,       \* which form it is: its kind, and whether it creates the resource
    versions,   \* what the server has stored; LAST is the last one
    pages,      \* browser -> the form as it is shown
    jobs,       \* browser -> its submissions that are not over
    seen,       \* browser -> the last version that its cache has
    failures    \* how many requests have failed

editingVars == <<form, versions, pages, jobs, seen, failures>>

Kind == form.kind
Used == DirectiveOf(form.kind, form.create)
LAST == Len(versions)
Rounds == 5             \* timeoutRounds

Unopened == [at |-> "unopened"]
Closed == [at |-> "closed"]
Saved == [at |-> "saved"]
None == [at |-> "none"]
Slots == 1 .. Submissions[form]

\* Forms that create share nothing: one of them is enough.
Users == IF form.create THEN {CHOOSE c \in Clients : TRUE} ELSE Clients

\* A page whose form shows the data of the version "base", or of none.
Page(base, data, paragraphs) ==
    [at |-> "open", base |-> base, data |-> data, paragraphs |-> paragraphs,
     errors |-> FALSE, touched |-> {}, emptied |-> {}, changes |-> 0, submits |-> 0]
IsOpen(c) == pages[c].at = "open"
Blank == [f \in Fields(Kind) |-> Empty]
Untyped == [body |-> Empty, deleted |-> FALSE]
Original(page) == IF page.base = 0 THEN Blank ELSE versions[page.base].content

\* Resources that have versions, and those that are changed in place.
Versioned == Kind # "mercator2016"

--------------------------------------------------------------------------------
(* Opening, changing and leaving a form.                                        *)

\* The create directives start with nothing, or with a paragraph to be typed, the
\* others with the resource at their path: bindPath, _update, get.  The cache may
\* be behind.
Open(c) ==
    /\ pages[c] = Unopened
    /\ IF form.create
       THEN /\ pages' = [pages EXCEPT ![c] =
                            Page(0, Blank, IF HasParagraphs(Kind) THEN <<Untyped>> ELSE <<>>)]
            /\ UNCHANGED seen
       ELSE \E v \in seen[c] .. LAST :
                /\ pages' = [pages EXCEPT ![c] = Page(v, Read(Kind, versions[v].content),
                                                     ShownParagraphs(Kind, versions[v].content))]
                /\ seen' = [seen EXCEPT ![c] = v]
    /\ UNCHANGED <<form, versions, jobs, failures>>

\* The user enters a value, or picks another status or another image.
Values(c, f) ==
    IF f = Organization("status") THEN Statuses ELSE {c}
Changed(c, page, field) ==
    /\ pages[c].changes < MaxChanges
    /\ pages' = [pages EXCEPT ![c] = [page EXCEPT !.touched = @ \cup {field}, !.changes = @ + 1]]
    /\ UNCHANGED <<form, versions, jobs, seen, failures>>
Touch(c) ==
    /\ IsOpen(c)
    /\ \E f \in Touchable[Kind] : \E value \in Values(c, f) :
           /\ f \in DOMAIN pages[c].data => value # pages[c].data[f]
           /\ Changed(c, [pages[c] EXCEPT
                              !.data = [g \in {f} \cup DOMAIN @ |-> IF g = f THEN value ELSE @[g]]], f)

\* addParagraph, deleteParagraph, and typing in a paragraph.
TextAt(page, i) == Text(ParagraphAt(i, Original(page)))
AddParagraph(c) ==
    /\ IsOpen(c) /\ HasParagraphs(Kind)
    /\ LET page == pages[c]
           i == Len(page.paragraphs) + 1
       IN  /\ i <= Len(Paragraphs)
           /\ Changed(c, [page EXCEPT !.paragraphs = Append(@, Untyped)],
                       TextAt(page, i))
ChangeParagraph(c) ==
    /\ IsOpen(c) /\ HasParagraphs(Kind)
    /\ \E i \in DOMAIN pages[c].paragraphs :
        /\ ~ pages[c].paragraphs[i].deleted
        /\ \/ Changed(c, [pages[c] EXCEPT !.paragraphs[i].deleted = TRUE], TextAt(pages[c], i))
           \/ /\ pages[c].paragraphs[i].body # c
              /\ Changed(c, [pages[c] EXCEPT !.paragraphs[i].body = c], TextAt(pages[c], i))

\* What is submitted goes on with the form as it was left.
Left(c) ==
    [j \in DOMAIN jobs[c] |->
        IF jobs[c][j] = None \/ jobs[c][j].left # None THEN jobs[c][j]
        ELSE [jobs[c][j] EXCEPT !.left = pages[c]]]

\* cancel leaves the page.  The wrapper of Mercator 2015 resolves a promise that
\* is still pending with nothing, as soon as it has loaded the resource again; the
\* other forms go on with what was submitted.
Providing == {"old", "upload", "get", "hangs"}
Dropped(c) == [j \in Slots |-> IF jobs[c][j].at \in Providing THEN None ELSE Left(c)[j]]
Cancel(c) ==
    /\ IsOpen(c)
    /\ pages' = [pages EXCEPT ![c] = Closed]
    /\ \/ jobs' = [jobs EXCEPT ![c] = Left(c)]
       \/ Kind = "mercator2015" /\ jobs' = [jobs EXCEPT ![c] = Dropped(c)]
    /\ UNCHANGED <<form, versions, seen, failures>>

--------------------------------------------------------------------------------
(* Submitting.  A job is the promise chain of one click.  "posted" is what it   *)
(* will store; "entered" are the fields that had been changed at the click, and *)
(* "live" those that had been when the form was read for the last time.         *)

Scope(c, job) == IF job.left = None THEN pages[c] ELSE job.left
Uploads(page) == \E f \in page.touched : f[2] = "picture"

\* The first step of a submit, and the one after a given step.
NextStep(page, steps) ==
    IF Head(steps) = "upload" /\ ~ Uploads(page) THEN Head(Tail(steps)) ELSE Head(steps)
FirstStep(page) == NextStep(page, Used.steps)
StepAfter(page, step) ==
    LET i == CHOOSE k \in DOMAIN Used.steps : Used.steps[k] = step
    IN  NextStep(page, SubSeq(Used.steps, i + 1, Len(Used.steps)))

\* cleanOrganizationInfo empties fields of the form itself.
Cleaned(page) ==
    LET fields == IF Kind = "mercator2015"
                  THEN CleanOrganizationInfo(page.data) \cap DOMAIN page.data ELSE {}
    IN  [page EXCEPT !.data = Fill(Kind, @), !.emptied = @ \cup fields]

\* What the form posts if it is read now, over what it edits.
Filled(page) ==
    IF HasParagraphs(Kind) THEN FillDocument(page.data, page.paragraphs, Original(page))
                            ELSE Fill(Kind, page.data)

Job(page) ==
    [at |-> FirstStep(page), base |-> page.base, follows |-> page.base,
     posted |-> Filled(page), paragraphs |-> page.paragraphs, left |-> None,
     entered |-> page.touched, emptied |-> page.emptied,
     live |-> page.touched \cup page.emptied,
     rounds |-> Rounds, ok |-> FALSE]

\* What the forms require: a text in every paragraph, an image to upload, and
\* something in a form that creates.
Valid(page) ==
    /\ \A i \in Posted(page.paragraphs) : page.paragraphs[i].body # Empty
    /\ Kind = "image" => Uploads(page)
    /\ form.create => page.touched # {}

\* A widget of Mercator 2015 has one promise for all clicks: what the first one
\* provides, the others post, too.  (When it was provided already, a click posts
\* nothing, which is left out.)
Shared(c, j) ==
    IF Kind = "mercator2015" THEN {i \in Slots : jobs[c][i].at \in Providing} ELSE {j}
IsProvided(c) == Kind = "mercator2015" /\ \E j \in Slots : jobs[c][j].at \notin Providing \cup {"none"}

\* submit: adhSubmitIfValid, triggerSubmit.  Nothing keeps the user from a
\* second click.
Submit(c) ==
    /\ IsOpen(c)
    /\ Valid(pages[c])
    /\ ~ IsProvided(c)
    /\ LAST + Cardinality({s \in Clients \X Slots : jobs[s[1]][s[2]] # None}) < MaxVersions
    /\ \E j \in DOMAIN jobs[c] :
           /\ jobs[c][j] = None
           /\ jobs' = [jobs EXCEPT ![c][j] = Job(pages[c])]
    /\ pages[c].submits < MaxSubmits
    /\ LET page == IF FirstStep(pages[c]) = "post" THEN Cleaned(pages[c]) ELSE pages[c]
       IN  pages' = [pages EXCEPT ![c] = [page EXCEPT !.submits = @ + 1]]
    /\ UNCHANGED <<form, versions, seen, failures>>

At(c, j, step) == jobs[c][j].at = step
Become(c, js, job) ==
    /\ jobs' = [jobs EXCEPT ![c] = [i \in Slots |-> IF i \in js THEN job ELSE @[i]]]
    /\ UNCHANGED <<form, versions, seen>>
Step(c, j, job) == Become(c, {j}, job) /\ UNCHANGED pages
\* What becomes of the resources that a click has provided.
Provides(c, j, job) == Become(c, Shared(c, j), job) /\ UNCHANGED pages
\* The form is cleaned, whether it is still shown or not.
Cleans(c, js, job) ==
    /\ Become(c, js, IF job.left = None THEN job ELSE [job EXCEPT !.left = Cleaned(@)])
    /\ pages' = IF job.left = None THEN [pages EXCEPT ![c] = Cleaned(@)] ELSE pages

\* The form is read again, for the given fields.
ReadAgain(page, job, fields) ==
    LET read == DOMAIN page.data \cap fields
        kept == DOMAIN job.posted \ fields
    IN  [job EXCEPT !.posted = [f \in read \cup kept |-> IF f \in read THEN page.data[f] ELSE @[f]],
                    !.emptied = @ \cup page.emptied,
                    !.live = @ \cup page.touched \cup page.emptied]
MainOnly == {f \in Fields(Kind) : f[1] = "main"}

\* _edit of Mercator 2015 has the old version; it uploads the image, or fills
\* the version of the proposal at once, and cleans the form.
GotOld(c, j) ==
    /\ At(c, j, "old")
    /\ LET page == Scope(c, jobs[c][j])
       IN  IF StepAfter(page, "old") = "upload"
           THEN Step(c, j, [jobs[c][j] EXCEPT !.at = "upload"])
           ELSE Cleans(c, {j}, [ReadAgain(page, jobs[c][j], MainOnly) EXCEPT !.at = "get"])

\* adhUploadImage is over.  A document and an image have been read before, the
\* others are read now; the URL of the image is one more value that was entered.
Uploaded(c, j) ==
    /\ At(c, j, "upload")
    /\ LET job == jobs[c][j]
           page == Scope(c, job)
           step == StepAfter(page, "upload")
           again == CASE Kind \in {"document", "image"} -> job
                      [] Kind = "mercator2015" /\ ~ form.create -> ReadAgain(page, job, MainOnly)
                      [] OTHER -> ReadAgain(Cleaned(page), job, Fields(Kind))
           js == IF step = "post" THEN Shared(c, j) ELSE {j}
       IN  Cleans(c, js, [again EXCEPT !.at = step])

\* The last GET before the post.  Mercator 2015 has the subresources and fills
\* them; Mercator 2016 knows their paths and fills everything; a comment derives
\* from the newest version; an image is put into the version at the path.
Got(c, j) ==
    /\ At(c, j, "get")
    /\ LET job == jobs[c][j]
           page == Scope(c, job)
       IN  CASE Kind = "mercator2015" ->
                    Provides(c, j, [ReadAgain(page, job, Fields(Kind) \ MainOnly) EXCEPT !.at = "post"])
             [] Kind = "mercator2016" ->
                    Step(c, j, [ReadAgain(page, job, Fields(Kind)) EXCEPT !.at = "post"])
             [] Kind = "image" -> Step(c, j, [job EXCEPT !.at = "post"])
             [] OTHER -> \E v \in seen[c] .. LAST :
                    Step(c, j, [ReadAgain(page, job, Fields(Kind))
                                    EXCEPT !.at = "post", !.follows = v])

\* A GET of a subresource that fails settles no promise of _edit: the submission
\* of Mercator 2015 never ends.  The other forms report the error.
Failure ==
    /\ failures < MaxFailures
    /\ failures' = failures + 1
Hangs(c, j) ==
    /\ At(c, j, "get") /\ Kind = "mercator2015"
    /\ Failure
    /\ Step(c, j, [jobs[c][j] EXCEPT !.at = "hangs"])
Fails(c, j) ==
    /\ \/ At(c, j, "old") \/ At(c, j, "upload") \/ At(c, j, "wait")
       \/ At(c, j, "get") /\ Kind # "mercator2015"
    /\ Failure
    /\ Provides(c, j, [jobs[c][j] EXCEPT !.at = "refused"])

--------------------------------------------------------------------------------
(* The server.                                                                  *)

\* The resources of a job.
Batch(job) ==
    LET old == IF job.base = 0 THEN Blank ELSE versions[job.base].content
        follows == Old("version")
    IN  CASE Kind \in {"idea", "buergerhaushalt", "kiezkasse"} -> ProposalBatch(form.create, follows)
          [] Kind \in {"s1", "bplan"} -> S1Batch(form.create, follows)
          [] Kind = "comment" -> CommentBatch(form.create, follows)
          [] HasParagraphs(Kind) ->
                IF form.create THEN DocumentCreation(job.paragraphs)
                               ELSE DocumentEdit(job.paragraphs, old, follows)
          [] Kind = "mercator2015" ->
                IF form.create THEN Mercator2015Creation
                               ELSE Mercator2015Edit(ChangedParts(Kind, old, job.posted), follows)
          [] Kind = "mercator2016" -> Mercator2016Batch(form.create)
          [] OTHER -> <<Successor("main", follows)>>

\* Mutant: a new version may follow any version.
AcceptedAlways(job) == TRUE
Accepted(job) == form.create \/ ~ Versioned \/ job.follows = LAST
Stored(c, job) ==
    [content |-> IF Versioned \/ form.create THEN NewContent(Kind, job.posted)
                 ELSE PutContent(Kind, versions[LAST].content, job.posted),
     base |-> job.base, by |-> c, entered |-> job.entered, emptied |-> job.emptied,
     live |-> job.live]

\* The request arrives.  A version that does not follow LAST is refused.
ServerTakes(c, j) ==
    /\ At(c, j, "post")
    /\ LET job == jobs[c][j]
       IN  /\ jobs' = [jobs EXCEPT ![c][j] = [job EXCEPT !.at = "answer", !.ok = Accepted(job)]]
           /\ versions' = IF Accepted(job) THEN Append(versions, Stored(c, job)) ELSE versions
    /\ UNCHANGED <<form, pages, seen, failures>>

\* It is refused for another reason, or the answer is lost after it was taken.
ServerRefuses(c, j) ==
    /\ At(c, j, "post")
    /\ Failure
    /\ Step(c, j, [jobs[c][j] EXCEPT !.at = "refused"])
AnswerIsLost(c, j) ==
    /\ At(c, j, "answer") /\ jobs[c][j].ok
    /\ Failure
    /\ Step(c, j, [jobs[c][j] EXCEPT !.at = "refused"])

\* Success leaves the form, or leaves it as it is until the listing that it is in
\* shows the new version; an error is shown in it.
Over(c, j) == [jobs EXCEPT ![c][j] = None]
Leaves(c, j) ==
    /\ jobs' = [jobs EXCEPT ![c] = [Left(c) EXCEPT ![j] = None]]
    /\ pages' = [pages EXCEPT ![c] = Saved]
Succeeds(c, j) ==
    /\ At(c, j, "answer") /\ jobs[c][j].ok
    /\ \/ jobs[c][j].left = None /\ Leaves(c, j)
       \/ (jobs[c][j].left # None \/ Used.stays) /\ jobs' = Over(c, j) /\ UNCHANGED pages
    /\ UNCHANGED <<form, versions, seen, failures>>
ShowsErrors(c, j) ==
    /\ jobs' = Over(c, j)
    /\ pages' = IF jobs[c][j].left = None /\ Used.handles
                THEN [pages EXCEPT ![c].errors = TRUE] ELSE pages
    /\ UNCHANGED <<form, versions, seen, failures>>

\* postNewVersionNoFork: on a conflict it waits, asks for LAST and tries again
\* with the same content, five times in all.  Other forms show the conflict.
Retries(job) == Kind = "image" /\ job.rounds > 1
Refused(c, j) ==
    \/ At(c, j, "refused") /\ ShowsErrors(c, j)
    \/ /\ At(c, j, "answer") /\ ~ jobs[c][j].ok
       /\ IF Retries(jobs[c][j]) THEN Step(c, j, [jobs[c][j] EXCEPT !.at = "wait"])
                                 ELSE ShowsErrors(c, j)
Retry(c, j) ==
    /\ At(c, j, "wait")
    /\ \E v \in seen[c] .. LAST :
           Step(c, j, [jobs[c][j] EXCEPT !.at = "post", !.follows = v, !.rounds = @ - 1])

--------------------------------------------------------------------------------
(* The specification.                                                           *)

FirstContent(kind) ==
    [f \in Fields(kind) |->
        CASE f = Organization("status") -> "planned_nonprofit"
          [] f \in {Organization("help_request"), Organization("status_other"),
                    Text(Paragraphs[3]), Text(Paragraphs[4])} -> Empty
          [] OTHER -> Written]

EditingInit ==
    /\ form \in [kind : Kinds, create : BOOLEAN]
    /\ form.kind = "bplan" => form.create
    /\ form.kind = "image" => ~ form.create
    /\ versions = IF form.create THEN <<>>
                  ELSE <<[content |-> FirstContent(Kind), base |-> 0, by |-> Written,
                          entered |-> {}, emptied |-> {}, live |-> {}]>>
    /\ failures = 0
    /\ pages = [c \in Clients |-> Unopened] /\ seen = [c \in Clients |-> 1]
    /\ jobs = [c \in Clients |-> [j \in Slots |-> None]]

\* Nobody edits.
EditingIdle ==
    /\ form = [kind |-> "idea", create |-> TRUE] /\ versions = <<>> /\ failures = 0
    /\ pages = [c \in Clients |-> Closed] /\ seen = [c \in Clients |-> 1]
    /\ jobs = [c \in Clients |-> [j \in Slots |-> None]]

UserActs(c) ==
    \/ Open(c) \/ Touch(c) \/ AddParagraph(c) \/ ChangeParagraph(c) \/ Cancel(c) \/ Submit(c)
\* What happens by itself to a submission, and what need not happen.
JobGoesOn(c, j) ==
    \/ /\ GotOld(c, j) \/ Uploaded(c, j) \/ Got(c, j) \/ Refused(c, j) \/ Retry(c, j)
       /\ UNCHANGED failures
    \/ ServerTakes(c, j) \/ Succeeds(c, j)
JobFails(c, j) ==
    Hangs(c, j) \/ Fails(c, j) \/ ServerRefuses(c, j) \/ AnswerIsLost(c, j)
EditingNext ==
    \E c \in Users :
        \/ UserActs(c)
        \/ \E j \in Slots : JobGoesOn(c, j) \/ JobFails(c, j)

--------------------------------------------------------------------------------
(* Properties.                                                                  *)

\* Fields that the status of an organization has no use for are dropped on
\* purpose.
Useless(content) ==
    IF Kind # "mercator2015" THEN {}
    ELSE LET status == content[Organization("status")]
             useful == IF status \in DOMAIN OrganizationFieldsMap
                       THEN OrganizationFieldsMap[status] ELSE {}
         IN  SubFields(Kind, "organization_info")
                \ {Organization(name) : name \in {"status"} \cup useful}
\* The title of a Mercator 2015 proposal is read as an object and is lost unless
\* it is entered again.
Garbled == IF Kind = "mercator2015" /\ ~ form.create THEN {<<"main", "title">>} ELSE {}

\* What is stored is what its user saw: a field that had been changed at the
\* click has the user's value (or the paragraph is deleted, or another status of
\* the organization emptied it), and every field that was never changed has the
\* value that the form was loaded with; no field that the form does not read or
\* fill is lost.  (_update and fill, get and fill, bindPath and fill, derive,
\* postCreate and postEdit, cleanOrganizationInfo.)
StoresWhatTheFormShows ==
    \A v \in DOMAIN versions : versions[v].by \in Clients =>
        LET new == versions[v]
            Deleted(f) == f[2] = "text" /\ new.content[f] = Empty
        IN  \A f \in Fields(Kind) \ Useless(new.content) :
                /\ f \in new.entered \ {Organization("status")} =>
                        \/ new.content[f] = new.by \/ Deleted(f)
                        \/ f \in new.emptied /\ new.content[f] = Empty
                /\ f \notin new.live \cup Garbled =>
                        \/ new.content[f] = Original(new)[f]
                        \/ ~ Versioned /\ v > 1 /\ new.content[f] = versions[v - 1].content[f]

\* Two users who edit the same version: nothing that the first one stored is
\* overwritten (follows: [oldVersion.path]), and the second one is told: a form
\* closes as saved only if a version of its user was stored, and one that is still
\* open after a submission shows errors (adhSubmitIfValid).  Comments derive from
\* the newest version when they are saved and images are retried, without a word.
WritesOver == {"comment", "image"}
IsIdle(c) == \A j \in Slots : jobs[c][j] = None
ConflictIsReported ==
    Kind \notin WritesOver =>
        /\ Versioned /\ ~ form.create =>
                \A v \in DOMAIN versions : v > 1 => versions[v].base = v - 1
        /\ \A c \in Users :
                LET stored == \E v \in DOMAIN versions : versions[v].by = c
                IN  /\ pages[c] = Saved => stored
                    /\ IsOpen(c) /\ pages[c].submits > 0 /\ IsIdle(c) =>
                            pages[c].errors \/ (Used.stays /\ stored)

\* Every preliminary name of a transaction belongs to a resource that is posted
\* before the name is used, and no resource is left out (deepPost,
\* sortDagTopologically, the transactions of Mercator 2016).
EveryReferenceResolves ==
    \A c \in Users : \A j \in Slots : At(c, j, "post") =>
        LET resources == Batch(jobs[c][j])
            requests == Requests(Kind, resources)
        IN  Len(requests) = Len(resources) /\ Unresolved(requests) = {}

\* After a success the form opens what it has made, whatever the order in which
\* the resources had to be posted (deepPost promises "original order").
OpensWhatItMade ==
    \A c \in Users : \A j \in Slots :
        At(c, j, "post") /\ Used.opens # "nothing" =>
            Opened(Used.opens, Results(Kind, Batch(jobs[c][j]))) = New(ShownRole(Kind))

\* A submission that can still come to an end; one of Mercator 2015 may hang.
Pending(c, j) == jobs[c][j] # None /\ ~ At(c, j, "hangs")
================================================================================
