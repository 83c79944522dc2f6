--------------------------------- MODULE Forms ---------------------------------
(* What the forms of the pages read from the resources that they edit, and what *)
(* they post: Document.ts, Comment.ts, IdeaCollection/Proposal.ts,              *)
(* S1/Proposal.ts, Mercator/2015/Proposal.ts, Mercator/2016/Proposal.ts,        *)
(* Bplan/Proposal.ts, Blog.ts, Image.ts.  A form edits a resource and the       *)
(* resources that belong to it: its parts.  A stored content gives every field  *)
(* <<part, name>> a value.  The form's own names of the fields are left out     *)
(* where reading and filling use the same one for the same field.               *)
EXTENDS Batch

Kinds == {"idea", "buergerhaushalt", "kiezkasse", "s1", "bplan", "document", "blog", "comment",
          "mercator2015", "mercator2016", "image"}
HasParagraphs(kind) == kind \in {"document", "blog"}

CONSTANT Empty          \* the value of a field that was never set

--------------------------------------------------------------------------------
(* The parts of a resource and their fields.                                    *)

\* proposalSheet, hasDescription, hasLocation of the process.
IdeaFields(kind) ==
    {"title", "description", "coordinates"} \cup
    CASE kind = "buergerhaushalt" -> {"budget", "location_text"}
      [] kind = "kiezkasse" -> {"budget", "location_text", "creator_participate"}
      [] OTHER -> {}

Paragraphs == <<"paragraph 1", "paragraph 2", "paragraph 3", "paragraph 4">>

OrganizationFields ==
    {"status", "name", "country", "website", "planned_date", "help_request", "status_other"}

Mercator2015SubResources ==
    [organization_info |-> OrganizationFields,
     introduction |-> {"teaser", "picture"},
     description |-> {"description"},
     location |-> {"location_is_specific", "location_specific_1", "location_specific_2",
                   "location_specific_3", "location_is_online", "location_is_linked_to_ruhr"},
     story |-> {"story"}, outcome |-> {"outcome"}, steps |-> {"steps"},
     value |-> {"value"}, partners |-> {"partners"},
     finance |-> {"budget", "requested_funding", "other_sources", "granted"},
     experience |-> {"experience"}]
Mercator2015Fields ==
    {"personal_name", "family_name", "country", "title", "heard_from_colleague",
     "heard_from_website", "heard_from_newsletter", "heard_from_facebook", "heard_elsewhere"}

Mercator2016SubResources ==
    [pitch |-> {"pitch"},
     partners |-> {"has_partners", "partner1_name", "partner1_website", "partner1_country",
                   "partner2_name", "partner2_website", "partner2_country", "partner3_name",
                   "partner3_website", "partner3_country", "other_partners"},
     duration |-> {"duration"}, challenge |-> {"challenge"}, goal |-> {"goal"},
     plan |-> {"plan"}, target |-> {"target"}, team |-> {"team"},
     extrainfo |-> {"extrainfo"}, connectioncohesion |-> {"connection_cohesion"},
     difference |-> {"difference"}, practicalrelevance |-> {"practicalrelevance"}]
Mercator2016Fields ==
    {"first_name", "last_name", "name", "city", "country", "help_request",
     "registration_date", "website", "organization status", "status_other", "topic",
     "topic_other", "title", "location", "is_online", "has_link_to_ruhr", "link_to_ruhr",
     "status", "budget", "requested_funding", "major_expenses", "other_sources", "secured",
     "expected_feedback", "heard_froms", "heard_from_other", "picture"}

SubResources(kind) ==
    CASE kind = "mercator2015" -> Mercator2015SubResources
      [] kind = "mercator2016" -> Mercator2016SubResources
      [] HasParagraphs(kind) -> [p \in Range(Paragraphs) |-> {"text"}]
      [] OTHER -> [p \in {} |-> {}]
MainFields(kind) ==
    CASE kind = "mercator2015" -> Mercator2015Fields
      [] kind = "mercator2016" -> Mercator2016Fields
      [] HasParagraphs(kind) -> {"title", "coordinates", "picture"}
      [] kind = "comment" -> {"content"}
      [] kind = "s1" -> {"title", "description"}
      [] kind = "bplan" -> {"name", "street_number", "postal_code_city", "email", "statement"}
      [] kind = "image" -> {"picture", "title"}
      [] OTHER -> IdeaFields(kind)

SubFields(kind, part) == {part} \X SubResources(kind)[part]
Fields(kind) ==
    ({"main"} \X MainFields(kind))
        \cup UNION {SubFields(kind, part) : part \in DOMAIN SubResources(kind)}

--------------------------------------------------------------------------------
(* What a form shows of a content, and what it posts.                           *)

Organization(name) == <<"organization_info", name>>
OrganizationFieldsMap ==
    [registered_nonprofit |-> {"name", "country", "website"},
     planned_nonprofit |-> {"name", "country", "website", "planned_date"},
     support_needed |-> {"name", "country", "website", "help_request"},
     other |-> {"status_other"}]
Object(value) == "{title: " \o value \o "}"

\* Mutant: bindPath forgets a field that fill posts.
ForgetsLocationText(kind) ==
    IF kind = "kiezkasse" THEN {<<"main", "location_text">>} ELSE {}

\* A field that the form does not read has no value in it.
Unread(kind) ==
    IF kind = "mercator2016" THEN {<<"main", "heard_from_other">>} ELSE {}
Read(kind, content) ==
    [f \in Fields(kind) \ Unread(kind) |->
        IF kind = "mercator2015" /\ f = <<"main", "title">> THEN Object(content[f])
                                                            ELSE content[f]]

\* The fields of the organization that its status has no use for; without a
\* status, all that depend on it.
CleanOrganizationInfo(data) ==
    LET status == data[Organization("status")]
        useful == IF status \in DOMAIN OrganizationFieldsMap
                  THEN OrganizationFieldsMap[status] ELSE {}
    IN  {Organization(name) : name \in (UNION Range(OrganizationFieldsMap)) \ useful}
Fill(kind, data) ==
    LET cleaned == IF kind = "mercator2015" THEN CleanOrganizationInfo(data) ELSE {}
    IN  [f \in DOMAIN data \ cleaned |-> data[f]]

\* A new version holds what was posted, and nothing else; PUT changes what is
\* sent and leaves the rest.
NewContent(kind, posted) ==
    [f \in Fields(kind) |-> IF f \in DOMAIN posted THEN posted[f] ELSE Empty]
PutContent(kind, old, posted) ==
    [f \in Fields(kind) |-> IF f \in DOMAIN posted THEN posted[f] ELSE old[f]]

\* derive copies the whole content, and the form replaces the sheets it fills.
HasEqualContent(kind, part, old, posted) ==
    \A f \in SubFields(kind, part) : f \in DOMAIN posted /\ posted[f] = old[f]
ChangedParts(kind, old, posted) ==
    {part \in DOMAIN SubResources(kind) : ~ HasEqualContent(kind, part, old, posted)}

--------------------------------------------------------------------------------
(* The paragraphs of a document.  Those of the version that is edited come      *)
(* first and are never reordered; a deleted one keeps its place in the form.    *)

Text(part) == <<part, "text">>
Follow(seq, p, chosen) == IF p \in chosen THEN Append(seq, p) ELSE seq
InOrder(chosen) ==
    Follow(Follow(Follow(Follow(<<>>, Paragraphs[1], chosen), Paragraphs[2], chosen),
                  Paragraphs[3], chosen), Paragraphs[4], chosen)
StoredParagraphs(content) == InOrder({p \in Range(Paragraphs) : content[Text(p)] # Empty})
ShownParagraphs(kind, content) ==
    LET stored == IF HasParagraphs(kind) THEN StoredParagraphs(content) ELSE <<>>
    IN  [i \in DOMAIN stored |-> [body |-> content[Text(stored[i])], deleted |-> FALSE]]
Added(content) == InOrder({p \in Range(Paragraphs) : content[Text(p)] = Empty})

\* The paragraph that the i-th one of the form becomes.
ParagraphAt(i, old) ==
    LET stored == StoredParagraphs(old)
    IN  IF i > Len(stored) THEN Added(old)[i - Len(stored)] ELSE stored[i]
Posted(paragraphs) == {i \in DOMAIN paragraphs : ~ paragraphs[i].deleted}
FillDocument(data, paragraphs, old) ==
    LET main == {"main"} \X MainFields("document")
        texts == {Text(ParagraphAt(i, old)) : i \in Posted(paragraphs)}
        Place(f) == CHOOSE i \in Posted(paragraphs) : Text(ParagraphAt(i, old)) = f
    IN  [f \in main \cup texts |-> IF f \in main THEN data[f] ELSE paragraphs[Place(f)].body]

--------------------------------------------------------------------------------
(* The resources that a form gives to deepPost, and the requests it makes in a  *)
(* transaction of its own.  A version has the role of its item with an accent.  *)

VersionOf(role) == role \o "'"
NewVersionOf(role, first) == Version(VersionOf(role), New(role), first)
ItemWithVersion(role, parent) == <<Item(role, parent), NewVersionOf(role, New(role \o " 0"))>>
\* An item whose first version has no name: the version follows "undefined".
ItemWithoutFirst(role, parent) == <<Resource(role, parent), NewVersionOf(role, Undefined)>>
Successor(role, follows) == Version(VersionOf(role), Old(role), follows)
\* A request that creates nothing: GET, PUT.
Request(name) == [Resource("", name) EXCEPT !.path = Undefined]
Refer(resource, names) == [resource EXCEPT !.single = @ \cup names]
List(resource, names) == [resource EXCEPT !.lists = @ \cup names]
Each(Op(_), parts) == [i \in DOMAIN parts |-> Op(parts[i])]

ProposalBatch(create, follows) ==
    IF create THEN ItemWithVersion("main", Old("pool")) ELSE <<Successor("main", follows)>>
S1Batch(create, follows) ==
    IF create THEN ItemWithoutFirst("main", Old("pool")) ELSE <<Successor("main", follows)>>

CommentBatch(create, follows) ==
    IF create
    THEN LET batch == ItemWithoutFirst("main", Old("comments"))
         IN  [batch EXCEPT ![2] = Refer(@, {Old("commentable")})]
    ELSE <<Refer(Successor("main", follows), {Old("commentable")})>>

DocumentCreation(paragraphs) ==
    LET parts == Each(LAMBDA i : Paragraphs[i], SetToSortSeq(Posted(paragraphs), <))
        document == ItemWithVersion("main", Old("pool"))
        named == {New(VersionOf(parts[i])) : i \in DOMAIN parts}
    IN  [document EXCEPT ![2] = List(@, named)]
            \o Each(LAMBDA p : Resource(p, New("main")), parts)
            \o Each(LAMBDA p : NewVersionOf(p, Undefined), parts)
DocumentEdit(paragraphs, old, follows) ==
    LET stored == Len(StoredParagraphs(old))
        At(indices) == Each(LAMBDA i : ParagraphAt(i, old), SetToSortSeq(indices, <))
        IsNew(i) == i > stored
        IsChanged(i) == ~ IsNew(i) /\ paragraphs[i].body # old[Text(ParagraphAt(i, old))]
        added == At({i \in Posted(paragraphs) : IsNew(i)})
        changed == At({i \in Posted(paragraphs) : IsChanged(i)})
        kept == At({i \in Posted(paragraphs) : ~ IsNew(i) /\ ~ IsChanged(i)})
        elements == {New(VersionOf(p)) : p \in Range(added \o changed)}
                        \cup {Old(VersionOf(p)) : p \in Range(kept)}
    IN  <<List(Successor("main", follows), elements)>>
            \o Each(LAMBDA p : Resource(p, Old("main")), added)
            \o Each(LAMBDA p : Successor(p, Old(VersionOf(p))), changed)
            \o Each(LAMBDA p : NewVersionOf(p, Undefined), added)

Mercator2015Parts ==
    <<"organization_info", "introduction", "description", "location", "story", "outcome",
      "steps", "value", "partners", "finance", "experience">>
Mercator2015Creation ==
    LET parts == Mercator2015Parts
        proposal == ItemWithVersion("main", Old("pool"))
        named == {New(VersionOf(parts[i])) : i \in DOMAIN parts}
    IN  [proposal EXCEPT ![2] = Refer(@, named)]
            \o FlattenSeq(Each(LAMBDA p : ItemWithVersion(p, New("main")), parts))
Mercator2015Edit(changed, follows) ==
    LET kept == DOMAIN Mercator2015SubResources \ changed
        named == {New(VersionOf(p)) : p \in changed} \cup {Old(VersionOf(p)) : p \in kept}
    IN  <<Refer(Successor("main", follows), named)>>
            \o Each(LAMBDA p : Successor(p, Old(VersionOf(p))),
                    SelectSeq(Mercator2015Parts, LAMBDA p : p \in changed))

Mercator2016Parts ==
    <<"pitch", "partners", "duration", "challenge", "goal", "plan", "target", "team",
      "extrainfo", "connectioncohesion", "difference", "practicalrelevance">>
Mercator2016Batch(create) ==
    LET parts == Mercator2016Parts
    IN  IF create
        THEN <<Resource("main", Old("pool"))>>
                \o Each(LAMBDA p : Resource(p, New("main")), parts)
                \o <<Refer(Request(New("main")), {New(parts[i]) : i \in DOMAIN parts})>>
        ELSE <<Request(Old("main"))>> \o Each(LAMBDA p : Request(Old(p)), parts)

\* Forms that make a transaction of their own, in the order they need.
OwnOrder(kind) == kind = "mercator2016"
Requests(kind, resources) ==
    IF OwnOrder(kind) THEN resources ELSE SortTopologically(resources)
Results(kind, resources) ==
    IF OwnOrder(kind) THEN resources ELSE InOriginalOrder(Requests(kind, resources), resources)

--------------------------------------------------------------------------------
(* The directives.  "steps" are those between the click and the post (an upload *)
(* is left out when there is nothing to upload), "opens" is the result that the *)
(* page goes to after a success, "handles" says whether errors are shown in the *)
(* form, and "stays" whether the form can still be used after a success.        *)

Directive(steps, opens) == [steps |-> steps, opens |-> opens, handles |-> TRUE, stays |-> FALSE]

IdeaCreate == Directive(<<"post">>, "second")
IdeaEdit == Directive(<<"post">>, "first")
S1Create == Directive(<<"post">>, "second")
S1Edit == Directive(<<"post">>, "first")
BplanCreate == Directive(<<"post">>, "nothing")
DocumentCreate == Directive(<<"upload", "post">>, "second")
DocumentEditor == Directive(<<"upload", "post">>, "first")
BlogCreate == Directive(<<"post">>, "nothing")
BlogPost == [Directive(<<"post">>, "nothing") EXCEPT !.stays = TRUE]
CommentCreate == [Directive(<<"post">>, "nothing") EXCEPT !.handles = FALSE]
CommentDetail == [Directive(<<"get", "post">>, "nothing") EXCEPT !.handles = FALSE]
Mercator2015Create == Directive(<<"upload", "post">>, "version")
Mercator2015Detail == Directive(<<"old", "upload", "get", "post">>, "version")
Mercator2016Create == Directive(<<"upload", "post">>, "first")
Mercator2016Editor == Directive(<<"upload", "get", "post">>, "nothing")
ImageUpload == [Directive(<<"upload", "get", "post">>, "nothing") EXCEPT !.handles = FALSE]

DirectiveOf(kind, create) ==
    CASE kind = "s1" -> IF create THEN S1Create ELSE S1Edit
      [] kind = "bplan" -> BplanCreate
      [] kind = "document" -> IF create THEN DocumentCreate ELSE DocumentEditor
      [] kind = "blog" -> IF create THEN BlogCreate ELSE BlogPost
      [] kind = "comment" -> IF create THEN CommentCreate ELSE CommentDetail
      [] kind = "mercator2015" -> IF create THEN Mercator2015Create ELSE Mercator2015Detail
      [] kind = "mercator2016" -> IF create THEN Mercator2016Create ELSE Mercator2016Editor
      [] kind = "image" -> ImageUpload
      [] OTHER -> IF create THEN IdeaCreate ELSE IdeaEdit

\* The version of a proposal among the results, as the route of Mercator 2015
\* that is gone to finds it.
FindsVersion(results) ==
    results[CHOOSE i \in DOMAIN results : results[i].path = New(VersionOf("main"))]
Opened(opens, results) ==
    CASE opens = "first" -> results[1].path
      [] opens = "second" -> results[2].path
      [] OTHER -> FindsVersion(results).path
ShownRole(kind) == IF OwnOrder(kind) THEN "main" ELSE VersionOf("main")
================================================================================
