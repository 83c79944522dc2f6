-------------------------------- MODULE Routes --------------------------------
(***************************************************************************)
(* The pages of the customizations: what each workbench registers with the *)
(* resource area, and what its template shows in its three columns.  The   *)
(* two sides are written independently in the code, and meet in the keys   *)
(* of the state: a route gives them, a column binds them.                  *)
(***************************************************************************)
EXTENDS Naturals

\* ------------------------------------------------------------------- routes
\* needs: the permission without which the route throws 401.  keys: those that
\* the route gives.  search: those of them that the URL may override.
Page(type, view, columns, needs, keys) ==
    [type |-> type, view |-> view, columns |-> columns, needs |-> needs, keys |-> keys,
     search |-> {}, versions |-> FALSE]
\* Registered for an item and its versions.
Versions(pg) == [pg EXCEPT !.versions = TRUE]

\* Mutant: a key that is not in the URL has no default.
SearchOnly(pg, keys) == [pg EXCEPT !.search = keys]

Searchable(pg, keys) == [pg EXCEPT !.search = keys, !.keys = @ \cup keys]

SHH == <<"show", "hide", "hide">>
SSH == <<"show", "show", "hide">>
CSH == <<"collapse", "show", "hide">>
CSS == <<"collapse", "show", "show">>
NoColumns == <<"hide", "hide", "hide">>

\* What every route of the resource area gives; view, type and process of the
\* resource are where it is.
Meta == {"resourceUrl", "processUrl", "platformUrl"}

Comments == {"commentableUrl", "commentCloseUrl"}

ProposalPages ==
    {Page("process", "", SHH, "", {}),
     Page("process", "edit", SHH, "PUT", {}),
     Page("process", "create_proposal", SSH, "POST", {}),
     Versions(Page("proposal", "", SSH, "", {"proposalUrl"})),
     Versions(Page("proposal", "edit", SSH, "POST", {"proposalUrl"})),
     Versions(Page("proposal", "image", SSH, "POST", {"proposalUrl"}))}

IdeaCollectionPages(hasCommentColumn) ==
    ProposalPages \cup
    (IF hasCommentColumn
     THEN {Versions(Page("proposal", "comments", CSS, "", Comments \cup {"proposalUrl"})),
           Versions(Page("comment", "", CSS, "", Comments \cup {"proposalUrl"}))}
     ELSE {})

DebatePages ==
    {Page("process", "", SHH, "", {}),
     Page("process", "create_document", SHH, "POST", {}),
     Versions(Page("document", "", SSH, "", {"documentUrl"})),
     Versions(Page("document", "edit", SSH, "POST", {"documentUrl"})),
     Versions(Page("paragraph", "comments", CSS, "", Comments \cup {"documentUrl"})),
     Versions(Page("comment", "", CSS, "", Comments \cup {"documentUrl"}))}

S1Pages ==
    {Searchable(Page("process", "", NoColumns, "", {}), {"landingPage"}),
     Page("process", "create-proposal", SHH, "POST", {"targetMeeting"}),
     Versions(Page("proposal", "", SSH, "", {"proposalUrl", "meeting"})),
     Versions(Page("proposal", "edit", SSH, "POST", {"proposalUrl", "meeting"})),
     Versions(Page("proposal", "comments", CSS, "", Comments \cup {"proposalUrl", "meeting"})),
     Versions(Page("comment", "", CSS, "", Comments \cup {"proposalUrl"}))}
    \cup {Searchable(Page("process", view, SHH, "", {}), {"meeting"}) :
             view \in {"current", "archive", "next"}}

\* What both years of Mercator register; in 2016 the call of 2015's
\* registerRoutes makes a function that nobody calls, and its lines are repeated.
MercatorPages ==
    {Page("comment", "", CSS, "", Comments \cup {"commentUrl", "proposalUrl"}),
     Searchable(Page("process", "", SHH, "", {}), {"proposalUrl", "focus"}),
     Page("process", "create_proposal", SHH, "POST", {})}

Mercator2015Pages ==
    MercatorPages \cup
    {Page("version", "", SSH, "", {"proposalUrl"}),
     Page("version", "edit", CSH, "POST", {"proposalUrl"}),
     Searchable(Page("version", "blog", SSH, "", {"proposalUrl"}), {"proposalTab"}),
     Page("version", "comments", CSS, "", Comments \cup {"proposalUrl"}),
     Page("version", "comments:section", CSS, "", Comments \cup {"proposalUrl"})}

Mercator2016Pages ==
    MercatorPages \cup
    {Page("proposal", "", SSH, "", {"proposalUrl"}),
     Page("proposal", "moderate", CSH, "winner", {"proposalUrl"}),
     Page("proposal", "edit", CSH, "POST", {"proposalUrl"}),
     Searchable(Page("proposal", "blog", SSH, "", {"proposalUrl"}), {"proposalTab"}),
     Page("proposal", "comments", CSS, "", Comments \cup {"proposalUrl"}),
     Page("proposal", "comments:section", CSS, "", Comments \cup {"proposalUrl"})}

AlexanderplatzPages ==
    LET WithTab(pg) == Searchable(pg, {"tab"})
    IN  {WithTab(Page("process", "", SHH, "", {})),
         WithTab(Page("process", "create_document", SHH, "POST", {})),
         WithTab(Versions(Page("document", "", SSH, "", {"documentUrl"}))),
         WithTab(Versions(Page("document", "edit", SSH, "POST", {"documentUrl"}))),
         WithTab(Versions(Page("paragraph", "comments", CSS, "", Comments \cup {"documentUrl"}))),
         WithTab(Page("process", "proposals", SHH, "", {})),
         WithTab(Page("process", "create_proposal", SHH, "POST", {})),
         WithTab(Versions(Page("proposal", "", SSH, "", {"proposalUrl"}))),
         WithTab(Versions(Page("proposal", "edit", SSH, "POST", {"proposalUrl"}))),
         WithTab(Versions(Page("proposal", "comments", CSS, "", Comments \cup {"proposalUrl"})))}

UserPages ==
    {Page("user", "", SHH, "", {"userUrl"}),
     Page("user", "edit", SHH, "PUT", {"userUrl"})}

ContentPages == {Page("page", "", NoColumns, "", {})}

Apps == {"ideas", "poll", "debate", "s1", "mercator2015", "mercator2016", "alexanderplatz"}

Pages(app) ==
    UserPages \cup ContentPages \cup
    (CASE app = "ideas" -> IdeaCollectionPages(TRUE)
       [] app = "poll" -> IdeaCollectionPages(FALSE)
       [] app = "debate" -> DebatePages
       [] app = "s1" -> S1Pages
       [] app = "mercator2015" -> Mercator2015Pages
       [] app = "mercator2016" -> Mercator2016Pages
       [] app = "alexanderplatz" -> AlexanderplatzPages)

\* The page for each key of a type and a view.
Key(pg) == <<pg.type, pg.view>>
Table(pages) ==
    [key \in {Key(pg) : pg \in pages} |-> CHOOSE pg \in pages : Key(pg) = key]
PageTable == [app \in Apps |-> Table(Pages(app))]
Has(app, key) == key \in DOMAIN PageTable[app]

\* ------------------------------------------------------------------ columns
\* The keys that a column's template needs, and where its links go.
Column(keys, links) == [keys |-> keys, links |-> links]
NoColumn == Column({}, {})
Home == <<"process", "">>

\* Mutant: closing goes to the parent of the page.
CommentColumnToItem(closesTo) == Column(Comments, {<<"item", closesTo[2]>>})

CommentColumn(closesTo) == Column(Comments, {closesTo})

UserColumns(pg) == <<Column({"userUrl"}, {<<"user", "">>}), NoColumn, NoColumn>>

\* No process sets hasImage, so nothing is shown at view "image".
IdeaCollectionColumns(pg, hasCommentColumn) ==
    << Column({"processUrl"}, {Home, <<"process", "create_proposal">>}),
       CASE pg.view = "create_proposal" -> Column({"processUrl"}, {Home})
         [] pg.view = "image" -> NoColumn
         [] OTHER -> Column({"processUrl", "proposalUrl"}, {Home, <<"proposal", "">>}),
       IF hasCommentColumn THEN CommentColumn(<<"proposal", "">>) ELSE NoColumn >>

DebateColumns(pg) ==
    << IF pg.view = "create_document" THEN Column({"processUrl"}, {Home})
       ELSE Column({"processUrl"}, {Home, <<"process", "create_document">>}),
       Column({"processUrl", "documentUrl"}, {Home, <<"document", "">>}),
       CommentColumn(<<"document", "">>) >>

\* The first column is switched by the meeting.
S1ListingColumn ==
    Column({"processUrl", "meeting"}, {<<"process", view>> : view \in {"current", "next", "archive"}})

S1Columns(pg) ==
    << IF pg.view = "create-proposal" THEN Column({"processUrl"}, {Home}) ELSE S1ListingColumn,
       IF pg.view = "edit" THEN Column({"processUrl", "proposalUrl"}, {<<"proposal", "">>})
       ELSE Column({"processUrl", "proposalUrl", "meeting"}, {<<"proposal", "">>}),
       CommentColumn(<<"proposal", "">>) >>

\* The path of a proposal's version is that of the pages; the comment column
\* goes to the parent of what it is given.
Mercator2015Columns(pg) ==
    << IF pg.view = "create_proposal" THEN Column({"platformUrl"}, {Home})
       ELSE Column({"platformUrl"}, {Home}),
       IF pg.view = "edit" THEN Column({"platformUrl", "proposalUrl"}, {<<"version", "">>})
       ELSE Column({"platformUrl", "proposalUrl"}, {Home, <<"version", "">>}),
       CommentColumn(<<"item", "">>) >>

Mercator2016Columns(pg) ==
    << IF pg.view = "create_proposal" THEN Column({"processUrl"}, {Home})
       ELSE Column({"processUrl"}, {Home, <<"process", "create_proposal">>}),
       IF pg.view \in {"edit", "moderate"}
       THEN Column({"processUrl", "proposalUrl"}, {<<"proposal", "">>})
       ELSE Column({"processUrl", "proposalUrl"}, {Home, <<"proposal", "">>}),
       CommentColumn(Home) >>

AlexanderplatzColumns(pg) ==
    LET tab == IF \/ pg.type \in {"document", "paragraph"}
                  \/ pg.type = "process" /\ pg.view \in {"", "create_document"}
               THEN "document" ELSE "proposal"
    IN  << IF pg.view \in {"create_document", "create_proposal"}
           THEN Column({"processUrl"}, {<<"process", pg.view>>})
           ELSE Column({"processUrl", "tab"}, {Home, <<"process", "proposals">>,
                           <<"process", "create_document">>, <<"process", "create_proposal">>}),
           IF tab = "document" THEN Column({"processUrl", "documentUrl"}, {Home, <<"document", "">>})
           ELSE Column({"processUrl", "proposalUrl"}, {<<"process", "proposals">>, <<"proposal", "">>}),
           CommentColumn(<<tab, "">>) >>

Columns(app, pg) ==
    IF pg.type = "user" THEN UserColumns(pg)
    ELSE IF pg.type = "page" THEN <<NoColumn, NoColumn, NoColumn>>
    ELSE CASE app = "ideas" -> IdeaCollectionColumns(pg, TRUE)
           [] app = "poll" -> IdeaCollectionColumns(pg, FALSE)
           [] app = "debate" -> DebateColumns(pg)
           [] app = "s1" -> S1Columns(pg)
           [] app = "mercator2015" -> Mercator2015Columns(pg)
           [] app = "mercator2016" -> Mercator2016Columns(pg)
           [] app = "alexanderplatz" -> AlexanderplatzColumns(pg)

\* Columns that are shown, or collapsed to a link.
Visible(pg) == {i \in 1..3 : pg.columns[i] # "hide"}
================================================================================
