--------------------------------- MODULE Batch ---------------------------------
(* How a browser posts several new resources that refer to each other.  A form  *)
(* gives every new resource a preliminary name and uses these names as parents  *)
(* and references (PreliminaryNames.ts).  deepPost sorts the resources, posts   *)
(* them as one transaction, and gives the results back in the form's order      *)
(* (Http.ts, ResourceUtil.ts, Util.ts).  The server replaces a preliminary name *)
(* by a path as soon as it has created the resource of that name (batchview.py).*)
(* A name is a pair of a sign and the role of the resource: two resources of    *)
(* one form never have the same role, as two names of one tab are never equal.  *)
EXTENDS Naturals, Sequences, FiniteSets, SequencesExt

New(role) == <<"@", role>>
Old(role) == <<"/", role>>
Undefined == <<"", "">>
IsPreliminary(name) == name[1] = "@"

(* A resource to be posted: the name of its first version, the references it    *)
(* holds in fields of their own (single) and in fields that are lists (lists).  *)
Resource(role, parent) ==
    [path |-> New(role), first |-> Undefined, parent |-> parent, single |-> {}, lists |-> {}]
Item(role, parent) == [Resource(role, parent) EXCEPT !.first = New(role \o " 0")]
Version(role, parent, follows) == [Resource(role, parent) EXCEPT !.lists = {follows}]

--------------------------------------------------------------------------------
(* The order in which the resources are posted.                                 *)

\* A list is one value for getReferences and never a preliminary name: only
\* the parent and the references in fields of their own are edges.
References(resource) == resource.single \cup {resource.parent}
Incoming(resource) == {name \in References(resource) : IsPreliminary(name)}
Outgoing(resources, path) == SelectSeq(resources, LAMBDA r : path \in Incoming(r))

\* Mutant: the sources are a queue instead of a stack.
GetNextFirst(dag, resources) ==
    LET next == Head(dag.sources)
        incoming == [path \in DOMAIN dag.incoming |-> dag.incoming[path] \ {next.path}]
        freed == SelectSeq(Outgoing(resources, next.path), LAMBDA r : incoming[r.path] = {})
    IN  [sources |-> Tail(dag.sources) \o freed,
         incoming |-> incoming,
         sorted |-> Append(dag.sorted, next)]

\* One turn of sortDagTopologically: the source that was found last comes next,
\* and what only waited for it becomes a source.
GetNext(dag, resources) ==
    LET next == Last(dag.sources)
        incoming == [path \in DOMAIN dag.incoming |-> dag.incoming[path] \ {next.path}]
        freed == SelectSeq(Outgoing(resources, next.path), LAMBDA r : incoming[r.path] = {})
    IN  [sources |-> Front(dag.sources) \o freed,
         incoming |-> incoming,
         sorted |-> Append(dag.sorted, next)]

SortTopologically(resources) ==
    LET paths == {resources[i].path : i \in DOMAIN resources}
        At(path) == CHOOSE i \in DOMAIN resources : resources[i].path = path
        start == [sources |-> SelectSeq(resources, LAMBDA r : Incoming(r) = {}),
                  incoming |-> [path \in paths |-> Incoming(resources[At(path)])],
                  sorted |-> <<>>]
    IN  FoldLeft(LAMBDA dag, r : IF dag.sources = <<>> THEN dag ELSE GetNext(dag, resources),
                 start, resources).sorted

--------------------------------------------------------------------------------
(* The requests of a transaction and the results of deepPost.                   *)

\* transaction.post: a resource without a name for its first version gets one
\* that nothing else uses.
Names(request) == {request.path, request.first} \ {Undefined}
Mentions(request) ==
    {name \in References(request) \cup request.lists : IsPreliminary(name)}

\* Names that the server cannot resolve when the turn of their request comes.
Unresolved(requests) ==
    {i \in DOMAIN requests :
        ~ (Mentions(requests[i]) \subseteq UNION {Names(requests[j]) : j \in 1 .. i - 1})}

\* Mutant: the results stay in the order of the requests.
InRequestOrder(requests, resources) == requests

\* The results, sorted back to the order in which the form gave the resources.
InOriginalOrder(requests, resources) ==
    LET Place(path) == CHOOSE i \in DOMAIN resources : resources[i].path = path
    IN  SortSeq(requests, LAMBDA a, b : Place(a.path) < Place(b.path))
================================================================================
