-------------------------- MODULE KnowledgeArticle --------------------------
(***************************************************************************)
(* One article of the knowledge base, its revisions and its view counter   *)
(* (knowledge_base/services.py, views.py).                                 *)
(*                                                                         *)
(* Every endpoint loads the article and later writes from that copy: the   *)
(* content endpoints with a full save() of every column, the status        *)
(* endpoints with update_fields. The save is the first statement of its    *)
(* transaction and takes the row's lock, so that a transaction is one step *)
(* here; what other requests committed since the copy was loaded is not    *)
(* looked at. A full save() of a row that was deleted inserts it again.    *)
(*                                                                         *)
(* A content stands for title, excerpt and body; search is the content     *)
(* search_text was built from.                                             *)
(***************************************************************************)
EXTENDS Naturals, FiniteSets

CONSTANTS
  Requests,       \* one endpoint call each (the bound of a run)
  Contents,
  First,          \* the content an article is created with
  MaxDeletes      \* bound: deletions in a run

ASSUME ArticleAssumption ==
  /\ First \in Contents /\ MaxDeletes \in Nat /\ IsFiniteSet(Requests)

VARIABLES
  article,        \* the row: live, content, status, cur, search, views
  revisions,      \* KnowledgeBaseArticleRevision rows: number, content
  votes,          \* the visitor's feedback row, one per visitor
  shown,          \* (ghost) KnowledgeBaseArticleView rows ever inserted
  deletes,        \* deletions so far
  request,        \* per request: where it is, its copy, when it was loaded
  reverted,       \* (ghost) details were saved from a copy older than an edit
  orphaned        \* (ghost) or from one older than a deletion
vars == <<article, revisions, votes, shown, deletes, request, reverted, orphaned>>

Statuses == {"DRAFT", "REVIEW", "PUBLISHED", "ARCHIVED"}
Visible == {"CUSTOMER", "PUBLIC"}
Visibilities == Visible \cup {"INTERNAL"}

\* create_article, in one transaction: the row, revision 1, search_text.
Init ==
  /\ \E status \in Statuses, visibility \in Visibilities :
       article = [live |-> TRUE, content |-> First, status |-> status, cur |-> 1,
                  search |-> First, views |-> 0, visibility |-> visibility]
  /\ revisions = {[number |-> 1, content |-> First]}
  /\ votes = "none"
  /\ shown = 0
  /\ deletes = 0
  /\ request = [r \in Requests |-> [at |-> "idle", copy |-> article, old |-> First,
                                     loaded |-> 0]]
  /\ reverted = FALSE
  /\ orphaned = FALSE

Goto(r, place) == request' = [request EXCEPT ![r].at = place]

\* get_object
Load(r) ==
  /\ request[r].at = "idle" /\ article.live
  /\ request' = [request EXCEPT ![r].at = "loaded", ![r].copy = article,
                              ![r].loaded = deletes]
  /\ UNCHANGED <<article, revisions, votes, shown, deletes, reverted, orphaned>>

Copy(r) == request[r].copy

-----------------------------------------------------------------------------
(* Content: full saves                                                     *)

NextOfCopy(r) == Copy(r).cur + 1

NextNumber(r) ==
  IF revisions = {} THEN 1
  ELSE (CHOOSE v \in revisions : \A w \in revisions : w.number <= v.number).number + 1

\* The row as saved, with a new revision of its content and its search text.
WithRevision(r, content) ==
  [Copy(r) EXCEPT !.content = content, !.cur = NextNumber(r), !.search = content]

NewRevision(r, content) ==
  revisions' = revisions \cup {[number |-> NextNumber(r), content |-> content]}

\* update_article_content: whether there is a revision is decided against the copy.
ChangeContent(r, content) ==
  /\ request[r].at = "loaded" /\ content # Copy(r).content
  /\ article' = WithRevision(r, content)
  /\ NewRevision(r, content)
  /\ Goto(r, "done")
  /\ UNCHANGED <<votes, shown, deletes, reverted, orphaned>>

\* The same with the content left as it is (a category, a tag): all columns
\* are written from the copy.
ChangeDetails(r) ==
  /\ request[r].at = "loaded"
  /\ article' = [Copy(r) EXCEPT !.search = Copy(r).content]
  /\ reverted' = (reverted \/ Copy(r).cur # article.cur)
  /\ orphaned' = (orphaned \/ request[r].loaded # deletes)
  /\ Goto(r, "done")
  /\ UNCHANGED <<revisions, votes, shown, deletes>>

\* restore_revision; publish_article does the same before it publishes when it
\* is given a revision. The revision is read after the article.
PickRevision(r, revision) ==
  /\ request[r].at = "loaded"
  /\ request' = [request EXCEPT ![r].at = "picked", ![r].old = revision.content]
  /\ UNCHANGED <<article, revisions, votes, shown, deletes, reverted, orphaned>>

Restore(r, status) ==
  /\ request[r].at = "picked"
  /\ article' = [WithRevision(r, request[r].old) EXCEPT !.status = status]
  /\ NewRevision(r, request[r].old)
  /\ Goto(r, "done")
  /\ UNCHANGED <<votes, shown, deletes, reverted, orphaned>>

-----------------------------------------------------------------------------
(* publish_article, archive_article, set_status: update_fields              *)

SetStatus(r, status) ==
  /\ request[r].at = "loaded" /\ article.live
  /\ article' = [article EXCEPT !.status = status]
  /\ Goto(r, "done")
  /\ UNCHANGED <<revisions, votes, shown, deletes, reverted, orphaned>>

\* update_fields on a row that is gone raises.
StatusFails(r) ==
  /\ request[r].at = "loaded" /\ ~article.live
  /\ Goto(r, "done")
  /\ UNCHANGED <<article, revisions, votes, shown, deletes, reverted, orphaned>>

\* destroy: the revisions, views and feedback go with the row.
Delete(r) ==
  /\ request[r].at = "loaded" /\ article.live /\ deletes < MaxDeletes
  /\ article' = [article EXCEPT !.live = FALSE]
  /\ revisions' = {}
  /\ votes' = "none"
  /\ deletes' = deletes + 1
  /\ Goto(r, "done")
  /\ UNCHANGED <<shown, reverted, orphaned>>

-----------------------------------------------------------------------------
(* Visitors: the copy was found by _public_article_queryset                *)

IsPublic(row) == row.status = "PUBLISHED" /\ row.visibility \in Visible

\* submit_feedback: update_or_create, the last vote wins.
SubmitFeedback(r, helpful) ==
  /\ request[r].at = "loaded" /\ IsPublic(Copy(r)) /\ article.live
  /\ votes' = helpful
  /\ Goto(r, "done")
  /\ UNCHANGED <<article, revisions, shown, deletes, reverted, orphaned>>

\* record_view: a row, then a counter computed from the copy.
InsertView(r) ==
  /\ request[r].at = "loaded" /\ IsPublic(Copy(r)) /\ article.live
  /\ shown' = shown + 1
  /\ Goto(r, "viewed")
  /\ UNCHANGED <<article, revisions, votes, deletes, reverted, orphaned>>

CountedFromRows(r) == shown + 1

Counted(r) == Copy(r).views + 1

CountView(r) ==
  /\ request[r].at = "viewed"
  /\ article' = IF article.live THEN [article EXCEPT !.views = Counted(r)] ELSE article
  /\ Goto(r, "done")
  /\ UNCHANGED <<revisions, votes, shown, deletes, reverted, orphaned>>

\* The process dies or the request is refused.
GiveUp(r) ==
  /\ request[r].at \in {"loaded", "picked", "viewed"}
  /\ Goto(r, "done")
  /\ UNCHANGED <<article, revisions, votes, shown, deletes, reverted, orphaned>>

Next ==
  \E r \in Requests :
    \/ Load(r)
    \/ \E content \in Contents : ChangeContent(r, content)
    \/ ChangeDetails(r)
    \/ \E revision \in revisions : PickRevision(r, revision)
    \/ \E status \in {Copy(r).status, "PUBLISHED"} : Restore(r, status)
    \/ \E status \in Statuses : SetStatus(r, status)
    \/ StatusFails(r)
    \/ Delete(r)
    \/ \E helpful \in {"yes", "no"} : SubmitFeedback(r, helpful)
    \/ InsertView(r) \/ CountView(r) \/ GiveUp(r)

Spec == Init /\ [][Next]_vars

-----------------------------------------------------------------------------
Rows == [live : BOOLEAN, content : Contents, status : Statuses, cur : Nat,
         search : Contents, views : Nat, visibility : Visibilities]

TypeOK ==
  /\ article \in Rows
  /\ revisions \in SUBSET [number : Nat, content : Contents]
  /\ votes \in {"none", "yes", "no"}
  /\ shown \in Nat /\ deletes \in 0..MaxDeletes
  /\ request \in [Requests -> [at : {"idle", "loaded", "picked", "viewed", "done"},
                               copy : Rows, old : Contents, loaded : 0..MaxDeletes]]
  /\ reverted \in BOOLEAN /\ orphaned \in BOOLEAN

\* The article is always reproducible from its current revision, whatever
\* copies were written over it: the revision is there with the row's content,
\* the search text is that content's, and no two revisions share a number. It
\* is the newest one, unless details were saved from a copy older than an edit.
\* A copy older than a deletion, saved with its content as it was, brings back
\* a row whose revisions are gone: nothing is claimed after that.
Reproducible ==
  (article.live /\ ~orphaned) =>
    /\ [number |-> article.cur, content |-> article.content] \in revisions
    /\ article.search = article.content
    /\ \A v, w \in revisions : v.number = w.number => v = w
    /\ ~reverted => \A v \in revisions : v.number <= article.cur

\* However views cross, none is counted twice.
ViewsNotOvercounted == article.views <= shown

=============================================================================
