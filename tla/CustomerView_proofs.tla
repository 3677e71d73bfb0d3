------------------------- MODULE CustomerView_proofs -------------------------
(***************************************************************************)
(* What a customer is shown, for any number of requests, messages and      *)
(* contents: the articles of the knowledge base and the tree they are      *)
(* sorted into, and the chat.                                              *)
(*                                                                         *)
(* Articles. Copies age, and are written back all the same. What makes     *)
(* that harmless is that revisions are only ever added, so that the        *)
(* current revision of a copy is still there when the copy is saved        *)
(* (CopiesAreKept), unless a deletion came in between; and that a new      *)
(* revision's number is computed from the revisions rather than from the   *)
(* copy (Numbered).                                                        *)
(*                                                                         *)
(* The chat. A page draws no message twice because it knows the id of all  *)
(* it shows (PageInOrder), and it is told of no note because no handler of *)
(* one has a broadcast on the customer's group left (CallsInOrder). It     *)
(* lacks nothing but what it missed because an announced message is always *)
(* shown, on its way in the socket or in an answer, or counted as missed   *)
(* (Accounted). A history is a filtered table drawn message by message:    *)
(* two recursive functions, whose values the lemmas of the second part     *)
(* find by the least number at which they would differ.                    *)
(*                                                                         *)
(* The category tree. The climb from a category reaches the least set that *)
(* has it and all parents (LeastAbove); a new parent closes a loop exactly *)
(* when the category is in that set.                                       *)
(***************************************************************************)
EXTENDS KnowledgeArticle, ChatDelivery, FiniteSetTheorems, SequenceTheorems,
        WellFoundedInduction, TLAPS

-----------------------------------------------------------------------------
(* Articles *)

Numbered ==
  /\ \A v, w \in revisions : v.number = w.number => v = w
  /\ revisions # {} => \E v \in revisions : \A w \in revisions : w.number <= v.number

Current(row) == [number |-> row.cur, content |-> row.content]

Holding == {"loaded", "picked", "viewed"}

\* What a request holds was the article since the last deletion, or is older
\* than that.
CopiesAreKept ==
  \A r \in Requests : request[r].at \in Holding =>
    /\ Copy(r).live
    /\ request[r].loaded <= deletes
    /\ request[r].loaded = deletes =>
         article.live /\ (~orphaned => Current(Copy(r)) \in revisions)

\* A copy never shows more views than there were, and one fewer once its
\* request has inserted its own.
CopiesLag ==
  \A r \in Requests :
    /\ Copy(r).views <= shown
    /\ request[r].at = "viewed" => Copy(r).views < shown

ArticleInv ==
  TypeOK /\ Numbered /\ CopiesAreKept /\ CopiesLag /\ Reproducible /\ ViewsNotOvercounted

\* One request's record.
RequestRecords == [at : {"idle", "loaded", "picked", "viewed", "done"},
                   copy : Rows, old : Contents, loaded : 0..MaxDeletes]

LEMMA InitArticleInv == Init => ArticleInv
<1> SUFFICES ASSUME Init PROVE ArticleInv
  OBVIOUS
<1>1. PICK status \in Statuses, visibility \in Visibilities :
        article = [live |-> TRUE, content |-> First, status |-> status, cur |-> 1,
                   search |-> First, views |-> 0, visibility |-> visibility]
  BY DEF Init
<1>2. article \in Rows
  BY <1>1, ArticleAssumption DEF ArticleAssumption, Rows
<1>3. \A r \in Requests :
        request[r] = [at |-> "idle", copy |-> article, old |-> First, loaded |-> 0]
  BY DEF Init
<1>4. /\ revisions = {[number |-> 1, content |-> First]} /\ shown = 0 /\ deletes = 0
      /\ reverted = FALSE /\ orphaned = FALSE /\ votes = "none"
  BY DEF Init
<1>5. TypeOK
  <2>1. [at |-> "idle", copy |-> article, old |-> First, loaded |-> 0] \in RequestRecords
    BY <1>2, ArticleAssumption DEF ArticleAssumption, RequestRecords
  <2>2. request \in [Requests -> RequestRecords]
    BY <2>1, Zenon DEF Init
  <2>3. /\ revisions \in SUBSET [number : Nat, content : Contents]
        /\ deletes \in 0..MaxDeletes /\ shown \in Nat
    BY <1>4, ArticleAssumption DEF ArticleAssumption
  <2>4. reverted \in BOOLEAN /\ orphaned \in BOOLEAN
    BY <1>4, Zenon
  <2>. QED
    BY <1>2, <1>4, <2>2, <2>3, <2>4 DEF TypeOK, RequestRecords
<1>6. Numbered /\ CopiesAreKept /\ CopiesLag
  BY <1>1, <1>3, <1>4 DEF Numbered, CopiesAreKept, CopiesLag, Copy, Holding
<1>7. Reproducible /\ ViewsNotOvercounted
  BY <1>1, <1>4 DEF Reproducible, ViewsNotOvercounted
<1>. QED
  BY <1>5, <1>6, <1>7 DEF ArticleInv

\* A new revision's number is above every other.
LEMMA NumbersGrow ==
  ASSUME ArticleInv, NEW r \in Requests
  PROVE  /\ NextNumber(r) \in Nat
         /\ \A v \in revisions : v.number < NextNumber(r)
<1> DEFINE newest == CHOOSE v \in revisions : \A w \in revisions : w.number <= v.number
<1>1. CASE revisions = {}
  BY <1>1 DEF NextNumber
<1>2. CASE revisions # {}
  <2>1. newest \in revisions /\ \A w \in revisions : w.number <= newest.number
    BY <1>2, Zenon DEF ArticleInv, Numbered
  <2>2. \A v \in revisions : v.number \in Nat
    BY DEF ArticleInv, TypeOK
  <2>3. NextNumber(r) = newest.number + 1
    BY <1>2, Zenon DEF NextNumber
  <2> HIDE DEF newest
  <2>. QED
    BY <2>1, <2>2, <2>3
<1>. QED
  BY <1>1, <1>2

-----------------------------------------------------------------------------
(* Each step *)

\* A request ends, and everything else that its step leaves alone stays.
LEMMA Ended ==
  ASSUME ArticleInv, NEW r \in Requests, NEW place \in {"picked", "viewed", "done"},
         Goto(r, place)
  PROVE  /\ request' \in [Requests -> RequestRecords]
         /\ request'[r].at = place /\ Copy(r)' = Copy(r)
         /\ request'[r].loaded = request[r].loaded
         /\ \A q \in Requests \ {r} : request'[q] = request[q] /\ Copy(q)' = Copy(q)
<1>1. request \in [Requests -> RequestRecords]
  BY DEF ArticleInv, TypeOK, RequestRecords
<1>2. /\ request'[r] = [request[r] EXCEPT !.at = place]
      /\ \A q \in Requests \ {r} : request'[q] = request[q]
  BY <1>1 DEF Goto
<1>3. request'[r] \in RequestRecords
  <2>1. request[r] \in RequestRecords
    BY <1>1
  <2>. QED
    BY <1>2, <2>1 DEF RequestRecords
<1>. QED
  BY <1>1, <1>2, <1>3 DEF Goto, Copy, RequestRecords

LEMMA RevisionStep ==
  ASSUME ArticleInv, NEW r \in Requests, NEW content \in Contents,
         NEW status \in Statuses,
         request[r].at \in Holding,
         article' = [WithRevision(r, content) EXCEPT !.status = status],
         NewRevision(r, content),
         Goto(r, "done"),
         UNCHANGED <<votes, shown, deletes, reverted, orphaned>>
  PROVE  ArticleInv'
<1> DEFINE n == NextNumber(r)
           new == [number |-> n, content |-> content]
<1>1. n \in Nat /\ \A v \in revisions : v.number < n
  BY NumbersGrow
<1>2. revisions' = revisions \cup {new}
  BY DEF NewRevision
<1>3. Copy(r) \in Rows /\ Copy(r).live /\ Copy(r).views <= shown
  BY DEF ArticleInv, TypeOK, CopiesAreKept, CopiesLag, Copy
<1>4. article' = [Copy(r) EXCEPT !.content = content, !.cur = n, !.search = content,
                                 !.status = status]
  BY <1>3 DEF WithRevision, Rows
<1> HIDE DEF n
<1>5. article' \in Rows /\ new \in [number : Nat, content : Contents]
  BY <1>1, <1>3, <1>4 DEF Rows
<1>6. TypeOK'
  BY <1>2, <1>5, Ended DEF ArticleInv, TypeOK, RequestRecords
<1>7. Numbered'
  <2>1. \A v \in revisions : v.number \in Nat
    BY DEF ArticleInv, TypeOK
  <2>2. \A w \in revisions' : w.number <= new.number
    BY <1>1, <1>2, <2>1
  <2>3. \A v, w \in revisions' : v.number = w.number => v = w
    BY <1>1, <1>2, <2>1 DEF ArticleInv, Numbered
  <2>. QED
    BY <1>2, <2>2, <2>3 DEF Numbered
<1>8. CopiesAreKept'
  <2>1. article'.live /\ request'[r].at \notin Holding
    BY <1>3, <1>4, Ended DEF Rows, Holding
  <2>2. ASSUME NEW q \in Requests \ {r}
        PROVE  request'[q] = request[q] /\ Current(Copy(q))' = Current(Copy(q))
    BY Ended DEF Current
  <2>. QED
    BY <1>2, <2>1, <2>2 DEF ArticleInv, CopiesAreKept, Copy
<1>9. CopiesLag'
  BY Ended DEF ArticleInv, CopiesLag
<1>10. Reproducible'
  <2>1. article'.cur = n /\ article'.content = content /\ article'.search = content
    BY <1>3, <1>4 DEF Rows
  <2>2. new \in revisions' /\ \A w \in revisions' : w.number <= n
    BY <1>1, <1>2 DEF ArticleInv, TypeOK
  <2>. QED
    BY <1>7, <2>1, <2>2 DEF Reproducible, Numbered
<1>11. ViewsNotOvercounted'
  BY <1>3, <1>4 DEF ViewsNotOvercounted, Rows
<1>. QED
  BY <1>6, <1>7, <1>8, <1>9, <1>10, <1>11 DEF ArticleInv

LEMMA LoadStep ==
  ASSUME ArticleInv, NEW r \in Requests, Load(r)
  PROVE  ArticleInv'
<1>1. /\ request'[r] = [request[r] EXCEPT !.at = "loaded", !.copy = article,
                                          !.loaded = deletes]
      /\ \A q \in Requests \ {r} : request'[q] = request[q]
      /\ article.live
      /\ UNCHANGED <<article, revisions, votes, shown, deletes, reverted, orphaned>>
  BY DEF Load, ArticleInv, TypeOK
<1>2. request'[r] \in RequestRecords /\ Copy(r)' = article
  <2>1. request[r] \in RequestRecords /\ article \in Rows /\ deletes \in 0..MaxDeletes
    BY DEF ArticleInv, TypeOK, RequestRecords
  <2>. QED
    BY <1>1, <2>1 DEF RequestRecords, Copy
<1>. /\ request'[r].at = "loaded"
     /\ \A q \in Requests \ {r} :
          Copy(q)' = Copy(q) /\ Current(Copy(q))' = Current(Copy(q))
     /\ Current(Copy(r))' = Current(article)
  BY <1>1, <1>2 DEF Copy, Current, ArticleInv, TypeOK
<1>3. TypeOK'
  BY <1>1, <1>2 DEF Load, ArticleInv, TypeOK, RequestRecords
<1>4. /\ request'[r].loaded = deletes /\ deletes <= deletes
      /\ ~orphaned => Current(article) \in revisions
  BY <1>1 DEF ArticleInv, TypeOK, Reproducible, Current
<1>5. CopiesAreKept'
  <2>1. ASSUME NEW q \in Requests \ {r}, request'[q].at \in Holding
        PROVE  /\ Copy(q)'.live
               /\ request'[q].loaded <= deletes'
               /\ request'[q].loaded = deletes' =>
                    article'.live /\ (~orphaned' => Current(Copy(q))' \in revisions')
    BY <1>1, <2>1 DEF ArticleInv, CopiesAreKept, Copy, Current
  <2>2. deletes \in Nat
    BY DEF ArticleInv, TypeOK
  <2>. QED
    BY <1>1, <1>2, <1>4, <2>1, <2>2 DEF CopiesAreKept
<1>6. CopiesLag'
  BY <1>1, <1>2 DEF ArticleInv, CopiesLag, ViewsNotOvercounted
<1>7. Numbered' /\ Reproducible' /\ ViewsNotOvercounted'
  BY <1>1 DEF ArticleInv, Numbered, Reproducible, ViewsNotOvercounted
<1>. QED
  BY <1>3, <1>5, <1>6, <1>7 DEF ArticleInv

LEMMA DetailsStep ==
  ASSUME ArticleInv, NEW r \in Requests, ChangeDetails(r)
  PROVE  ArticleInv'
<1>1. /\ Copy(r) \in Rows /\ Copy(r).live /\ Copy(r).views <= shown
      /\ request[r].at \in Holding
      /\ request[r].loaded = deletes =>
           article.live /\ (~orphaned => Current(Copy(r)) \in revisions)
  BY DEF ChangeDetails, ArticleInv, TypeOK, CopiesAreKept, CopiesLag, Copy, Holding
<1>2. /\ article' = [Copy(r) EXCEPT !.search = Copy(r).content]
      /\ reverted' = (reverted \/ Copy(r).cur # article.cur)
      /\ orphaned' = (orphaned \/ request[r].loaded # deletes)
      /\ Goto(r, "done")
      /\ UNCHANGED <<revisions, votes, shown, deletes>>
  BY DEF ChangeDetails
<1>3. /\ article' \in Rows /\ article'.live /\ article'.cur = Copy(r).cur
      /\ article'.content = Copy(r).content /\ article'.search = Copy(r).content
      /\ article'.views = Copy(r).views
  BY <1>1, <1>2 DEF Rows
<1>4. TypeOK'
  <2>1. reverted' \in BOOLEAN /\ orphaned' \in BOOLEAN
    BY <1>2, Zenon DEF ArticleInv, TypeOK
  <2>. QED
    BY <1>2, <1>3, <2>1, Ended DEF ArticleInv, TypeOK, RequestRecords
<1>5. Numbered' /\ CopiesLag' /\ ViewsNotOvercounted'
  BY <1>1, <1>2, <1>3, Ended DEF ArticleInv, Numbered, CopiesLag, ViewsNotOvercounted
<1>6. CopiesAreKept'
  BY <1>2, <1>3, Ended DEF ArticleInv, CopiesAreKept, Holding
<1>7. Reproducible'
  <2>1. ASSUME ~orphaned'
        PROVE  ~orphaned /\ article.live /\ Current(Copy(r)) \in revisions
    BY <1>1, <1>2, <2>1
  <2>2. ~orphaned' => Current(Copy(r)) \in revisions'
    BY <1>2, <2>1
  <2>3. ~orphaned' /\ ~reverted' => \A v \in revisions' : v.number <= article'.cur
    BY <1>2, <1>3, <2>1 DEF ArticleInv, Reproducible
  <2>. QED
    BY <1>3, <1>5, <2>2, <2>3 DEF Reproducible, Numbered, Current
<1>. QED
  BY <1>4, <1>5, <1>6, <1>7 DEF ArticleInv

LEMMA DeleteStep ==
  ASSUME ArticleInv, NEW r \in Requests, Delete(r)
  PROVE  ArticleInv'
<1>1. /\ article' = [article EXCEPT !.live = FALSE] /\ article \in Rows
      /\ revisions' = {} /\ votes' = "none"
      /\ deletes' = deletes + 1 /\ deletes \in 0..MaxDeletes /\ deletes < MaxDeletes
      /\ Goto(r, "done")
      /\ UNCHANGED <<shown, reverted, orphaned>>
  BY DEF Delete, ArticleInv, TypeOK
<1>2. article' \in Rows /\ ~article'.live /\ article'.views = article.views
  BY <1>1 DEF Rows
<1>3. TypeOK'
  BY <1>1, <1>2, Ended, ArticleAssumption DEF ArticleInv, TypeOK, RequestRecords, ArticleAssumption
<1>4. Numbered' /\ CopiesLag' /\ Reproducible' /\ ViewsNotOvercounted'
  BY <1>1, <1>2, Ended
     DEF ArticleInv, Numbered, CopiesLag, Reproducible, ViewsNotOvercounted
<1>5. CopiesAreKept'
  <2>1. \A q \in Requests : request[q].loaded \in Nat
    BY DEF ArticleInv, TypeOK
  <2>. QED
    BY <1>1, <2>1, Ended DEF ArticleInv, CopiesAreKept, Holding
<1>. QED
  BY <1>3, <1>4, <1>5 DEF ArticleInv

\* Steps that write no more than the status or the views of the article.
LEMMA LightStep ==
  ASSUME ArticleInv, NEW r \in Requests, NEW status \in Statuses, NEW views \in Nat,
         article' = [article EXCEPT !.status = status, !.views = views],
         views <= shown',
         shown' \in Nat, shown <= shown', votes' \in {"none", "yes", "no"},
         UNCHANGED <<revisions, deletes, reverted, orphaned>>,
         request' \in [Requests -> RequestRecords],
         request[r].at \in Holding,
         request'[r].at = "viewed" => shown < shown',
         Copy(r)' = Copy(r), request'[r].loaded = request[r].loaded,
         \A q \in Requests \ {r} : request'[q] = request[q] /\ Copy(q)' = Copy(q)
  PROVE  ArticleInv'
<1>1. /\ article' \in Rows /\ article'.live = article.live /\ article'.cur = article.cur
      /\ article'.content = article.content /\ article'.search = article.search
      /\ article'.views = views
  BY DEF ArticleInv, TypeOK, Rows
<1>2. TypeOK'
  BY <1>1 DEF ArticleInv, TypeOK, RequestRecords
<1>3. CopiesAreKept'
  BY <1>1 DEF ArticleInv, CopiesAreKept
<1>4. CopiesLag'
  <2>1. \A q \in Requests : Copy(q).views \in Nat /\ shown \in Nat
    BY DEF ArticleInv, TypeOK, Copy, Rows
  <2>. QED
    BY <2>1 DEF ArticleInv, CopiesLag
<1>5. Numbered' /\ Reproducible' /\ ViewsNotOvercounted'
  BY <1>1 DEF ArticleInv, Numbered, Reproducible, ViewsNotOvercounted
<1>. QED
  BY <1>2, <1>3, <1>4, <1>5 DEF ArticleInv

\* The same for a step that ends the request, or is followed by the counter.
LEMMA QuietStep ==
  ASSUME ArticleInv, NEW r \in Requests, NEW place \in {"viewed", "done"},
         Goto(r, place), request[r].at \in Holding,
         NEW status \in Statuses, NEW views \in Nat,
         article' = [article EXCEPT !.status = status, !.views = views],
         views <= shown', place = "viewed" => shown < shown',
         shown' \in Nat, shown <= shown', votes' \in {"none", "yes", "no"},
         UNCHANGED <<revisions, deletes, reverted, orphaned>>
  PROVE  ArticleInv'
<1>1. /\ request' \in [Requests -> RequestRecords]
      /\ request'[r].at = place /\ Copy(r)' = Copy(r)
      /\ request'[r].loaded = request[r].loaded
      /\ \A q \in Requests \ {r} : request'[q] = request[q] /\ Copy(q)' = Copy(q)
  BY Ended
<1>. QED
  BY <1>1, LightStep

\* No step leads out of the invariant.
LEMMA ArticleStep == ArticleInv /\ [Next]_vars => ArticleInv'
<1> SUFFICES ASSUME ArticleInv, [Next]_vars PROVE ArticleInv'
  OBVIOUS
<1>1. /\ article \in Rows /\ shown \in Nat /\ votes \in {"none", "yes", "no"}
      /\ article.status \in Statuses /\ article.views \in Nat /\ article.views <= shown
      /\ article = [article EXCEPT !.status = article.status, !.views = article.views]
      /\ request \in [Requests -> RequestRecords]
  BY DEF ArticleInv, TypeOK, Rows, ViewsNotOvercounted, RequestRecords
<1>2. CASE UNCHANGED vars
  BY <1>2 DEF vars, ArticleInv, TypeOK, Numbered, CopiesAreKept, CopiesLag, Copy,
              Reproducible, ViewsNotOvercounted
<1>3. ASSUME NEW r \in Requests, Load(r) PROVE ArticleInv'
  BY <1>3, LoadStep
<1>4. ASSUME NEW r \in Requests, NEW content \in Contents, ChangeContent(r, content)
      PROVE  ArticleInv'
  <2>1. /\ Copy(r).status \in Statuses /\ request[r].at \in Holding
        /\ WithRevision(r, content)
             = [WithRevision(r, content) EXCEPT !.status = Copy(r).status]
    BY <1>1, <1>4 DEF ChangeContent, Copy, RequestRecords, Rows, Holding, WithRevision
  <2>. QED
    BY <1>4, <2>1, RevisionStep DEF ChangeContent
<1>5. ASSUME NEW r \in Requests, ChangeDetails(r) PROVE ArticleInv'
  BY <1>5, DetailsStep
<1>6. ASSUME NEW r \in Requests, NEW revision \in revisions, PickRevision(r, revision)
      PROVE  ArticleInv'
  <2>1. /\ request'[r] = [request[r] EXCEPT !.at = "picked", !.old = revision.content]
        /\ \A q \in Requests \ {r} : request'[q] = request[q]
        /\ request[r].at = "loaded" /\ revision.content \in Contents
    BY <1>1, <1>6 DEF PickRevision, ArticleInv, TypeOK
  <2>2. request'[r] \in RequestRecords /\ Copy(r)' = Copy(r) /\ request'[r].at = "picked"
        /\ request'[r].loaded = request[r].loaded
    <3>1. request[r] \in RequestRecords
      BY <1>1
    <3>. QED
      BY <2>1, <3>1 DEF RequestRecords, Copy
  <2>3. /\ request' \in [Requests -> RequestRecords]
        /\ \A q \in Requests \ {r} : Copy(q)' = Copy(q)
    BY <1>1, <1>6, <2>1, <2>2 DEF PickRevision, Copy
  <2>4. /\ UNCHANGED <<article, revisions, votes, shown, deletes, reverted, orphaned>>
        /\ request[r].at \in Holding
    BY <1>6 DEF PickRevision, Holding
  <2> DEFINE status == article.status
             views == article.views
  <2>5. /\ status \in Statuses /\ views \in Nat /\ views <= shown'
        /\ article' = [article EXCEPT !.status = status, !.views = views]
        /\ shown' \in Nat /\ shown <= shown' /\ votes' \in {"none", "yes", "no"}
        /\ request'[r].at # "viewed"
    BY <1>1, <2>2, <2>4
  <2> HIDE DEF status, views
  <2>. QED
    <3>1. request'[r].at = "viewed" => shown < shown'
      BY <2>5
    <3>2. \A q \in Requests \ {r} : request'[q] = request[q] /\ Copy(q)' = Copy(q)
      BY <2>1, <2>3
    <3>. QED
      BY <2>2, <2>3, <2>4, <2>5, <3>1, <3>2, LightStep
<1>7. ASSUME NEW r \in Requests, NEW status \in {Copy(r).status, "PUBLISHED"},
             Restore(r, status)
      PROVE  ArticleInv'
  <2>1. /\ status \in Statuses /\ request[r].at \in Holding
        /\ request[r].old \in Contents
    BY <1>1, <1>7 DEF Restore, Copy, RequestRecords, Rows, Holding, Statuses
  <2>. QED
    BY <1>7, <2>1, RevisionStep DEF Restore
<1>8. ASSUME NEW r \in Requests, NEW status \in Statuses, SetStatus(r, status)
      PROVE  ArticleInv'
  <2>1. article' = [article EXCEPT !.status = status, !.views = article.views]
    BY <1>1, <1>8 DEF SetStatus, Rows
  <2> DEFINE status1 == status
             views1 == article.views
  <2>3. /\ Goto(r, "done") /\ request[r].at \in Holding
        /\ UNCHANGED <<revisions, deletes, reverted, orphaned>>
    BY <1>8 DEF SetStatus, Holding
  <2>4. /\ status1 \in Statuses /\ views1 \in Nat /\ views1 <= shown'
        /\ shown' \in Nat /\ shown <= shown' /\ votes' \in {"none", "yes", "no"}
        /\ "done" = "viewed" => shown < shown'
    BY <1>1, <1>8 DEF SetStatus
  <2>5. article' = [article EXCEPT !.status = status1, !.views = views1]
    BY <2>1, Zenon
  <2> HIDE DEF status1, views1
  <2>. QED
    BY <2>3, <2>4, <2>5, QuietStep
<1>9. ASSUME NEW r \in Requests, Delete(r) PROVE ArticleInv'
  BY <1>9, DeleteStep
<1>10. ASSUME NEW r \in Requests, InsertView(r) PROVE ArticleInv'
  <2> DEFINE status1 == article.status
             views1 == article.views
  <2>3. /\ Goto(r, "viewed") /\ request[r].at \in Holding
        /\ UNCHANGED <<revisions, deletes, reverted, orphaned>>
    BY <1>10 DEF InsertView, Holding
  <2>4. /\ status1 \in Statuses /\ views1 \in Nat /\ views1 <= shown'
        /\ article' = [article EXCEPT !.status = status1, !.views = views1]
        /\ shown' \in Nat /\ shown <= shown' /\ votes' \in {"none", "yes", "no"}
        /\ "viewed" = "viewed" => shown < shown'
    BY <1>1, <1>10 DEF InsertView
  <2> HIDE DEF status1, views1
  <2>. QED
    BY <2>3, <2>4, QuietStep
<1>11. ASSUME NEW r \in Requests, CountView(r) PROVE ArticleInv'
  <2>1. Copy(r).views + 1 \in Nat /\ Copy(r).views + 1 <= shown
    BY <1>1, <1>11 DEF CountView, ArticleInv, CopiesLag, Copy, RequestRecords, Rows
  <2>2. article.live => article' = [article EXCEPT !.status = article.status,
                                                   !.views = Copy(r).views + 1]
    BY <1>1, <1>11 DEF CountView, Counted, Rows
  <2> DEFINE status1 == article.status
             views1 == IF article.live THEN Copy(r).views + 1 ELSE article.views
  <2>3. /\ Goto(r, "done") /\ request[r].at \in Holding
        /\ UNCHANGED <<revisions, deletes, reverted, orphaned>>
    BY <1>11 DEF CountView, Holding
  <2>4. /\ status1 \in Statuses /\ views1 \in Nat /\ views1 <= shown'
        /\ shown' \in Nat /\ shown <= shown' /\ votes' \in {"none", "yes", "no"}
        /\ "done" = "viewed" => shown < shown'
    BY <1>1, <1>11, <2>1 DEF CountView
  <2>5. article' = [article EXCEPT !.status = status1, !.views = views1]
    <3>1. CASE article.live
      BY <2>2, <3>1, Zenon
    <3>2. CASE ~article.live
      <4>1. article' = article
        BY <1>11, <3>2 DEF CountView
      <4>. QED
        BY <1>1, <3>2, <4>1, Zenon
    <3>. QED
      BY <3>1, <3>2
  <2> HIDE DEF status1, views1
  <2>. QED
    BY <2>3, <2>4, <2>5, QuietStep
<1>12. ASSUME NEW r \in Requests, StatusFails(r) \/ GiveUp(r) PROVE ArticleInv'
  <2> DEFINE status1 == article.status
             views1 == article.views
  <2>3. /\ Goto(r, "done") /\ request[r].at \in Holding
        /\ UNCHANGED <<revisions, deletes, reverted, orphaned>>
    BY <1>12 DEF StatusFails, GiveUp, Holding
  <2>4. /\ status1 \in Statuses /\ views1 \in Nat /\ views1 <= shown'
        /\ article' = [article EXCEPT !.status = status1, !.views = views1]
        /\ shown' \in Nat /\ shown <= shown' /\ votes' \in {"none", "yes", "no"}
        /\ "done" = "viewed" => shown < shown'
    BY <1>1, <1>12 DEF StatusFails, GiveUp
  <2> HIDE DEF status1, views1
  <2>. QED
    BY <2>3, <2>4, QuietStep
<1>13. ASSUME NEW r \in Requests, NEW helpful \in {"yes", "no"},
              SubmitFeedback(r, helpful)
       PROVE  ArticleInv'
  <2> DEFINE status1 == article.status
             views1 == article.views
  <2>3. /\ Goto(r, "done") /\ request[r].at \in Holding
        /\ UNCHANGED <<revisions, deletes, reverted, orphaned>>
    BY <1>13 DEF SubmitFeedback, Holding
  <2>4. /\ status1 \in Statuses /\ views1 \in Nat /\ views1 <= shown'
        /\ article' = [article EXCEPT !.status = status1, !.views = views1]
        /\ shown' \in Nat /\ shown <= shown' /\ votes' \in {"none", "yes", "no"}
        /\ "done" = "viewed" => shown < shown'
    BY <1>1, <1>13 DEF SubmitFeedback
  <2> HIDE DEF status1, views1
  <2>. QED
    BY <2>3, <2>4, QuietStep
<1>. QED
  BY <1>2, <1>3, <1>4, <1>5, <1>6, <1>7, <1>8, <1>9, <1>10, <1>11, <1>12, <1>13 DEF Next

LEMMA ArticleInvariant == Spec => []ArticleInv
BY InitArticleInv, ArticleStep, PTL DEF Spec

-----------------------------------------------------------------------------
(* The theorems *)

\* Every variable has its type.
THEOREM TypeCorrect == Spec => []TypeOK
BY ArticleInvariant, PTL DEF ArticleInv

\* An article that was not brought back from a deletion by a stale copy always
\* has its current revision, with the content it shows and is searched by.
THEOREM ArticlesAreReproducible == Spec => []Reproducible
BY ArticleInvariant, PTL DEF ArticleInv

\* The counter never runs ahead of the views there were.
THEOREM ViewsAreReal == Spec => []ViewsNotOvercounted
BY ArticleInvariant, PTL DEF ArticleInv

-----------------------------------------------------------------------------
(* Recursive functions *)

\* Every set of numbers has a least one.
LEMMA LeastNumber ==
  ASSUME NEW T \in SUBSET Nat, T # {}
  PROVE  \E n \in T : \A m \in T : n <= m
<1> DEFINE R == {ss \in Nat \X Nat : ss[1] < ss[2]}
<1>1. OpToRel(<, Nat) = R
  BY Zenon DEF OpToRel
<1>2. IsWellFoundedOn(R, Nat)
  BY <1>1, NatLessThanWellFounded
<1>3. \E n \in T : \A m \in T : ~(<<m, n>> \in R)
  <2> HIDE DEF R
  <2>. QED
    BY <1>2, WFMin
<1>4. PICK n \in T : \A m \in T : <<m, n>> \notin R
  BY <1>3
<1>5. ASSUME NEW m \in T PROVE n <= m
  <2>1. <<m, n>> \in R <=> m < n
    OBVIOUS
  <2>. QED
    BY <1>4, <2>1
<1>. QED
  BY <1>5

LEMMA Induction ==
  ASSUME NEW N \in Nat, NEW T, 0 \in T, \A n \in 1..N : n - 1 \in T => n \in T
  PROVE  0..N \subseteq T
<1> SUFFICES ASSUME (0..N) \ T # {} PROVE FALSE
  OBVIOUS
<1>1. PICK n \in (0..N) \ T : \A m \in (0..N) \ T : n <= m
  <2> DEFINE U == (0..N) \ T
  <2>1. U \in SUBSET Nat /\ U # {}
    OBVIOUS
  <2> HIDE DEF U
  <2>2. \E n \in U : \A m \in U : n <= m
    BY <2>1, LeastNumber
  <2>. QED
    BY <2>2 DEF U
<1>2. n \in 1..N /\ n - 1 \in 0..N /\ n - 1 \notin (0..N) \ T
  BY <1>1
<1>. QED
  BY <1>2

\* f comes from b by the steps.
Runs(f, b, step, N, S) ==
  f \in [0..N -> S] /\ f[0] = b /\ \A n \in 1..N : f[n] = step[n][f[n - 1]]
AreSteps(step, N, S) == step \in [1..N -> [S -> S]]

LEMMA Recursion ==
  ASSUME NEW N \in Nat, NEW S, NEW b \in S, NEW step, AreSteps(step, N, S)
  PROVE  \E f : Runs(f, b, step, N, S)
<1>. USE DEF Runs, AreSteps
<1> DEFINE Upto(k) == \E f \in [0..k -> S] :
                        f[0] = b /\ \A n \in 1..k : f[n] = step[n][f[n - 1]]
           T == {k \in 0..N : Upto(k)}
<1>1. 0 \in T
  <2> DEFINE f == [n \in 0..0 |-> b]
  <2>1. f \in [0..0 -> S] /\ f[0] = b
    OBVIOUS
  <2>2. \A n \in 1..0 : f[n] = step[n][f[n - 1]]
    OBVIOUS
  <2> HIDE DEF f
  <2>3. Upto(0)
    BY <2>1, <2>2
  <2>. QED
    BY <2>3
<1>2. ASSUME NEW k \in 1..N, k - 1 \in T PROVE k \in T
  <2>1. PICK f \in [0..(k - 1) -> S] :
          f[0] = b /\ \A n \in 1..(k - 1) : f[n] = step[n][f[n - 1]]
    BY <1>2
  <2> DEFINE g == [n \in 0..k |-> IF n = k THEN step[k][f[k - 1]] ELSE f[n]]
  <2>2. f[k - 1] \in S /\ step[k][f[k - 1]] \in S
    BY <2>1
  <2>3. g \in [0..k -> S] /\ g[0] = b
    BY <2>1, <2>2
  <2>4. ASSUME NEW n \in 1..k PROVE g[n] = step[n][g[n - 1]]
    BY <2>1
  <2> HIDE DEF g
  <2>5. Upto(k)
    BY <2>3, <2>4
  <2>. QED
    BY <2>5
<1> HIDE DEF T
<1>3. 0..N \subseteq T
  BY <1>1, <1>2, Induction
<1>. QED
  BY <1>3 DEF T

\* A filter keeps, of a sequence, the elements of a set.
LEMMA Filtered ==
  ASSUME NEW T, NEW s \in Seq(T), NEW kept
  PROVE  /\ Filter(s, kept) \in Seq(T)
         /\ ToSet(Filter(s, kept)) = ToSet(s) \cap kept
<1> DEFINE N == Len(s)
           S == Seq(T)
           empty == <<>>
           Upto == CHOOSE f : f = [n \in 0..N |->
                     IF n = 0 THEN empty
                     ELSE IF s[n] \in kept THEN Append(f[n - 1], s[n]) ELSE f[n - 1]]
           step == [n \in 1..N |-> [x \in S |->
                     IF s[n] \in kept THEN Append(x, s[n]) ELSE x]]
<1>1. Filter(s, kept) = Upto[N]
  BY DEF Filter
<1>2. N \in Nat /\ DOMAIN s = 1..N /\ \A n \in 1..N : s[n] \in T
  OBVIOUS
<1>3. AreSteps(step, N, S) /\ empty \in S
  BY <1>2 DEF AreSteps
<1> HIDE DEF N, S, empty, Upto
<1>4. PICK g \in [0..N -> S] :
        g[0] = empty /\ \A n \in 1..N : g[n] = step[n][g[n - 1]]
  <2> HIDE DEF step
  <2>1. \E g : Runs(g, empty, step, N, S)
    BY <1>2, <1>3, Recursion
  <2>. QED
    BY <2>1 DEF Runs
<1>5. g = [n \in 0..N |->
            IF n = 0 THEN empty
            ELSE IF s[n] \in kept THEN Append(g[n - 1], s[n]) ELSE g[n - 1]]
  <2>1. ASSUME NEW n \in 1..N
        PROVE  g[n] = IF s[n] \in kept THEN Append(g[n - 1], s[n]) ELSE g[n - 1]
    <3>1. n - 1 \in 0..N
      BY <1>2
    <3>2. g[n - 1] \in S
      BY <3>1
    <3>. QED
      BY <1>4, <3>2
  <2> DEFINE h == [n \in 0..N |->
                    IF n = 0 THEN empty
                    ELSE IF s[n] \in kept THEN Append(g[n - 1], s[n]) ELSE g[n - 1]]
  <2>2. \A n \in 0..N : n = 0 \/ n \in 1..N
    BY <1>2
  <2>3. \A n \in 0..N : g[n] = h[n]
    BY <1>2, <1>4, <2>1, <2>2
  <2>4. DOMAIN h = 0..N /\ DOMAIN g = 0..N /\ h = [n \in 0..N |-> h[n]]
    OBVIOUS
  <2> HIDE DEF h
  <2>5. g = h
    BY <2>3, <2>4
  <2>. QED
    BY <2>5 DEF h
<1>6. Upto = [n \in 0..N |->
               IF n = 0 THEN empty
               ELSE IF s[n] \in kept THEN Append(Upto[n - 1], s[n]) ELSE Upto[n - 1]]
  BY <1>5, Zenon DEF Upto
<1> HIDE DEF step
<1> DEFINE Good == {n \in 0..N : 
                      /\ Upto[n] \in Seq(T)
                      /\ ToSet(Upto[n]) = {s[i] : i \in 1..n} \cap kept}
<1>7. 0 \in Good
  BY <1>2, <1>6 DEF ToSet, empty
<1>8. ASSUME NEW n \in 1..N, n - 1 \in Good PROVE n \in Good
  <2>1. Upto[n] = IF s[n] \in kept THEN Append(Upto[n - 1], s[n]) ELSE Upto[n - 1]
    <3>1. n \in 0..N /\ n # 0
      BY <1>2
    <3>. QED
      BY <1>6, <3>1
  <2>2. {s[i] : i \in 1..n} = {s[i] : i \in 1..(n - 1)} \cup {s[n]}
    OBVIOUS
  <2> DEFINE u == Upto[n - 1]
  <2>3. u \in Seq(T) /\ ToSet(u) = {s[i] : i \in 1..(n - 1)} \cap kept
    BY <1>8
  <2> HIDE DEF u
  <2>4. ToSet(Append(u, s[n])) = ToSet(u) \cup {s[n]} /\ Append(u, s[n]) \in Seq(T)
    BY <1>2, <2>3 DEF ToSet
  <2>. QED
    <3>1. Upto[n] \in Seq(T)
      BY <2>1, <2>3, <2>4 DEF u
    <3>2. ToSet(Upto[n]) = {s[i] : i \in 1..n} \cap kept
      BY <2>1, <2>2, <2>3, <2>4 DEF u
    <3>. QED
      BY <3>1, <3>2
<1> HIDE DEF Good
<1>9. N \in Good
  BY <1>2, <1>7, <1>8, Induction
<1>. QED
  <2>1. Upto[N] \in Seq(T) /\ ToSet(Upto[N]) = {s[i] : i \in 1..N} \cap kept
    BY <1>9 DEF Good
  <2>2. ToSet(s) = {s[i] : i \in 1..N}
    BY <1>2 DEF ToSet
  <2>. QED
    BY <1>1, <2>1, <2>2

-----------------------------------------------------------------------------
(* Sequences as sets *)

LEMMA ToSetFacts ==
  ASSUME NEW S, NEW s \in Seq(S)
  PROVE  /\ ToSet(s) \subseteq S
         /\ \A e \in S : Append(s, e) \in Seq(S) /\ ToSet(Append(s, e)) = ToSet(s) \cup {e}
         /\ s # <<>> => /\ Head(s) \in S /\ Tail(s) \in Seq(S)
                        /\ ToSet(s) = {Head(s)} \cup ToSet(Tail(s))
<1>1. Len(s) \in Nat /\ DOMAIN s = 1..Len(s) /\ \A i \in 1..Len(s) : s[i] \in S
  OBVIOUS
<1>2. ASSUME NEW e \in S
      PROVE  Append(s, e) \in Seq(S) /\ ToSet(Append(s, e)) = ToSet(s) \cup {e}
  <2> DEFINE t == Append(s, e)
             n == Len(s) + 1
  <2>1. /\ t \in Seq(S) /\ DOMAIN t = (1..Len(s)) \cup {n} /\ t[n] = e
        /\ \A i \in 1..Len(s) : t[i] = s[i]
    BY <1>1, <1>2
  <2>2. ToSet(s) = {s[i] : i \in 1..Len(s)} /\ ToSet(t) = {t[i] : i \in (1..Len(s)) \cup {n}}
    BY <1>1, <2>1 DEF ToSet
  <2> HIDE DEF t, n
  <2>3. ToSet(t) = ToSet(s) \cup {e}
    BY <2>1, <2>2
  <2>. QED
    BY <2>1, <2>3 DEF t
<1>3. ASSUME s # <<>>
      PROVE  /\ Head(s) \in S /\ Tail(s) \in Seq(S)
             /\ ToSet(s) = {Head(s)} \cup ToSet(Tail(s))
  <2>1. Len(s) # 0
    BY <1>3, EmptySeq
  <2>2. /\ Tail(s) \in Seq(S) /\ Len(Tail(s)) = Len(s) - 1 /\ Head(s) = s[1]
        /\ \A i \in 1..Len(s)-1 : Tail(s)[i] = s[i + 1]
        /\ DOMAIN Tail(s) = 1..Len(s)-1
    BY <1>3
  <2>3. \A i \in 1..Len(s) : i = 1 \/ (i - 1 \in 1..Len(s)-1 /\ s[i] = Tail(s)[i - 1])
    BY <1>1, <2>2
  <2>4. \A i \in 1..Len(s)-1 : i + 1 \in 1..Len(s)
    BY <1>1
  <2>5. ToSet(s) = {s[i] : i \in 1..Len(s)} /\ ToSet(Tail(s)) = {Tail(s)[i] : i \in 1..Len(s)-1}
    BY <1>1, <2>2 DEF ToSet
  <2>6. ToSet(s) \subseteq {Head(s)} \cup ToSet(Tail(s))
    BY <2>2, <2>3, <2>5
  <2>7. {Head(s)} \cup ToSet(Tail(s)) \subseteq ToSet(s)
    BY <1>1, <2>1, <2>2, <2>4, <2>5
  <2>. QED
    BY <1>1, <2>1, <2>2, <2>6, <2>7
<1>. QED
  BY <1>1, <1>2, <1>3 DEF ToSet

LEMMA ToSetEmpty == ToSet(<<>>) = {}
BY DEF ToSet

Hidden == {"note", "operate"}

\* How far a call has come, with its row and what it has still to do.
CallsInOrder ==
  \A c \in Calls :
    /\ c \in Stored => pc[c] \in {"working", "done", "died"} /\ kind[c] # "operate"
    /\ pc[c] = "clear" => kind[c] # "operate"
    /\ pc[c] = "working" =>
         todo[c] # <<>> /\ (kind[c] # "operate" => c \in Stored)
    /\ ToSet(todo[c]) \subseteq ToSet(Effects(kind[c]))

\* A page: it waits for uploads only, and knows the id of all it shows.
PageInOrder(w) ==
  /\ w \in Pages
  /\ \A c \in ToSet(w.shown) \cup ToSet(w.inbox) \cup ToSet(w.read) :
       c # Blank => kind[c] \notin Hidden
  /\ \A c \in w.waiting : kind[c] \notin Hidden
  /\ \A i \in DOMAIN w.shown : w.shown[i] # Blank => id[w.shown[i]] \in w.ids
  /\ \A i, j \in DOMAIN w.shown :
       i # j /\ w.shown[i] # Blank /\ w.shown[j] # Blank => id[w.shown[i]] # id[w.shown[j]]

\* Where an announced message may be: shown, or on one of the two ways to the
\* page, or out of its reach.
Accounted(c, w, out) ==
  \/ c \in ToSet(w.inbox) \/ id[c] \in w.ids \/ c \in out
  \/ w.history = "asked" \/ (w.history = "read" /\ c \in ToSet(w.read))

ChatInv ==
  /\ ChatTypes /\ CallsInOrder /\ OneRowPerId /\ RatingTold
  /\ PageInOrder(widget)
  /\ \A c \in Calls : Announced(c) => Accounted(c, widget, missed)
-----------------------------------------------------------------------------
(* Drawing *)

Typed == kind \in [Calls -> Kinds] /\ id \in [Calls -> Ids]

\* The page has drawn more, and is otherwise the same.
Richer(v, w) ==
  /\ w.ids \subseteq v.ids /\ v.socket = w.socket /\ v.inbox = w.inbox
  /\ v.history = w.history /\ v.read = w.read /\ v.waiting = w.waiting

\* What changes no bubble leaves the page in order.
LEMMA ShowsTheSame ==
  ASSUME NEW w, PageInOrder(w), NEW v \in Pages, v.shown = w.shown, w.ids \subseteq v.ids,
         \A c \in ToSet(v.inbox) \cup ToSet(v.read) : c # Blank => kind[c] \notin Hidden,
         \A c \in v.waiting : kind[c] \notin Hidden
  PROVE  PageInOrder(v)
BY DEF PageInOrder

\* A bubble for nothing, or for a message not drawn yet.
LEMMA ShowsOneMore ==
  ASSUME Typed, NEW w, PageInOrder(w), NEW v \in Pages, NEW c \in Calls \cup {Blank},
         c # Blank => kind[c] \notin Hidden /\ id[c] \notin w.ids /\ id[c] \in v.ids,
         v.shown = Append(w.shown, c), w.ids \subseteq v.ids,
         v.read = w.read, v.waiting = w.waiting, ToSet(v.inbox) \subseteq ToSet(w.inbox)
  PROVE  PageInOrder(v)
<1> DEFINE s == w.shown
           n == Len(s) + 1
<1>1. s \in Seq(Calls \cup {Blank}) /\ Len(s) \in Nat /\ DOMAIN s = 1..Len(s)
  BY DEF PageInOrder, Pages
<1>2. /\ DOMAIN v.shown = (1..Len(s)) \cup {n} /\ v.shown[n] = c
      /\ \A i \in 1..Len(s) : v.shown[i] = s[i]
      /\ ToSet(v.shown) = ToSet(s) \cup {c}
  BY <1>1, ToSetFacts
<1>3. \A i \in 1..Len(s) : s[i] # Blank => id[s[i]] \in w.ids
  BY <1>1 DEF PageInOrder
<1>4. \A i, j \in 1..Len(s) : i # j /\ s[i] # Blank /\ s[j] # Blank => id[s[i]] # id[s[j]]
  BY <1>1 DEF PageInOrder
<1> HIDE DEF s, n
<1>5. \A i \in DOMAIN v.shown : v.shown[i] # Blank => id[v.shown[i]] \in v.ids
  BY <1>2, <1>3
<1>6. \A i, j \in DOMAIN v.shown :
        i # j /\ v.shown[i] # Blank /\ v.shown[j] # Blank => id[v.shown[i]] # id[v.shown[j]]
  <2> SUFFICES ASSUME NEW i \in DOMAIN v.shown, NEW j \in DOMAIN v.shown, i # j,
                      v.shown[i] # Blank, v.shown[j] # Blank
               PROVE  id[v.shown[i]] # id[v.shown[j]]
    OBVIOUS
  <2>1. CASE i = n
    <3>1. j \in 1..Len(s) /\ v.shown[i] = c /\ v.shown[j] = s[j]
      BY <1>2, <2>1
    <3>. QED
      BY <1>3, <3>1
  <2>2. CASE j = n
    <3>1. i \in 1..Len(s) /\ v.shown[j] = c /\ v.shown[i] = s[i]
      BY <1>2, <2>2
    <3>. QED
      BY <1>3, <3>1
  <2>3. CASE i # n /\ j # n
    BY <1>2, <1>4, <2>3
  <2>. QED
    BY <2>1, <2>2, <2>3
<1>7. \A d \in ToSet(v.shown) \cup ToSet(v.inbox) \cup ToSet(v.read) :
        d # Blank => kind[d] \notin Hidden
  BY <1>2 DEF PageInOrder, s
<1>. QED
  BY <1>5, <1>6, <1>7 DEF PageInOrder

\* renderIncoming draws a message once, and knows it afterwards.
LEMMA RenderedInOrder ==
  ASSUME Typed, NEW w, PageInOrder(w), NEW c \in Calls, kind[c] \notin Hidden
  PROVE  /\ PageInOrder(Rendered(w, c)) /\ Richer(Rendered(w, c), w)
         /\ id[c] \in Rendered(w, c).ids
<1>1. CASE id[c] \in w.ids
  BY <1>1 DEF Rendered, Richer
<1>2. CASE id[c] \notin w.ids
  <2> DEFINE drawn == Append(w.shown, c)
             ids == w.ids \cup {id[c]}
             v == [w EXCEPT !.ids = ids, !.shown = drawn]
  <2>1. Rendered(w, c) = v
    BY <1>2, Zenon DEF Rendered
  <2>2. drawn \in Seq(Calls \cup {Blank}) /\ ids \in SUBSET Ids /\ w \in Pages
    BY DEF PageInOrder, Pages, Typed
  <2>3. w.ids \subseteq ids /\ id[c] \in ids /\ drawn = Append(w.shown, c)
    OBVIOUS
  <2> HIDE DEF drawn, ids
  <2>4. /\ v \in Pages /\ v.shown = drawn /\ v.ids = ids
        /\ v.socket = w.socket /\ v.inbox = w.inbox /\ v.history = w.history
        /\ v.read = w.read /\ v.waiting = w.waiting
    BY <2>2 DEF Pages
  <2> HIDE DEF v
  <2>5. PageInOrder(v)
    BY <1>2, <2>3, <2>4, ShowsOneMore, ChatAssumption DEF ChatAssumption
  <2>. QED
    BY <2>1, <2>3, <2>4, <2>5 DEF Richer
<1>. QED
  BY <1>1, <1>2

\* loadHistory draws all of the answer, each message once.
LEMMA AllRenderedInOrder ==
  ASSUME Typed, NEW w, PageInOrder(w), NEW messages \in Seq(Calls),
         \A c \in ToSet(messages) : kind[c] \notin Hidden
  PROVE  /\ PageInOrder(AllRendered(w, messages)) /\ Richer(AllRendered(w, messages), w)
         /\ \A c \in ToSet(messages) : id[c] \in AllRendered(w, messages).ids
<1> DEFINE N == Len(messages)
           S == {x \in Pages : PageInOrder(x) /\ Richer(x, w)}
           After == CHOOSE f : f = [n \in 0..N |->
                      IF n = 0 THEN w ELSE Rendered(f[n - 1], messages[n])]
           step == [n \in 1..N |-> [x \in S |-> Rendered(x, messages[n])]]
<1>1. AllRendered(w, messages) = After[N]
  BY DEF AllRendered
<1>2. /\ N \in Nat /\ DOMAIN messages = 1..N
      /\ \A n \in 1..N : messages[n] \in Calls /\ kind[messages[n]] \notin Hidden
  BY DEF ToSet
<1>3. ASSUME NEW n \in 1..N, NEW x \in S
      PROVE  Rendered(x, messages[n]) \in S /\ id[messages[n]] \in Rendered(x, messages[n]).ids
             /\ x.ids \subseteq Rendered(x, messages[n]).ids
  <2> DEFINE v == Rendered(x, messages[n])
  <2>1. PageInOrder(v) /\ Richer(v, x) /\ id[messages[n]] \in v.ids
    BY <1>2, RenderedInOrder
  <2> HIDE DEF v
  <2>2. v \in Pages /\ Richer(v, w)
    BY <2>1 DEF PageInOrder, Richer
  <2>. QED
    BY <2>1, <2>2 DEF v, Richer
<1>4. AreSteps(step, N, S) /\ w \in S
  BY <1>3 DEF AreSteps, Richer, PageInOrder
<1> HIDE DEF N, S, After
<1>5. PICK g : Runs(g, w, step, N, S)
  <2> HIDE DEF step
  <2>. QED
    BY <1>2, <1>4, Recursion
<1>6. g = [n \in 0..N |-> IF n = 0 THEN w ELSE Rendered(g[n - 1], messages[n])]
  <2>1. ASSUME NEW n \in 1..N PROVE g[n] = Rendered(g[n - 1], messages[n])
    <3>1. n - 1 \in 0..N
      BY <1>2
    <3>2. g[n - 1] \in S
      BY <1>5, <3>1 DEF Runs
    <3>. QED
      BY <1>5, <3>2 DEF Runs
  <2> DEFINE h == [n \in 0..N |-> IF n = 0 THEN w ELSE Rendered(g[n - 1], messages[n])]
  <2>2. \A n \in 0..N : n = 0 \/ n \in 1..N
    BY <1>2
  <2>3. \A n \in 0..N : g[n] = h[n]
    BY <1>2, <1>5, <2>1, <2>2 DEF Runs
  <2>4. DOMAIN h = 0..N /\ DOMAIN g = 0..N /\ h = [n \in 0..N |-> h[n]]
        /\ g = [n \in 0..N |-> g[n]]
    BY <1>5 DEF Runs
  <2> HIDE DEF h
  <2>5. g = h
    BY <2>3, <2>4
  <2>. QED
    BY <2>5 DEF h
<1>7. After = [n \in 0..N |-> IF n = 0 THEN w ELSE Rendered(After[n - 1], messages[n])]
  BY <1>6, Zenon DEF After
<1> HIDE DEF step
<1> DEFINE Good == {n \in 0..N : /\ After[n] \in S
                                 /\ \A i \in 1..n : id[messages[i]] \in After[n].ids}
<1>8. 0 \in Good
  BY <1>2, <1>4, <1>7
<1>9. ASSUME NEW n \in 1..N, n - 1 \in Good PROVE n \in Good
  <2>1. n \in 0..N /\ n # 0 /\ \A i \in 1..n : i = n \/ i \in 1..(n - 1)
    BY <1>2
  <2>2. After[n] = Rendered(After[n - 1], messages[n])
    BY <1>7, <2>1
  <2>3. After[n - 1] \in S /\ \A i \in 1..(n - 1) : id[messages[i]] \in After[n - 1].ids
    BY <1>9
  <2>4. /\ After[n] \in S /\ id[messages[n]] \in After[n].ids
        /\ After[n - 1].ids \subseteq After[n].ids
    BY <1>3, <2>2, <2>3
  <2>. QED
    BY <2>1, <2>3, <2>4
<1> HIDE DEF Good
<1>10. N \in Good
  <2>1. 0..N \subseteq Good
    BY <1>2, <1>8, <1>9, Induction
  <2>. QED
    BY <1>2, <2>1
<1>11. After[N] \in S /\ \A i \in 1..N : id[messages[i]] \in After[N].ids
  BY <1>10 DEF Good
<1>. QED
  BY <1>1, <1>2, <1>11 DEF S, ToSet

-----------------------------------------------------------------------------
(* Steps of the page *)

LEMMA EffectFacts ==
  ASSUME NEW k \in Kinds
  PROVE  /\ Effects(k) \in Seq({"ops", "chat", "rate"}) /\ Effects(k) # <<>>
         /\ "chat" \in ToSet(Effects(k)) => k \notin Hidden
         /\ "rate" \in ToSet(Effects(k)) => k = "rating"
<1>1. /\ ToSet(<<"ops">>) = {"ops"} /\ ToSet(<<"chat">>) = {"chat"}
      /\ ToSet(<<"ops", "chat">>) = {"ops", "chat"}
      /\ ToSet(<<"chat", "rate">>) = {"chat", "rate"}
  BY DEF ToSet
<1>2. Effects(k) = IF k \in {"note", "operate"} THEN <<"ops">>
                   ELSE IF k = "automation" THEN <<"ops", "chat">>
                   ELSE IF k = "rating" THEN <<"chat", "rate">> ELSE <<"chat">>
  BY DEF Effects, NoteEffects, AutomationEffects, UploadEffects, ReplyEffects,
         RatingEffects, OperateEffects
<1>3. /\ <<"ops">> \in Seq({"ops", "chat", "rate"}) /\ <<"ops">> # <<>>
      /\ <<"chat">> \in Seq({"ops", "chat", "rate"}) /\ <<"chat">> # <<>>
      /\ <<"ops", "chat">> \in Seq({"ops", "chat", "rate"}) /\ <<"ops", "chat">> # <<>>
      /\ <<"chat", "rate">> \in Seq({"ops", "chat", "rate"}) /\ <<"chat", "rate">> # <<>>
  OBVIOUS
<1>4. CASE k \in {"note", "operate"}
  BY <1>1, <1>2, <1>3, <1>4
<1>5. CASE k = "automation"
  BY <1>1, <1>2, <1>3, <1>5 DEF Hidden
<1>6. CASE k = "rating"
  BY <1>1, <1>2, <1>3, <1>6 DEF Hidden
<1>7. CASE k \notin {"note", "operate", "automation", "rating"}
  BY <1>1, <1>2, <1>3, <1>7 DEF Hidden
<1>. QED
  BY <1>4, <1>5, <1>6, <1>7

LEMMA PageFacts ==
  ASSUME ChatInv
  PROVE  /\ Typed /\ PageInOrder(widget) /\ widget \in Pages /\ missed \subseteq Calls
         /\ rows \in Seq(Calls) /\ Stored \subseteq Calls
         /\ loads \in 0..MaxLoads /\ faults \in 0..MaxFaults /\ selects \in 0..MaxSelects
         /\ desk \in Desks
<1>1. rows \in Seq(Calls)
  BY DEF ChatInv, ChatTypes
<1>2. Stored \subseteq Calls
  BY <1>1, ToSetFacts DEF Stored
<1>. QED
  BY <1>1, <1>2 DEF ChatInv, ChatTypes, Typed

\* A step that leaves the server alone.
LEMMA PageChanges ==
  ASSUME ChatInv, UNCHANGED server, PageInOrder(widget'), missed' \subseteq Calls,
         desk' \in Desks,
         loads' \in 0..MaxLoads, faults' \in 0..MaxFaults, selects' \in 0..MaxSelects,
         \A c \in Calls : Announced(c) => Accounted(c, widget', missed')
  PROVE  ChatInv'
<1>1. UNCHANGED <<kind, id, pc, todo, rows, rating>>
  BY DEF server
<1>2. widget' \in Pages
  BY DEF PageInOrder
<1>3. ChatTypes'
  BY <1>1, <1>2 DEF ChatInv, ChatTypes
<1>4. CallsInOrder' /\ OneRowPerId' /\ RatingTold'
  BY <1>1 DEF ChatInv, CallsInOrder, OneRowPerId, RatingTold, Stored
<1>5. PageInOrder(widget)'
  BY <1>1 DEF PageInOrder
<1>6. \A c \in Calls : Announced(c)' => Accounted(c, widget, missed)'
  BY <1>1 DEF Announced, Accounted, Public, Stored
<1>. QED
  BY <1>3, <1>4, <1>5, <1>6 DEF ChatInv

\* The same for a step that draws nothing and loses nothing.
LEMMA QuietPage ==
  ASSUME ChatInv, UNCHANGED <<server, desk, loads, selects>>,
         widget' \in Pages, widget'.shown = widget.shown, widget'.ids = widget.ids,
         widget'.waiting = widget.waiting,
         \A c \in ToSet(widget'.inbox) \cup ToSet(widget'.read) :
           c # Blank => kind[c] \notin Hidden,
         missed' \subseteq Calls, faults' \in 0..MaxFaults,
         \A c \in Calls : Announced(c) => Accounted(c, widget', missed')
  PROVE  ChatInv'
<1>1. PageInOrder(widget')
  <2>1. PageInOrder(widget)
    BY PageFacts
  <2>. QED
    BY <2>1, ShowsTheSame DEF PageInOrder
<1>. QED
  BY <1>1, PageFacts, PageChanges

LEMMA InitChatInv == ChatInit => ChatInv
<1> SUFFICES ASSUME ChatInit PROVE ChatInv
  OBVIOUS
<1>1. PICK w \in Workloads :
        kind = [c \in Calls |-> w[c].kind] /\ id = [c \in Calls |-> w[c].id]
  BY DEF ChatInit
<1>2. Typed
  <2>1. w \in [Calls -> [kind : Kinds, id : Ids]]
    BY ChatAssumption DEF ChatAssumption
  <2>. QED
    BY <1>1, <2>1 DEF Typed
<1>3. /\ pc = [c \in Calls |-> "idle"] /\ todo = [c \in Calls |-> <<>>]
      /\ rows = <<>> /\ rating = None /\ widget = NoPage
      /\ desk = [socket |-> "down", inbox |-> <<>>]
      /\ missed = {} /\ loads = 0 /\ faults = 0 /\ selects = 0
  BY DEF ChatInit
<1>4. /\ Stored = {} /\ DOMAIN <<>> = {} /\ ToSet(<<>>) = {}
      /\ \A S : <<>> \in Seq(S)
  BY <1>3, ToSetEmpty, EmptySeq DEF Stored
<1>5. widget \in Pages
  BY <1>3, <1>4 DEF NoPage, Pages, Sockets
<1>6. PageInOrder(widget)
  BY <1>3, <1>4, <1>5 DEF NoPage, PageInOrder
<1>7. ChatTypes
  <2>1. pc \in [Calls -> {"idle", "sent", "clear", "working", "done", "refused", "died"}]
    BY <1>3
  <2>2. todo \in [Calls -> Seq({"ops", "chat", "rate"})]
    BY <1>3, <1>4
  <2>3. desk \in Desks
    BY <1>3, <1>4 DEF Desks, Sockets
  <2>. QED
    BY <1>2, <1>3, <1>4, <1>5, <2>1, <2>2, <2>3, ChatAssumption
       DEF ChatTypes, Typed, ChatAssumption
<1>8. CallsInOrder /\ OneRowPerId /\ RatingTold
  BY <1>3, <1>4 DEF CallsInOrder, OneRowPerId, RatingTold
<1>9. \A c \in Calls : ~Announced(c)
  BY <1>4 DEF Announced
<1>. QED
  BY <1>6, <1>7, <1>8, <1>9 DEF ChatInv

LEMMA StartChatStep == ASSUME ChatInv, StartChat PROVE ChatInv'
<1>1. /\ widget' = [socket |-> "connecting", inbox |-> <<>>, history |-> "asked",
                    read |-> <<>>, shown |-> <<>>, ids |-> {}, waiting |-> {}]
      /\ loads' \in 0..MaxLoads
      /\ UNCHANGED <<server, desk, missed, faults, selects>>
  <2>1. widget' = [NoPage EXCEPT !.socket = "connecting", !.history = "asked"]
    BY DEF StartChat
  <2>2. loads' \in 0..MaxLoads
    BY PageFacts, ChatAssumption DEF StartChat, ChatAssumption
  <2>3. UNCHANGED <<server, desk, missed, faults, selects>>
    BY DEF StartChat, server
  <2>. QED
    BY <2>1, <2>2, <2>3 DEF NoPage
<1>2. /\ DOMAIN <<>> = {} /\ ToSet(<<>>) = {} /\ \A S : <<>> \in Seq(S)
  BY ToSetEmpty, EmptySeq
<1>3. widget' \in Pages
  BY <1>1, <1>2 DEF Pages, Sockets
<1>4. PageInOrder(widget')
  BY <1>1, <1>2, <1>3 DEF PageInOrder
<1>5. \A c \in Calls : Accounted(c, widget', missed')
  BY <1>1 DEF Accounted
<1>. QED
  BY <1>1, <1>4, <1>5, PageFacts, PageChanges

\* The socket opens, joins its group, or is opened again.
LEMMA SocketStep == ASSUME ChatInv, Accept \/ JoinGroup \/ Reconnect PROVE ChatInv'
<1>1. PICK s \in Sockets : widget' = [widget EXCEPT !.socket = s]
  BY DEF Accept, JoinGroup, Reconnect, Sockets
<1>2. /\ widget' \in Pages /\ widget'.shown = widget.shown /\ widget'.ids = widget.ids
      /\ widget'.waiting = widget.waiting /\ widget'.inbox = widget.inbox
      /\ widget'.read = widget.read /\ widget'.history = widget.history
  BY <1>1, PageFacts DEF Pages
<1>3. UNCHANGED <<server, desk, missed, loads, faults, selects>>
  BY DEF Accept, JoinGroup, Reconnect
<1>4. \A c \in Calls : Announced(c) => Accounted(c, widget', missed')
  BY <1>2, <1>3 DEF ChatInv, Accounted
<1>5. \A c \in ToSet(widget'.inbox) \cup ToSet(widget'.read) :
        c # Blank => kind[c] \notin Hidden
  BY <1>2, PageFacts DEF PageInOrder
<1>. QED
  BY <1>2, <1>3, <1>4, <1>5, PageFacts, QuietPage

\* What was under way to the page is lost, and known to be.
LEMMA LoseSocketStep == ASSUME ChatInv, LoseSocket PROVE ChatInv'
<1>1. /\ widget' = [widget EXCEPT !.socket = "down", !.inbox = <<>>]
      /\ missed' = missed \cup (ToSet(widget.inbox) \cap Calls)
      /\ UNCHANGED <<server, desk, loads, selects>>
      /\ faults' \in 0..MaxFaults
  BY PageFacts, ChatAssumption DEF LoseSocket, ChatAssumption
<1>2. ToSet(<<>>) = {} /\ <<>> \in Seq(Calls \cup {Blank})
  BY ToSetEmpty, EmptySeq
<1>3. /\ widget' \in Pages /\ widget'.shown = widget.shown /\ widget'.ids = widget.ids
      /\ widget'.waiting = widget.waiting /\ widget'.inbox = <<>>
      /\ widget'.read = widget.read /\ widget'.history = widget.history
  BY <1>1, <1>2, PageFacts DEF Pages, Sockets
<1>4. missed' \subseteq Calls
  BY <1>1, PageFacts
<1>5. \A c \in Calls : Announced(c) => Accounted(c, widget', missed')
  BY <1>1, <1>3 DEF ChatInv, Accounted
<1>6. \A c \in ToSet(widget'.inbox) \cup ToSet(widget'.read) :
        c # Blank => kind[c] \notin Hidden
  BY <1>2, <1>3, PageFacts DEF PageInOrder
<1>. QED
  BY <1>1, <1>3, <1>4, <1>5, <1>6, QuietPage

LEMMA LoseHistoryStep == ASSUME ChatInv, LoseHistory PROVE ChatInv'
<1>1. /\ widget' = [widget EXCEPT !.history = "none", !.read = <<>>]
      /\ missed' = missed \cup Stored
      /\ UNCHANGED <<server, desk, loads, selects>>
      /\ faults' \in 0..MaxFaults
  BY PageFacts, ChatAssumption DEF LoseHistory, ChatAssumption
<1>2. ToSet(<<>>) = {} /\ <<>> \in Seq(Calls)
  BY ToSetEmpty, EmptySeq
<1>3. /\ widget' \in Pages /\ widget'.shown = widget.shown /\ widget'.ids = widget.ids
      /\ widget'.waiting = widget.waiting /\ widget'.inbox = widget.inbox
      /\ widget'.read = <<>> /\ widget'.history = "none"
  BY <1>1, <1>2, PageFacts DEF Pages
<1>4. missed' \subseteq Calls
  BY <1>1, PageFacts
<1>5. \A c \in Calls : Announced(c) => Accounted(c, widget', missed')
  BY <1>1 DEF Announced, Accounted
<1>6. \A c \in ToSet(widget'.inbox) \cup ToSet(widget'.read) :
        c # Blank => kind[c] \notin Hidden
  BY <1>2, <1>3, PageFacts DEF PageInOrder
<1>. QED
  BY <1>1, <1>3, <1>4, <1>5, <1>6, QuietPage

\* The history: all that is stored, but for the notes.
LEMMA ReadHistoryStep == ASSUME ChatInv, ReadHistory PROVE ChatInv'
<1> DEFINE kept == {c \in Calls : kind[c] # "note"}
           list == HistoryRows
<1>1. list \in Seq(Calls) /\ ToSet(list) = Stored \cap kept
  BY PageFacts, Filtered DEF HistoryRows, Stored
<1>2. /\ widget' = [widget EXCEPT !.history = "read", !.read = list]
      /\ missed' = missed \ Stored
      /\ UNCHANGED <<server, desk, loads, faults, selects>>
  BY DEF ReadHistory
<1> HIDE DEF list
<1>3. /\ widget' \in Pages /\ widget'.shown = widget.shown /\ widget'.ids = widget.ids
      /\ widget'.waiting = widget.waiting /\ widget'.inbox = widget.inbox
      /\ widget'.read = list /\ widget'.history = "read"
  BY <1>1, <1>2, PageFacts DEF Pages
<1>4. missed' \subseteq Calls
  BY <1>2, PageFacts
<1>5. \A c \in Calls : Announced(c) => Accounted(c, widget', missed')
  <2>1. \A c \in Calls : Announced(c) => c \in Stored /\ kind[c] # "note"
    BY PageFacts, EffectFacts DEF Announced, Public, Hidden, Typed
  <2>. QED
    BY <1>1, <1>3, <2>1 DEF Accounted
<1>6. \A c \in ToSet(widget'.inbox) \cup ToSet(widget'.read) :
        c # Blank => kind[c] \notin Hidden
  <2>1. \A c \in ToSet(list) : kind[c] \notin Hidden
    BY <1>1, PageFacts DEF ChatInv, CallsInOrder, Hidden
  <2>. QED
    BY <1>3, <2>1, PageFacts DEF PageInOrder
<1>. QED
  BY <1>2, <1>3, <1>4, <1>5, <1>6, PageFacts, QuietPage

LEMMA ShowHistoryStep == ASSUME ChatInv, ShowHistory PROVE ChatInv'
<1> DEFINE w == AllRendered(widget, widget.read)
<1>1. widget.read \in Seq(Calls) /\ \A c \in ToSet(widget.read) : kind[c] \notin Hidden
  <2>1. widget.read \in Seq(Calls)
    BY PageFacts DEF Pages
  <2>2. ToSet(widget.read) \subseteq Calls
    BY <2>1, ToSetFacts
  <2>. QED
    BY <2>1, <2>2, PageFacts, ChatAssumption DEF PageInOrder, ChatAssumption
<1>2. /\ PageInOrder(w) /\ Richer(w, widget) /\ w \in Pages
      /\ \A c \in ToSet(widget.read) : id[c] \in w.ids
  BY <1>1, PageFacts, AllRenderedInOrder DEF PageInOrder
<1>3. /\ widget' = [w EXCEPT !.history = "shown", !.read = <<>>]
      /\ UNCHANGED <<server, desk, missed, loads, faults, selects>>
      /\ widget.history = "read"
  BY DEF ShowHistory
<1> HIDE DEF w
<1>4. ToSet(<<>>) = {} /\ <<>> \in Seq(Calls)
  BY ToSetEmpty, EmptySeq
<1>5. /\ widget' \in Pages /\ widget'.shown = w.shown /\ widget'.ids = w.ids
      /\ widget'.waiting = w.waiting /\ widget'.inbox = w.inbox
      /\ widget'.read = <<>>
  BY <1>2, <1>3, <1>4 DEF Pages
<1>6. PageInOrder(widget')
  BY <1>2, <1>4, <1>5, ShowsTheSame DEF PageInOrder
<1>7. \A c \in Calls : Announced(c) => Accounted(c, widget', missed')
  BY <1>2, <1>3, <1>5 DEF ChatInv, Accounted, Richer
<1>. QED
  BY <1>3, <1>6, <1>7, PageFacts, PageChanges

\* An event arrives: a message, or what is drawn without one.
LEMMA HearStep == ASSUME ChatInv, Hear PROVE ChatInv'
<1> DEFINE e == Head(widget.inbox)
           rest == Tail(widget.inbox)
           w == [widget EXCEPT !.inbox = rest]
<1>1. /\ widget' = IF e = Blank THEN [w EXCEPT !.shown = Append(@, Blank)] ELSE Rendered(w, e)
      /\ UNCHANGED <<server, desk, missed, loads, faults, selects>>
      /\ widget.inbox # <<>>
  BY DEF Hear
<1>2. /\ e \in Calls \cup {Blank} /\ rest \in Seq(Calls \cup {Blank})
      /\ ToSet(widget.inbox) = {e} \cup ToSet(rest)
  <2>1. widget.inbox \in Seq(Calls \cup {Blank})
    BY PageFacts DEF Pages
  <2>. QED
    BY <1>1, <2>1, ToSetFacts
<1> HIDE DEF e, rest
<1>3. /\ w \in Pages /\ w.shown = widget.shown /\ w.ids = widget.ids
      /\ w.waiting = widget.waiting /\ w.inbox = rest /\ w.read = widget.read
      /\ w.history = widget.history
  BY <1>2, PageFacts DEF Pages
<1> HIDE DEF w
<1>4. PageInOrder(w) /\ (e # Blank => kind[e] \notin Hidden)
  BY <1>2, <1>3, PageFacts, ShowsTheSame DEF PageInOrder
<1>5. CASE e = Blank
  <2>1. /\ widget' \in Pages /\ widget'.shown = Append(w.shown, Blank)
        /\ widget'.ids = w.ids /\ widget'.waiting = w.waiting /\ widget'.inbox = rest
        /\ widget'.read = w.read /\ widget'.history = w.history
    <3>1. Append(w.shown, Blank) \in Seq(Calls \cup {Blank})
      BY <1>3 DEF Pages
    <3> DEFINE drawn == Append(w.shown, Blank)
    <3>2. widget' = [w EXCEPT !.shown = drawn]
      BY <1>1, <1>5
    <3> HIDE DEF drawn
    <3>3. drawn \in Seq(Calls \cup {Blank})
      BY <3>1 DEF drawn
    <3>4. /\ widget' \in Pages /\ widget'.shown = drawn
          /\ widget'.ids = w.ids /\ widget'.waiting = w.waiting /\ widget'.inbox = w.inbox
          /\ widget'.read = w.read /\ widget'.history = w.history
      BY <1>3, <3>2, <3>3 DEF Pages
    <3>. QED
      BY <1>3, <3>4 DEF drawn
  <2>2. PageInOrder(widget')
    BY <1>3, <1>4, <2>1, PageFacts, ShowsOneMore
  <2>3. \A c \in Calls : Announced(c) => Accounted(c, widget', missed')
    BY <1>1, <1>2, <1>3, <1>5, <2>1, ChatAssumption DEF ChatInv, Accounted, ChatAssumption
  <2>. QED
    BY <1>1, <2>2, <2>3, PageFacts, PageChanges
<1>6. CASE e # Blank
  <2>1. e \in Calls /\ widget' = Rendered(w, e)
    BY <1>1, <1>2, <1>6
  <2>2. PageInOrder(widget') /\ Richer(widget', w) /\ id[e] \in widget'.ids
    BY <1>4, <1>6, <2>1, PageFacts, RenderedInOrder
  <2>3. \A c \in Calls : Announced(c) => Accounted(c, widget', missed')
    BY <1>1, <1>2, <1>3, <2>2 DEF ChatInv, Accounted, Richer
  <2>. QED
    BY <1>1, <2>2, <2>3, PageFacts, PageChanges
<1>. QED
  BY <1>5, <1>6

LEMMA ShowAnswerStep == ASSUME ChatInv, NEW c \in Calls, ShowAnswer(c) PROVE ChatInv'
<1> DEFINE waiting == widget.waiting \ {c}
           w == [widget EXCEPT !.waiting = waiting]
<1>1. /\ c \in widget.waiting /\ widget' = Rendered(w, c)
      /\ UNCHANGED <<server, desk, missed, loads, faults, selects>>
  BY DEF ShowAnswer
<1>2. kind[c] \notin Hidden /\ waiting \subseteq widget.waiting
  BY <1>1, PageFacts DEF PageInOrder
<1> HIDE DEF waiting
<1>3. /\ w \in Pages /\ w.shown = widget.shown /\ w.ids = widget.ids
      /\ w.waiting = waiting /\ w.inbox = widget.inbox /\ w.read = widget.read
      /\ w.history = widget.history
  BY <1>2, PageFacts DEF Pages
<1> HIDE DEF w
<1>4. PageInOrder(w)
  BY <1>2, <1>3, PageFacts, ShowsTheSame DEF PageInOrder
<1>5. PageInOrder(widget') /\ Richer(widget', w)
  BY <1>1, <1>2, <1>4, PageFacts, RenderedInOrder
<1>6. \A d \in Calls : Announced(d) => Accounted(d, widget', missed')
  BY <1>1, <1>3, <1>5 DEF ChatInv, Accounted, Richer
<1>. QED
  BY <1>1, <1>5, <1>6, PageFacts, PageChanges

\* The operator's socket.
LEMMA DeskStep == ASSUME ChatInv, Select \/ JoinGroups \/ DeskHear PROVE ChatInv'
<1>1. desk' \in Desks
  <2> DEFINE E == {"chat_message"} \cup {OpsEvent(k) : k \in Kinds}
             inbox == desk.inbox
  <2>1. desk \in [socket : Sockets, inbox : Seq(E)] /\ <<>> \in Seq(E)
    BY PageFacts, EmptySeq DEF Desks
  <2> HIDE DEF E
  <2>2. inbox # <<>> => Tail(inbox) \in Seq(E)
    BY <2>1
  <2>3. \/ desk' \in {[socket |-> s, inbox |-> <<>>] : s \in {"connecting", "down"}}
        \/ desk' = [desk EXCEPT !.socket = "joined"]
        \/ inbox # <<>> /\ desk' = [desk EXCEPT !.inbox = Tail(inbox)]
    BY DEF Select, JoinGroups, DeskHear
  <2>4. desk' \in [socket : Sockets, inbox : Seq(E)]
    <3> DEFINE S == Seq(E)
               rest == Tail(inbox)
    <3>1. desk \in [socket : Sockets, inbox : S] /\ <<>> \in S /\ (inbox # <<>> => rest \in S)
      BY <2>1, <2>2
    <3> SUFFICES desk' \in [socket : Sockets, inbox : S]
      OBVIOUS
    <3> HIDE DEF S, rest
    <3>2. CASE desk' \in {[socket |-> s, inbox |-> <<>>] : s \in {"connecting", "down"}}
      BY <3>1, <3>2 DEF Sockets
    <3>3. CASE desk' = [desk EXCEPT !.socket = "joined"]
      BY <3>1, <3>3 DEF Sockets
    <3>4. CASE inbox # <<>> /\ desk' = [desk EXCEPT !.inbox = rest]
      BY <3>1, <3>4
    <3>. QED
      BY <2>3, <3>2, <3>3, <3>4 DEF rest
  <2>. QED
    BY <2>4 DEF Desks, E
<1>2. /\ UNCHANGED <<server, widget, missed, loads, faults>>
      /\ selects' \in 0..MaxSelects
  BY PageFacts, ChatAssumption DEF Select, JoinGroups, DeskHear, ChatAssumption
<1>3. \A c \in Calls : Announced(c) => Accounted(c, widget', missed')
  BY <1>2 DEF ChatInv, Accounted
<1>. QED
  BY <1>1, <1>2, <1>3, PageFacts, PageChanges

-----------------------------------------------------------------------------
(* Steps of the calls *)

Stages == {"idle", "sent", "clear", "working", "done", "refused", "died"}

LEMMA CallFacts ==
  ASSUME ChatInv, NEW c \in Calls
  PROVE  /\ kind[c] \in Kinds /\ id[c] \in Ids /\ pc[c] \in Stages
         /\ todo[c] \in Seq({"ops", "chat", "rate"})
         /\ ToSet(todo[c]) \subseteq ToSet(Effects(kind[c]))
         /\ pc \in [Calls -> Stages] /\ todo \in [Calls -> Seq({"ops", "chat", "rate"})]
BY DEF ChatInv, ChatTypes, CallsInOrder, Stages

\* A call goes on, without a new row.
LEMMA CallChanges ==
  ASSUME ChatInv, NEW c \in Calls, NEW place \in Stages,
         NEW rest \in Seq({"ops", "chat", "rate"}),
         UNCHANGED <<kind, id, rows>>,
         pc' = [pc EXCEPT ![c] = place], todo' = [todo EXCEPT ![c] = rest],
         ToSet(rest) \subseteq ToSet(Effects(kind[c])),
         c \in Stored => place \in {"working", "done", "died"},
         place = "clear" => kind[c] # "operate",
         place = "working" => rest # <<>> /\ (kind[c] # "operate" => c \in Stored),
         rating' \in Calls \cup {None}, RatingTold',
         PageInOrder(widget'), desk' \in Desks, missed' \subseteq Calls,
         loads' \in 0..MaxLoads, faults' \in 0..MaxFaults, selects' \in 0..MaxSelects,
         \A d \in Calls : Announced(d)' => Accounted(d, widget', missed')
  PROVE  ChatInv'
<1>1. pc' \in [Calls -> Stages] /\ pc'[c] = place /\ \A d \in Calls \ {c} : pc'[d] = pc[d]
  BY CallFacts
<1>2. /\ todo' \in [Calls -> Seq({"ops", "chat", "rate"})] /\ todo'[c] = rest
      /\ \A d \in Calls \ {c} : todo'[d] = todo[d]
  <2> DEFINE S == Seq({"ops", "chat", "rate"})
  <2>1. todo \in [Calls -> S] /\ rest \in S
    BY CallFacts
  <2> HIDE DEF S
  <2>2. /\ todo' \in [Calls -> S] /\ todo'[c] = rest
        /\ \A d \in Calls \ {c} : todo'[d] = todo[d]
    BY <2>1
  <2>. QED
    BY <2>2 DEF S
<1>3. widget' \in Pages
  BY DEF PageInOrder
<1>4. ChatTypes'
  BY <1>1, <1>2, <1>3 DEF ChatInv, ChatTypes, Stages
<1>5. CallsInOrder'
  <2>1. Stored' = Stored
    BY DEF Stored
  <2>2. c \in Stored => kind[c] # "operate"
    BY DEF ChatInv, CallsInOrder
  <2>. QED
    BY <1>1, <1>2, <2>1, <2>2 DEF ChatInv, CallsInOrder
<1>6. OneRowPerId'
  BY DEF ChatInv, OneRowPerId
<1>7. PageInOrder(widget)'
  BY DEF PageInOrder
<1>8. \A d \in Calls : Announced(d)' => Accounted(d, widget, missed)'
  BY DEF Accounted
<1>. QED
  BY <1>4, <1>5, <1>6, <1>7, <1>8 DEF ChatInv

\* The same when it has as much left to do as before, and the page shows no
\* less.
LEMMA CallMoves ==
  ASSUME ChatInv, NEW c \in Calls, NEW place \in Stages,
         UNCHANGED <<kind, id, todo, rows, rating, desk, missed, loads, selects>>,
         pc' = [pc EXCEPT ![c] = place],
         c \in Stored => place \in {"working", "done", "died"},
         place = "clear" => kind[c] # "operate", place # "working",
         faults' \in 0..MaxFaults,
         PageInOrder(widget'),
         \A d \in Calls : Accounted(d, widget, missed) => Accounted(d, widget', missed')
  PROVE  ChatInv'
<1> DEFINE rest == todo[c]
<1>1. /\ rest \in Seq({"ops", "chat", "rate"}) /\ todo' = [todo EXCEPT ![c] = rest]
      /\ ToSet(rest) \subseteq ToSet(Effects(kind[c]))
  BY CallFacts
<1>2. RatingTold' /\ rating' \in Calls \cup {None}
  BY DEF ChatInv, ChatTypes, RatingTold, Stored
<1>3. \A d \in Calls : Announced(d)' => Accounted(d, widget', missed')
  BY DEF ChatInv, Announced, Public, Stored
<1> HIDE DEF rest
<1>. QED
  BY <1>1, <1>2, <1>3, PageFacts, CallChanges

\* A call is not stored before it was inserted.
LEMMA NotStored ==
  ASSUME ChatInv, NEW c \in Calls, pc[c] \in {"idle", "sent", "clear"}
  PROVE  c \notin Stored
BY DEF ChatInv, CallsInOrder

LEMMA SubmitStep == ASSUME ChatInv, NEW c \in Calls, Submit(c) PROVE ChatInv'
<1>1. /\ pc[c] = "idle" /\ pc' = [pc EXCEPT ![c] = "sent"] /\ c \notin Stored
      /\ UNCHANGED <<kind, id, todo, rows, rating, desk, missed, loads, faults, selects>>
  BY NotStored DEF Submit
<1>2. /\ PageInOrder(widget')
      /\ \A d \in Calls : Accounted(d, widget, missed) => Accounted(d, widget', missed')
  <2>1. CASE kind[c] = "socket"
    <3>1. widget' = Rendered(widget, c) /\ kind[c] \notin Hidden
      BY <2>1 DEF Submit, Hidden
    <3>2. PageInOrder(widget') /\ Richer(widget', widget)
      BY <3>1, PageFacts, RenderedInOrder
    <3>. QED
      BY <1>1, <3>2 DEF Accounted, Richer
  <2>2. CASE kind[c] = "rating"
    <3> DEFINE ids == widget.ids \cup {id[c]}
    <3>1. widget' = [widget EXCEPT !.ids = ids] /\ ids \in SUBSET Ids
      BY <2>2, PageFacts DEF Submit, Typed, Pages
    <3>2. widget.ids \subseteq ids
      OBVIOUS
    <3> HIDE DEF ids
    <3>3. /\ widget' \in Pages /\ widget'.shown = widget.shown /\ widget'.ids = ids
          /\ widget'.waiting = widget.waiting /\ widget'.inbox = widget.inbox
          /\ widget'.read = widget.read /\ widget'.history = widget.history
      BY <3>1, PageFacts DEF Pages
    <3>4. PageInOrder(widget')
      BY <3>2, <3>3, PageFacts, ShowsTheSame DEF PageInOrder
    <3>. QED
      BY <1>1, <3>2, <3>3, <3>4 DEF Accounted
  <2>3. CASE kind[c] = "upload"
    <3> DEFINE waiting == widget.waiting \cup {c}
    <3>1. widget' = [widget EXCEPT !.waiting = waiting] /\ waiting \in SUBSET Calls
      BY <2>3, PageFacts DEF Submit, Pages
    <3>2. \A d \in waiting : kind[d] \notin Hidden
      BY <2>3, PageFacts DEF PageInOrder, Hidden
    <3> HIDE DEF waiting
    <3>3. /\ widget' \in Pages /\ widget'.shown = widget.shown /\ widget'.ids = widget.ids
          /\ widget'.waiting = waiting /\ widget'.inbox = widget.inbox
          /\ widget'.read = widget.read /\ widget'.history = widget.history
      BY <3>1, PageFacts DEF Pages
    <3>4. PageInOrder(widget')
      BY <3>2, <3>3, PageFacts, ShowsTheSame DEF PageInOrder
    <3>. QED
      BY <1>1, <3>3, <3>4 DEF Accounted
  <2>4. CASE kind[c] \notin {"socket", "rating", "upload"}
    BY <1>1, <2>4, PageFacts DEF Submit
  <2>. QED
    BY <2>1, <2>2, <2>3, <2>4
<1>3. "sent" \in Stages
  BY DEF Stages
<1>. QED
  BY <1>1, <1>2, <1>3, PageFacts, CallMoves

LEMMA CheckStep == ASSUME ChatInv, NEW c \in Calls, Check(c) PROVE ChatInv'
<1>1. /\ c \notin Stored
      /\ UNCHANGED <<kind, id, rows, rating, widget, desk, missed, loads, faults, selects>>
  BY NotStored DEF Check
<1>2. CASE kind[c] = "operate"
  <2> DEFINE rest == Effects("operate")
  <2>1. pc' = [pc EXCEPT ![c] = "working"] /\ todo' = [todo EXCEPT ![c] = rest]
    BY <1>2 DEF Check
  <2>2. /\ rest \in Seq({"ops", "chat", "rate"}) /\ rest # <<>>
        /\ ToSet(rest) \subseteq ToSet(Effects(kind[c])) /\ "working" \in Stages
    BY <1>2, EffectFacts DEF Kinds, Stages
  <2>3. \A d \in Calls : Announced(d)' => Accounted(d, widget', missed')
    <3>1. \A d \in Calls \ {c} : todo'[d] = todo[d]
      BY <2>1, CallFacts
    <3>. QED
      BY <1>1, <3>1 DEF ChatInv, Announced, Public, Stored, Accounted
  <2>4. RatingTold' /\ rating' \in Calls \cup {None}
    BY <1>1 DEF ChatInv, ChatTypes, RatingTold, Stored
  <2> HIDE DEF rest
  <2>. QED
    BY <1>1, <1>2, <2>1, <2>2, <2>3, <2>4, PageFacts, CallChanges
<1>3. CASE kind[c] # "operate"
  <2>1. PICK place \in {"refused", "clear"} : pc' = [pc EXCEPT ![c] = place]
    BY <1>3 DEF Check
  <2>2. todo' = todo /\ place \in Stages /\ place # "working"
    BY <1>3, <2>1 DEF Check, Stages
  <2>3. PageInOrder(widget')
    BY <1>1, PageFacts
  <2>4. \A d \in Calls : Accounted(d, widget, missed) => Accounted(d, widget', missed')
    BY <1>1
  <2>. QED
    BY <1>1, <1>3, <2>1, <2>2, <2>3, <2>4, PageFacts, CallMoves
<1>. QED
  BY <1>2, <1>3

LEMMA LimitStep == ASSUME ChatInv, NEW c \in Calls, Limit(c) PROVE ChatInv'
<1>1. /\ pc[c] \in {"sent", "clear"} /\ pc' = [pc EXCEPT ![c] = "refused"]
      /\ UNCHANGED <<kind, id, todo, rows, rating, desk, missed, loads, faults, selects>>
  BY DEF Limit
<1>2. c \notin Stored /\ "refused" \in Stages
  BY <1>1, NotStored DEF Stages
<1>3. /\ PageInOrder(widget')
      /\ \A d \in Calls : Accounted(d, widget, missed) => Accounted(d, widget', missed')
  <2>1. CASE widget' = widget
    BY <1>1, <2>1, PageFacts
  <2>2. CASE widget' # widget
    <3> DEFINE inbox == Append(widget.inbox, Blank)
    <3>1. widget' = [widget EXCEPT !.inbox = inbox]
      BY <2>2 DEF Limit
    <3>2. inbox \in Seq(Calls \cup {Blank}) /\ ToSet(inbox) = ToSet(widget.inbox) \cup {Blank}
      BY PageFacts, ToSetFacts DEF Pages
    <3> HIDE DEF inbox
    <3>3. /\ widget' \in Pages /\ widget'.shown = widget.shown /\ widget'.ids = widget.ids
          /\ widget'.waiting = widget.waiting /\ widget'.inbox = inbox
          /\ widget'.read = widget.read /\ widget'.history = widget.history
      BY <3>1, <3>2, PageFacts DEF Pages
    <3>4. PageInOrder(widget')
      BY <3>2, <3>3, PageFacts, ShowsTheSame DEF PageInOrder
    <3>. QED
      BY <1>1, <3>2, <3>3, <3>4 DEF Accounted
  <2>. QED
    BY <2>1, <2>2
<1>. QED
  BY <1>1, <1>2, <1>3, PageFacts, CallMoves

LEMMA DieStep == ASSUME ChatInv, NEW c \in Calls, Die(c) PROVE ChatInv'
<1>1. /\ pc' = [pc EXCEPT ![c] = "died"] /\ faults' \in 0..MaxFaults /\ "died" \in Stages
      /\ UNCHANGED <<kind, id, todo, rows, rating, widget, desk, missed, loads, selects>>
  BY PageFacts, ChatAssumption DEF Die, ChatAssumption, Stages
<1>2. PageInOrder(widget')
  BY <1>1, PageFacts
<1>3. \A d \in Calls : Accounted(d, widget, missed) => Accounted(d, widget', missed')
  BY <1>1
<1>. QED
  BY <1>1, <1>2, <1>3, CallMoves

\* The database refuses a second row of an id; a new row has its broadcasts
\* before it.
LEMMA InsertStep == ASSUME ChatInv, NEW c \in Calls, Insert(c) PROVE ChatInv'
<1>1. /\ pc[c] = "clear" /\ c \notin Stored /\ kind[c] # "operate"
      /\ UNCHANGED <<kind, id, rating, widget, desk, missed, loads, faults, selects>>
  BY NotStored DEF Insert, ChatInv, CallsInOrder
<1>2. CASE ~Unique(c)
  <2>1. pc' = [pc EXCEPT ![c] = "refused"] /\ UNCHANGED <<rows, todo>> /\ "refused" \in Stages
    BY <1>2 DEF Insert, Stages
  <2>2. PageInOrder(widget')
    BY <1>1, PageFacts
  <2>3. \A d \in Calls : Accounted(d, widget, missed) => Accounted(d, widget', missed')
    BY <1>1
  <2>. QED
    BY <1>1, <2>1, <2>2, <2>3, PageFacts, CallMoves
<1>3. CASE Unique(c)
  <2> DEFINE effects == Effects(kind[c])
             S == Seq({"ops", "chat", "rate"})
  <2>1. /\ rows' = Append(rows, c) /\ pc' = [pc EXCEPT ![c] = "working"]
        /\ todo' = [todo EXCEPT ![c] = effects]
    BY <1>3 DEF Insert
  <2>2. effects \in S /\ effects # <<>> /\ todo \in [Calls -> S] /\ pc \in [Calls -> Stages]
    BY CallFacts, EffectFacts
  <2>3. /\ rows' \in Seq(Calls) /\ Stored' = Stored \cup {c}
    BY <2>1, PageFacts, ToSetFacts DEF Stored
  <2> HIDE DEF S
  <2>4. /\ todo' \in [Calls -> S] /\ todo'[c] = effects
        /\ \A d \in Calls \ {c} : todo'[d] = todo[d]
        /\ pc' \in [Calls -> Stages] /\ pc'[c] = "working"
        /\ \A d \in Calls \ {c} : pc'[d] = pc[d]
    BY <2>1, <2>2 DEF Stages
  <2> HIDE DEF effects
  <2>5. ChatTypes'
    BY <1>1, <2>3, <2>4 DEF ChatInv, ChatTypes, Stages, S
  <2>6. CallsInOrder'
    BY <1>1, <2>2, <2>3, <2>4 DEF ChatInv, CallsInOrder, effects
  <2>7. OneRowPerId'
    <3> DEFINE n == Len(rows) + 1
    <3>1. /\ DOMAIN rows' = (1..Len(rows)) \cup {n} /\ rows'[n] = c
          /\ \A i \in 1..Len(rows) : rows'[i] = rows[i]
          /\ DOMAIN rows = 1..Len(rows)
      BY <2>1, PageFacts
    <3>2. \A i \in 1..Len(rows) : id[rows[i]] # id[c]
      BY <1>3, <3>1 DEF Unique, Stored, ToSet
    <3>3. \A i, j \in 1..Len(rows) : i # j => id[rows[i]] # id[rows[j]]
      BY <3>1 DEF ChatInv, OneRowPerId
    <3> HIDE DEF n
    <3>. QED
      BY <1>1, <3>1, <3>2, <3>3 DEF OneRowPerId
  <2>8. RatingTold'
    BY <1>1, <2>3 DEF ChatInv, RatingTold
  <2>9. PageInOrder(widget)'
    BY <1>1 DEF ChatInv, PageInOrder
  <2>10. \A d \in Calls : Announced(d)' => Accounted(d, widget, missed)'
    <3>1. ~Announced(c)'
      BY <1>1, <2>4 DEF Announced, Public, effects
    <3>2. \A d \in Calls \ {c} : Announced(d)' => Announced(d)
      BY <1>1, <2>3, <2>4 DEF Announced, Public
    <3>3. \A d \in Calls : Accounted(d, widget, missed) => Accounted(d, widget, missed)'
      BY <1>1 DEF Accounted
    <3>. QED
      BY <3>1, <3>2, <3>3 DEF ChatInv
  <2>. QED
    BY <2>5, <2>6, <2>7, <2>8, <2>9, <2>10 DEF ChatInv
<1>. QED
  BY <1>2, <1>3

\* One effect of a call: who has joined hears of it, who has not has missed it.
LEMMA EffectStep == ASSUME ChatInv, NEW c \in Calls, Effect(c) PROVE ChatInv'
<1> DEFINE e == Head(todo[c])
           rest == Tail(todo[c])
           place == IF Len(todo[c]) = 1 THEN "done" ELSE "working"
<1>1. /\ pc[c] = "working" /\ todo[c] # <<>> /\ (kind[c] # "operate" => c \in Stored)
      /\ UNCHANGED <<kind, id, rows, loads, faults, selects>>
  BY DEF Effect, ChatInv, CallsInOrder
<1>2. /\ e \in {"ops", "chat", "rate"} /\ rest \in Seq({"ops", "chat", "rate"})
      /\ ToSet(todo[c]) = {e} \cup ToSet(rest)
      /\ e \in ToSet(Effects(kind[c])) /\ ToSet(rest) \subseteq ToSet(Effects(kind[c]))
  <2> DEFINE S == {"ops", "chat", "rate"}
  <2>1. todo[c] \in Seq(S) /\ todo[c] # <<>> /\ ToSet(todo[c]) \subseteq ToSet(Effects(kind[c]))
    BY <1>1, CallFacts
  <2> HIDE DEF S
  <2>2. e \in S /\ rest \in Seq(S) /\ ToSet(todo[c]) = {e} \cup ToSet(rest)
    BY <2>1, ToSetFacts
  <2>. QED
    BY <2>1, <2>2 DEF S
<1>3. place = "working" => rest # <<>>
  <2>1. Len(todo[c]) \in Nat \ {0} /\ Len(rest) = Len(todo[c]) - 1
    BY <1>1, CallFacts, EmptySeq, HeadTailProperties
  <2>2. Len(rest) # 0 => rest # <<>>
    BY EmptySeq
  <2>. QED
    BY <2>1, <2>2
<1>4. /\ pc' = [pc EXCEPT ![c] = place] /\ todo' = [todo EXCEPT ![c] = rest]
      /\ widget' = IF e = "chat" THEN Delivered(widget, c) ELSE widget
      /\ \/ desk' = desk \/ desk' = Delivered(desk, "chat_message")
         \/ desk' = Delivered(desk, OpsEvent(kind[c]))
      /\ missed' = IF e = "chat" /\ widget.socket # "joined" THEN missed \cup {c} ELSE missed
      /\ rating' = IF e = "rate" THEN c ELSE rating
  BY DEF Effect
<1> HIDE DEF e, rest
<1>5. rating' \in Calls \cup {None} /\ RatingTold'
  <2>1. CASE e = "rate"
    <3>1. kind[c] = "rating" /\ c \in Stored
      BY <1>1, <1>2, <2>1, EffectFacts, CallFacts
    <3>. QED
      BY <1>1, <1>4, <2>1, <3>1 DEF RatingTold, Stored
  <2>2. CASE e # "rate"
    BY <1>1, <1>4, <2>2 DEF ChatInv, ChatTypes, RatingTold, Stored
  <2>. QED
    BY <2>1, <2>2
<1>6. desk' \in Desks
  <2> DEFINE E == {"chat_message"} \cup {OpsEvent(k) : k \in Kinds}
             S == Seq(E)
  <2>1. ASSUME NEW x \in E PROVE Delivered(desk, x) \in Desks
    <3> DEFINE inbox == Append(desk.inbox, x)
    <3>1. desk \in [socket : Sockets, inbox : S] /\ inbox \in S
      BY PageFacts DEF Desks
    <3>2. Delivered(desk, x) = desk \/ Delivered(desk, x) = [desk EXCEPT !.inbox = inbox]
      BY Zenon DEF Delivered
    <3> HIDE DEF S, inbox
    <3>3. Delivered(desk, x) \in [socket : Sockets, inbox : S]
      BY <3>1, <3>2
    <3>. QED
      BY <3>3 DEF Desks, S
  <2>2. "chat_message" \in E /\ OpsEvent(kind[c]) \in E /\ desk \in Desks
    BY CallFacts, PageFacts
  <2>. QED
    BY <1>4, <2>1, <2>2
<1>7. /\ widget' \in Pages /\ widget'.shown = widget.shown /\ widget'.ids = widget.ids
      /\ widget'.waiting = widget.waiting /\ widget'.read = widget.read
      /\ widget'.history = widget.history /\ ToSet(widget.inbox) \subseteq ToSet(widget'.inbox)
      /\ ToSet(widget'.inbox) \subseteq ToSet(widget.inbox) \cup {c}
      /\ e # "chat" => ToSet(widget'.inbox) = ToSet(widget.inbox)
      /\ e = "chat" /\ widget.socket = "joined" => c \in ToSet(widget'.inbox)
  <2> DEFINE inbox == Append(widget.inbox, c)
  <2>1. inbox \in Seq(Calls \cup {Blank}) /\ ToSet(inbox) = ToSet(widget.inbox) \cup {c}
    BY PageFacts, ToSetFacts DEF Pages
  <2>2. CASE e = "chat" /\ widget.socket = "joined"
    <3>1. widget' = [widget EXCEPT !.inbox = inbox]
      BY <1>4, <2>2, Zenon DEF Delivered
    <3> HIDE DEF inbox
    <3>2. /\ widget' \in Pages /\ widget'.shown = widget.shown /\ widget'.ids = widget.ids
          /\ widget'.waiting = widget.waiting /\ widget'.read = widget.read
          /\ widget'.history = widget.history /\ widget'.inbox = inbox
      BY <2>1, <3>1, PageFacts DEF Pages
    <3>. QED
      BY <2>1, <2>2, <3>2
  <2>3. CASE ~(e = "chat" /\ widget.socket = "joined")
    <3>1. widget' = widget
      BY <1>4, <2>3 DEF Delivered
    <3>. QED
      BY <2>3, <3>1, PageFacts
  <2>. QED
    BY <2>2, <2>3
<1>8. PageInOrder(widget')
  <2>1. e = "chat" => kind[c] \notin Hidden
    BY <1>2, CallFacts, EffectFacts
  <2>2. \A d \in ToSet(widget'.inbox) \cup ToSet(widget'.read) :
          d # Blank => kind[d] \notin Hidden
    BY <1>7, <2>1, PageFacts DEF PageInOrder
  <2>. QED
    BY <1>7, <2>2, PageFacts, ShowsTheSame DEF PageInOrder
<1>9. missed' \subseteq Calls
  BY <1>4, PageFacts
<1>10. \A d \in Calls : Announced(d)' => Accounted(d, widget', missed')
  <2>1. \A d \in Calls : Accounted(d, widget, missed) => Accounted(d, widget', missed')
    BY <1>4, <1>7 DEF Accounted
  <2>2. /\ todo'[c] = rest /\ \A d \in Calls \ {c} : todo'[d] = todo[d]
    BY <1>4, CallFacts
  <2>3. \A d \in Calls \ {c} : Announced(d)' => Announced(d)
    BY <1>1, <2>2 DEF Announced, Public, Stored
  <2>4. Announced(c)' => Announced(c) \/ e = "chat"
    BY <1>1, <1>2, <2>2 DEF Announced, Public, Stored
  <2>5. e = "chat" => Accounted(c, widget', missed')
    BY <1>4, <1>7 DEF Accounted
  <2>. QED
    BY <2>1, <2>3, <2>4, <2>5 DEF ChatInv
<1>11. /\ place \in Stages /\ place # "clear" /\ place \in {"working", "done", "died"}
  BY DEF Stages
<1> HIDE DEF place
<1>. QED
  BY <1>1, <1>2, <1>3, <1>4, <1>5, <1>6, <1>8, <1>9, <1>10, <1>11, PageFacts, CallChanges

-----------------------------------------------------------------------------
(* The theorems *)

LEMMA ChatStep == ChatInv /\ [ChatNext]_chatVars => ChatInv'
<1> SUFFICES ASSUME ChatInv, [ChatNext]_chatVars PROVE ChatInv'
  OBVIOUS
<1>1. CASE UNCHANGED chatVars
  <2>1. UNCHANGED <<server, widget, desk, missed, loads, faults, selects>>
    BY <1>1 DEF chatVars, server
  <2>2. PageInOrder(widget') /\ \A c \in Calls : Announced(c) => Accounted(c, widget', missed')
    BY <2>1 DEF ChatInv
  <2>. QED
    BY <2>1, <2>2, PageFacts, PageChanges
<1>2. CASE Page
  BY <1>2, SocketStep, ReadHistoryStep, ShowHistoryStep, HearStep DEF Page
<1>3. CASE Faults
  BY <1>3, LoseSocketStep, LoseHistoryStep, DieStep DEF Faults
<1>4. ASSUME NEW c \in Calls, Submit(c) \/ Handle(c) PROVE ChatInv'
  BY <1>4, SubmitStep, CheckStep, LimitStep, InsertStep, EffectStep, ShowAnswerStep DEF Handle
<1>. QED
  BY <1>1, <1>2, <1>3, <1>4, StartChatStep, DeskStep DEF ChatNext

LEMMA ChatInvariant == ChatSpec => []ChatInv
BY InitChatInv, ChatStep, PTL DEF ChatSpec

\* No page draws a message twice or one meant for operators, the table has one
\* row per id, and a saved rating has its message; for any calls, ids and kinds.
THEOREM ChatsAreConsistent == ChatSpec => []ChatConsistent
<1>1. ChatInv => ChatConsistent
  BY DEF ChatInv, ChatConsistent, PageInOrder, ShownOnce, OperatorOnly, Hidden
<1>. QED
  BY <1>1, ChatInvariant, PTL

\* A page that has shown its history lacks only what the widget's delivery is
\* known to lose.
THEOREM NothingElseIsLacking == ChatSpec => []LacksOnlyMissed
<1>1. ChatInv => LacksOnlyMissed
  BY DEF ChatInv, LacksOnlyMissed, Accounted
<1>. QED
  BY <1>1, ChatInvariant, PTL

-----------------------------------------------------------------------------
(* The category tree *)

\* None is the parent of a category at the top.
Rules == INSTANCE KnowledgeRules

\* No category is its own ancestor: a rank falls from every one to its parent.
RanksParents(rank, parent) ==
  \A c \in DOMAIN parent : parent[c] # None =>
    parent[c] \in DOMAIN parent /\ rank[parent[c]] < rank[c]
IsTree(parent) ==
  /\ IsFiniteSet(DOMAIN parent) /\ None \notin DOMAIN parent
  /\ \E rank \in [DOMAIN parent -> Nat] : RanksParents(rank, parent)

\* Sets of categories with the parents of all in them.
HasParents(S, parent) == {parent[x] : x \in S} \ {None} \subseteq S

\* The climb from some categories: it ends in the least set that has them and
\* all parents.
Climb(f, parent) ==
  f = [known \in SUBSET DOMAIN parent |->
         LET more == known \cup ({parent[x] : x \in known} \ {None})
         IN  IF more = known THEN known ELSE f[more]]
LeastAbove(S, known, parent) ==
  /\ known \subseteq S /\ HasParents(S, parent)
  /\ \A B \in SUBSET DOMAIN parent : known \subseteq B /\ HasParents(B, parent) => S \subseteq B

LEMMA ClimbExists ==
  ASSUME NEW parent, \A c \in DOMAIN parent : parent[c] \in DOMAIN parent \cup {None}
  PROVE  \E f : Climb(f, parent)
<1> DEFINE D == DOMAIN parent
           More(known) == known \cup ({parent[x] : x \in known} \ {None})
           Above(known) == {B \in SUBSET D : known \subseteq B /\ HasParents(B, parent)}
           Least(known) == {x \in D : \A B \in Above(known) : x \in B}
           f == [known \in SUBSET D |-> Least(known)]
<1>1. ASSUME NEW known \in SUBSET D
      PROVE  f[known] = IF More(known) = known THEN known ELSE f[More(known)]
  <2>1. More(known) \in SUBSET D
    OBVIOUS
  <2>2. CASE More(known) = known
    <3>1. known \in Above(known)
      BY <2>2 DEF HasParents
    <3>2. Least(known) = known
      BY <3>1
    <3>. QED
      BY <2>2, <3>2
  <2>3. CASE More(known) # known
    <3>1. Above(More(known)) = Above(known)
      BY DEF HasParents
    <3>2. Least(More(known)) = Least(known)
      BY <3>1
    <3>. QED
      BY <2>1, <2>3, <3>2
  <2>. QED
    BY <2>2, <2>3
<1>2. f = [known \in SUBSET D |-> f[known]]
  OBVIOUS
<1> HIDE DEF f
<1>3. Climb(f, parent)
  BY <1>1, <1>2, Zenon DEF Climb
<1>. QED
  BY <1>3

LEMMA ClimbsToAll ==
  ASSUME NEW parent, IsFiniteSet(DOMAIN parent),
         \A c \in DOMAIN parent : parent[c] \in DOMAIN parent \cup {None},
         NEW f, Climb(f, parent), NEW start \in SUBSET DOMAIN parent
  PROVE  LeastAbove(f[start], start, parent)
<1> DEFINE D == DOMAIN parent
           More(known) == known \cup ({parent[x] : x \in known} \ {None})
           Left(known) == Cardinality(D \ known)
           N == Cardinality(D) + 1
           T == {n \in 0..N : \A known \in SUBSET D :
                   Left(known) < n => LeastAbove(f[known], known, parent)}
<1>1. \A known \in SUBSET D : Left(known) \in Nat /\ Left(known) < N
  <2> TAKE known \in SUBSET D
  <2>1. IsFiniteSet(D \ known) /\ Cardinality(D \ known) <= Cardinality(D)
    BY FS_Subset
  <2>. QED
    BY <2>1, FS_CardinalityType
<1>2. N \in Nat
  BY FS_CardinalityType
<1>3. \A known \in SUBSET D : More(known) \in SUBSET D
  OBVIOUS
<1>4. \A known \in SUBSET D :
        f[known] = IF More(known) = known THEN known ELSE f[More(known)]
  BY Zenon DEF Climb
<1>5. \A known \in SUBSET D : More(known) # known => Left(More(known)) < Left(known)
  <2> SUFFICES ASSUME NEW known \in SUBSET D, More(known) # known
               PROVE  Left(More(known)) < Left(known)
    OBVIOUS
  <2>1. D \ More(known) \in SUBSET (D \ known) /\ D \ More(known) # D \ known
    BY <1>3
  <2>2. IsFiniteSet(D \ known)
    BY FS_Subset
  <2>3. /\ Cardinality(D \ More(known)) <= Cardinality(D \ known)
        /\ Cardinality(D \ More(known)) # Cardinality(D \ known)
    <3> HIDE DEF More
    <3>. QED
      BY <2>1, <2>2, FS_Subset
  <2>4. Left(More(known)) \in Nat /\ Left(known) \in Nat
    BY <1>1, <1>3
  <2>. QED
    BY <2>3, <2>4
<1>6. ASSUME NEW n \in 1..N, n - 1 \in T PROVE n \in T
  <2> SUFFICES ASSUME NEW known \in SUBSET D, Left(known) < n
               PROVE  LeastAbove(f[known], known, parent)
    BY <1>2
  <2>1. CASE More(known) = known
    <3>1. HasParents(known, parent)
      BY <2>1 DEF HasParents
    <3>. QED
      BY <1>4, <2>1, <3>1 DEF LeastAbove
  <2>2. CASE More(known) # known
    <3>1. Left(More(known)) < n - 1
      <4>1. Left(More(known)) \in Nat /\ Left(known) \in Nat /\ Left(More(known)) < Left(known)
        BY <1>1, <1>3, <1>5, <2>2
      <4> HIDE DEF Left, More, N
      <4>. QED
        BY <1>2, <4>1
    <3>2. LeastAbove(f[More(known)], More(known), parent)
      BY <1>3, <1>6, <3>1
    <3>3. f[known] = f[More(known)]
      BY <1>4, <2>2
    <3>4. known \subseteq f[known] /\ HasParents(f[known], parent)
      BY <3>2, <3>3 DEF LeastAbove
    <3>5. ASSUME NEW B \in SUBSET D, known \subseteq B, HasParents(B, parent) PROVE f[known] \subseteq B
      <4>1. More(known) \subseteq B
        BY <3>5 DEF HasParents
      <4>. QED
        BY <3>2, <3>3, <3>5, <4>1 DEF LeastAbove
    <3>. QED
      BY <3>4, <3>5 DEF LeastAbove
  <2>. QED
    BY <2>1, <2>2
<1>7. 0 \in T
  <2>1. \A known \in SUBSET D : ~(Left(known) < 0)
    <3> HIDE DEF Left
    <3>. QED
      BY <1>1
  <2>. QED
    BY <1>2, <2>1
<1> HIDE DEF T, N
<1>8. 0..N \subseteq T
  BY <1>2, <1>6, <1>7, Induction
<1>9. N \in T
  BY <1>2, <1>8
<1>. QED
  BY <1>1, <1>9 DEF T

\* The ancestors of a category, itself included.
LEMMA AncestorsFound ==
  ASSUME NEW parent, IsFiniteSet(DOMAIN parent),
         \A c \in DOMAIN parent : parent[c] \in DOMAIN parent \cup {None},
         NEW p \in DOMAIN parent
  PROVE  LeastAbove(Rules!Ancestors(parent, p), {p}, parent)
<1> DEFINE f == CHOOSE g : Climb(g, parent)
<1>1. Rules!Ancestors(parent, p) = f[{p}]
  BY Zenon DEF Rules!Ancestors, Climb
<1>2. Climb(f, parent)
  BY ClimbExists, Zenon
<1> HIDE DEF f
<1>. QED
  BY <1>1, <1>2, ClimbsToAll

\* In a tree of categories the parents that are accepted are exactly those that
\* leave it a tree, however large it is: none closes a loop, and none is refused
\* that would not.
THEOREM CategoriesStayATree ==
  ASSUME NEW parent, IsTree(parent), parent = [x \in DOMAIN parent |-> parent[x]],
         NEW c \in DOMAIN parent, NEW p \in DOMAIN parent \cup {None}
  PROVE  Rules!AcceptsParent(parent, c, p) <=> IsTree([parent EXCEPT ![c] = p])
<1> DEFINE D == DOMAIN parent
           after == [parent EXCEPT ![c] = p]
           up == Rules!Ancestors(parent, p)
<1>1. /\ DOMAIN after = D /\ after[c] = p
      /\ \A x \in D : x # c => after[x] = parent[x]
  OBVIOUS
<1>2. PICK rank \in [D -> Nat] : RanksParents(rank, parent)
  BY DEF IsTree
<1>3. /\ IsFiniteSet(D) /\ None \notin D
      /\ \A x \in D : parent[x] # None => parent[x] \in D /\ rank[parent[x]] < rank[x]
  BY <1>2 DEF IsTree, RanksParents
<1>4. p # None => LeastAbove(up, {p}, parent)
  BY <1>3, AncestorsFound
<1> HIDE DEF up, after
<1>5. CASE p = None
  <2>1. RanksParents(rank, after)
    BY <1>1, <1>3, <1>5 DEF RanksParents
  <2>. QED
    BY <1>1, <1>2, <1>3, <1>5, <2>1 DEF IsTree, Rules!AcceptsParent, after
<1>6. ASSUME p # None, c \notin up PROVE IsTree(after)
  <2> DEFINE rank1 == [x \in D |-> IF x \in up THEN rank[x] ELSE rank[x] + rank[p] + 1]
  <2>1. rank[p] \in Nat /\ p \in up /\ \A x \in up : parent[x] # None => parent[x] \in up
    BY <1>2, <1>4, <1>6 DEF LeastAbove, HasParents
  <2>2. rank1 \in [D -> Nat] /\ \A x \in D : rank1[x] =
          IF x \in up THEN rank[x] ELSE rank[x] + rank[p] + 1
    BY <1>2, <2>1
  <2> HIDE DEF rank1
  <2>3. ASSUME NEW x \in D, after[x] # None
        PROVE  after[x] \in D /\ rank1[after[x]] < rank1[x]
    <3>1. CASE x = c
      BY <1>1, <1>2, <1>6, <2>1, <2>2, <3>1
    <3>2. CASE x # c
      BY <1>1, <1>2, <1>3, <2>1, <2>2, <2>3, <3>2
    <3>. QED
      BY <3>1, <3>2
  <2>. QED
    BY <1>1, <1>3, <2>2, <2>3 DEF IsTree, RanksParents
<1>7. ASSUME p # None, IsTree(after) PROVE c \notin up
  <2>1. PICK rank1 \in [D -> Nat] : RanksParents(rank1, after)
    BY <1>1, <1>7 DEF IsTree
  <2>2. rank1[p] < rank1[c]
    BY <1>1, <1>7, <2>1 DEF RanksParents
  <2> DEFINE B == {x \in D : rank1[x] <= rank1[p]}
  <2>3. p \in B /\ c \notin B
    BY <1>7, <2>1, <2>2
  <2>4. \A x \in B : parent[x] # None => parent[x] \in B
    BY <1>1, <1>3, <2>1, <2>3 DEF RanksParents
  <2> HIDE DEF B
  <2>5. HasParents(B, parent)
    BY <2>4 DEF HasParents
  <2>. QED
    BY <1>4, <1>7, <2>3, <2>5 DEF LeastAbove, B
<1>. QED
  BY <1>1, <1>5, <1>6, <1>7 DEF Rules!AcceptsParent, up, after
=============================================================================
