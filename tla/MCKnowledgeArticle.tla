------------------------- MODULE MCKnowledgeArticle -------------------------
(***************************************************************************)
(* Four requests on one article with two contents; and the rules of        *)
(* KnowledgeRules, over every small tree, text, document and file.         *)
(***************************************************************************)
EXTENDS KnowledgeArticle, Sequences, TLC

Symmetry == Permutations(Requests) \cup Permutations(Contents)

Rules == INSTANCE KnowledgeRules WITH None <- 0

Tree == 1..4
Trees == {p \in [Tree -> Tree \cup {0}] : \A c \in Tree : p[c] # 0 => c \notin Rules!Ancestors(p, p[c])}

\* In a tree of categories exactly the parents that keep it a tree are accepted.
ASSUME CategoriesStayATree ==
  \A p \in Trees : \A c \in Tree, new \in Tree \cup {0} :
    Rules!AcceptsParent(p, c, new) <=> [p EXCEPT ![c] = new] \in Trees

Characters == {"a", "A", "Persian yeh", "Arabic yeh", " "}
Texts(n) == UNION {[1..k -> Characters] : k \in 0..n}
Parts(text) == {SubSeq(text, i, j) : i, j \in 1..Len(text)}
Spelling(text) == [i \in 1..Len(text) |-> IF text[i] = "Persian yeh" THEN "Arabic yeh" ELSE text[i]]
Article(title, excerpt) == [title |-> title, excerpt |-> excerpt]

\* An article is found by any part of its title or excerpt, whichever of the
\* two letters is typed, and a title typed in full is ranked first.
ASSUME ArticlesAreFound ==
  /\ \A text \in Texts(4) : \A part \in Parts(text) :
       Rules!Normalized(part) # <<>> =>
         \A doc \in {Article(text, <<>>), Article(<<"a">>, text)} :
           Rules!IsFound(doc, part) /\ Rules!IsFound(doc, Spelling(part))
  /\ \A text \in Texts(4) : Rules!Normalized(Rules!Normalized(text)) = Rules!Normalized(text)
  /\ \A text, query \in Texts(3) :
       Rules!Rank(Article(text, <<>>), query) < 2 /\ Rules!Normalized(query) # <<>>
         => Rules!IsFound(Article(text, <<>>), query)
  /\ \A text \in Texts(4) :
       text = Rules!Stripped(text) => Rules!Rank(Article(text, <<>>), <<" ">> \o text) = 0

LineKinds == {"text", "ul", "ol", "heading", "fence", "blank"}
Documents == UNION {[1..k -> LineKinds] : k \in 0..5}
Shown(doc) == Rules!FlattenSeq([b \in 1..Len(Rules!Rendered(doc)) |-> Rules!Rendered(doc)[b].lines])
Fences(doc, i) == Cardinality({j \in 1..(i - 1) : doc[j] = "fence"})
IsVerbatim(doc, i) == doc[i] # "fence" /\ Fences(doc, i) % 2 = 1
\* A line of text right after a list item or after another such line.
IsLoose(doc, i) ==
  /\ doc[i] = "text" /\ ~IsVerbatim(doc, i)
  /\ \E j \in 1..(i - 1) : doc[j] \in {"ul", "ol"} /\ ~IsVerbatim(doc, j)
                           /\ \A k \in (j + 1)..i : doc[k] = "text"

\* Every line of an article is shown exactly once, those of a code block too,
\* and in the order they were written as long as paragraphs are separated from
\* the list before them (a loose line is shown before that list).
ASSUME RenderingKeepsLines ==
  \A doc \in Documents :
    LET display == Shown(doc)
        lines == {i \in 1..Len(doc) : doc[i] \notin {"blank", "fence"} \/ IsVerbatim(doc, i)}
    IN  /\ Len(display) = Cardinality(lines)
        /\ {display[k] : k \in 1..Len(display)} = lines
        /\ (\A i, j \in 1..Len(display) : i < j => display[i] < display[j])
             <=> ~\E i \in 1..Len(doc) : IsLoose(doc, i)

Files == [size : {0, 1, 8, 9, 15, 16}, kind : Rules!FileKinds,
          declared : Rules!FileKinds \cup {""}, clean : BOOLEAN]

\* No file passes both as an image and as a voice note, and article images and
\* chat images are the same files, but for the scan.
ASSUME UploadsAgree ==
  \A file \in Files :
    /\ ~(Rules!IsChatUpload(file, "IMAGE") /\ Rules!IsChatUpload(file, "VOICE"))
    /\ Rules!IsChatUpload(file, "IMAGE") => Rules!IsArticleUpload(file)
    /\ Rules!IsArticleUpload(file) /\ "pdf" \notin {file.kind, file.declared} /\ file.clean
         => Rules!IsChatUpload(file, "IMAGE")

Titled == [title : {<<"a">>}, excerpt : {<<>>}, slug : {"s", "t"}, workspace : {"w1", "w2"},
           category : {0, 1, 2}, status : Statuses, visibility : Visibilities]
Worlds ==
  {[articles |-> (1 :> a @@ 2 :> b),
    categories |-> (1 :> [workspace |-> "w1", is_active |-> TRUE, slug |-> 7])
                     @@ (2 :> [workspace |-> "w2", is_active |-> TRUE, slug |-> 7]),
    projects |-> {[public_key |-> "k1", workspace |-> "w1", is_active |-> TRUE],
                  [public_key |-> "k2", workspace |-> "w2", is_active |-> FALSE]}] :
     <<a, b>> \in {p \in Titled \X Titled :
                     /\ p[1].workspace # p[2].workspace \/ p[1].slug # p[2].slug
                     /\ \A x \in {p[1], p[2]} : x.category # 0 => x.workspace = <<"w1", "w2">>[x.category]}}

\* The public pages, lists, searches and those of other articles, show exactly
\* the articles of the storefront whose key was sent that are published and
\* meant for customers, and those are the ones that have a page of their own,
\* are found and are listed; a category's list is of exactly its articles.
ASSUME PublicPagesAgree ==
  \A db \in Worlds : \A key \in {"k1", "k2", "k3"} :
    LET w == "w1"
        onPages == UNION {Rules!ListedArticles(db, w, slug) : slug \in {0, 7, 8}}
                   \cup Rules!FoundArticles(db, w, <<"a">>)
                   \cup UNION {Rules!RelatedArticles(db, w, a) : a \in 1..2}
    IN  /\ Rules!PublicWorkspace(db, key) = IF key = "k1" THEN {w} ELSE {}
        /\ \A a \in 1..2 :
             LET row == db.articles[a]
             IN  /\ a \in onPages <=> /\ row.workspace = w
                                     /\ row.status = "PUBLISHED"
                                     /\ row.visibility # "INTERNAL"
                 /\ Rules!PublicArticle(db, w, row.slug) = {a} <=> a \in onPages
                 /\ a \in onPages =>
                      /\ a \in Rules!FoundArticles(db, w, <<"A">>)
                      /\ a \in Rules!ListedArticles(db, w, IF row.category = 1 THEN 7 ELSE 0)
        /\ \A c \in Rules!PublicCategories(db, w) :
             Rules!ListedArticles(db, w, db.categories[c].slug) =
               {a \in Rules!ListedArticles(db, w, 0) : db.articles[a].category = c}
        /\ \A a, b \in 1..2 : a \in Rules!RelatedArticles(db, w, b) <=> b \in Rules!RelatedArticles(db, w, a)

Votes == [visitor : {"x", "y"}, is_helpful : BOOLEAN, conversation : {{}, {"x"}, {"y"}}]
Voted(cast) ==
  LET After[n \in 0..Len(cast)] ==
        IF n = 0 THEN {}
        ELSE Rules!SubmittedFeedback(After[n - 1], [id |-> 1, workspace |-> "w1"], cast[n].visitor,
               cast[n].is_helpful, {[visitor |-> v, workspace |-> "w1"] : v \in cast[n].conversation})
  IN  After[Len(cast)]

\* The summary of an article counts each visitor once, by the last they said,
\* and a vote is never about somebody else's conversation.
ASSUME FeedbackCountsVisitors ==
  \A cast \in UNION {[1..k -> Votes] : k \in 0..3} :
    LET last == {n \in DOMAIN cast : \A k \in DOMAIN cast : cast[k].visitor = cast[n].visitor => k <= n}
    IN  /\ Rules!FeedbackSummary(Voted(cast), 1) =
             [helpful |-> Cardinality({n \in last : cast[n].is_helpful}),
              not_helpful |-> Cardinality({n \in last : ~cast[n].is_helpful}), total |-> Cardinality(last)]
        /\ \A r \in Voted(cast) : \A c \in r.conversation : c.visitor = r.visitor

\* An operator renames and shares an article; ids may repeat, as a retry does.
CardOps == {<<"rename", t>> : t \in {"old", "new"}} \cup {<<"share", id>> : id \in {1, 2}}
Cards(ops) ==
  LET Titles(n) == {k \in 1..n : ops[k][1] = "rename"}
      TitleAt(n) == IF Titles(n) = {} THEN "old" ELSE ops[CHOOSE k \in Titles(n) : \A j \in Titles(n) : j <= k][2]
      Db(n) == [articles |-> 1 :> [title |-> TitleAt(n), excerpt |-> <<>>, slug |-> "s", category |-> 0]]
      After[n \in 0..Len(ops)] ==
        IF n = 0 THEN <<>>
        ELSE IF ops[n][1] = "rename" THEN After[n - 1]
        ELSE Rules!SharedCard(Db(n), After[n - 1], 1, ops[n][2])
  IN  [cards |-> After[Len(ops)], title |-> [n \in 0..Len(ops) |-> TitleAt(n)]]

\* A card shows the article as it was when its id was first shared, whatever
\* happens to the article afterwards and however often the request is repeated.
ASSUME CardsAreFrozen ==
  \A ops \in UNION {[1..k -> CardOps] : k \in 0..5} :
    LET shares(id) == {n \in DOMAIN ops : ops[n] = <<"share", id>>}
    IN  \A id \in {1, 2} :
          /\ id \in DOMAIN Cards(ops).cards <=> shares(id) # {}
          /\ \A n \in shares(id) : (\A k \in shares(id) : n <= k) =>
               Cards(ops).cards[id].title = Cards(ops).title[n]
=============================================================================
