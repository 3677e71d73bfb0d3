--------------------------- MODULE KnowledgeRules ---------------------------
(***************************************************************************)
(* Pure parts of the knowledge base: the category tree, search, the block  *)
(* structure of rendered Markdown, and the validation of uploads, with the *)
(* chat's own upload validation beside it.                                 *)
(***************************************************************************)
EXTENDS Integers, FiniteSets, SequencesExt

CONSTANT None

-----------------------------------------------------------------------------
(* Categories (serializers.py): parent is a function on categories.        *)

\* validate_parent walks up from the new parent and stops at the category
\* itself or at one it has seen.
Ancestors(parent, c) ==
  LET Up[known \in SUBSET DOMAIN parent] ==
        LET more == known \cup ({parent[x] : x \in known} \ {None})
        IN  IF more = known THEN known ELSE Up[more]
  IN  Up[{c}]

AcceptsParent(parent, c, p) == p = None \/ c \notin Ancestors(parent, p)

-----------------------------------------------------------------------------
(* Search (search.py): texts are sequences of characters.                  *)

Spaces == {" ", "tab"}
Lower(c) == IF c = "A" THEN "a" ELSE c
Folded(c) == IF c = "Arabic yeh" THEN "Persian yeh" ELSE Lower(c)

\* Folds case and homographs, collapses white space and strips the ends.
Normalized(text) ==
  LET Stays(i) ==
        \/ text[i] \notin Spaces
        \/ /\ i > 1 /\ text[i - 1] \notin Spaces
           /\ \E j \in i..Len(text) : text[j] \notin Spaces
      kept == SelectSeq([i \in 1..Len(text) |-> i], Stays)
  IN  [k \in 1..Len(kept) |-> IF text[kept[k]] \in Spaces THEN " " ELSE Folded(text[kept[k]])]

Stripped(text) ==
  LET solid == {i \in 1..Len(text) : text[i] \notin Spaces}
  IN  IF solid = {} THEN <<>> ELSE SubSeq(text, Min(solid), Max(solid))

InLower(text) == [i \in 1..Len(text) |-> Lower(text[i])]
Occurs(part, text) == \E i \in 1..(Len(text) + 1) : IsPrefix(part, SubSeq(text, i, Len(text)))

\* build_search_text, of the title and the excerpt.
SearchText(article) ==
  Normalized(article.title
    \o (IF article.title # <<>> /\ article.excerpt # <<>> THEN <<" ">> ELSE <<>>)
    \o article.excerpt)

IsFound(article, query) ==
  Normalized(query) # <<>> /\ Occurs(Normalized(query), SearchText(article))

\* The title and the excerpt are compared with the query as it was typed.
Rank(article, query) ==
  LET typed == InLower(Stripped(query))
  IN  IF InLower(article.title) = typed THEN 0
      ELSE IF Occurs(typed, InLower(article.title)) THEN 1
      ELSE IF Occurs(typed, InLower(article.excerpt)) THEN 2
      ELSE 3

-----------------------------------------------------------------------------
(* render_markdown: a source line is its kind, its text is its number. The *)
(* result is a sequence of blocks, each a tag and the lines in it.         *)

Block(tag, lines) == [tag |-> tag, lines |-> lines]
NoList == Block("none", <<>>)
Start == [out |-> <<>>, list |-> NoList, para |-> <<>>, code |-> FALSE, verbatim |-> <<>>]

FlushParagraph(st) ==
  IF st.para = <<>> THEN st
  ELSE [st EXCEPT !.out = Append(@, Block("p", st.para)), !.para = <<>>]
FlushList(st) ==
  IF st.list = NoList THEN st ELSE [st EXCEPT !.out = Append(@, st.list), !.list = NoList]
Flush(st) == FlushList(FlushParagraph(st))
FlushCode(st) ==
  [st EXCEPT !.out = Append(@, Block("pre", st.verbatim)), !.code = FALSE, !.verbatim = <<>>]

AddItem(st, tag, i) ==
  LET open == IF st.list.tag = tag THEN st ELSE [FlushList(st) EXCEPT !.list = Block(tag, <<>>)]
  IN  [open EXCEPT !.list.lines = Append(@, i)]

RenderLine(st, kind, i) ==
  CASE st.code -> IF kind = "fence" THEN FlushCode(st) ELSE [st EXCEPT !.verbatim = Append(@, i)]
    [] ~st.code /\ kind = "fence" -> [Flush(st) EXCEPT !.code = TRUE]
    [] ~st.code /\ kind = "heading" -> [Flush(st) EXCEPT !.out = Append(@, Block("h", <<i>>))]
    [] ~st.code /\ kind \in {"ul", "ol"} -> AddItem(FlushParagraph(st), kind, i)
    [] ~st.code /\ kind = "blank" -> Flush(st)
    [] ~st.code /\ kind = "text" -> [st EXCEPT !.para = Append(@, i)]

Rendered(kinds) ==
  LET Line(st, i) == RenderLine(st, kinds[i], i)
      end == FoldLeft(Line, Start, [i \in 1..Len(kinds) |-> i])
  IN  Flush(IF end.code THEN FlushCode(end) ELSE end).out

-----------------------------------------------------------------------------
(* Uploads (attachments.py, conversations/media_validation.py). A file is  *)
(* its size in megabytes, the kind its first bytes show ("other" for none),*)
(* the declared kind ("" for none) and whether the scan hook passes it.    *)

ImageKinds == {"jpg", "png", "gif", "webp"}
AudioKinds == {"webm", "ogg", "mp3", "wav", "m4a"}
FileKinds == ImageKinds \cup AudioKinds \cup {"pdf", "other"}

IsUpload(file, most, kinds) ==
  /\ file.size > 0 /\ file.size <= most
  /\ file.kind \in kinds
  /\ file.declared \in kinds \cup {""}

IsChatUpload(file, type) ==
  /\ IF type = "IMAGE" THEN IsUpload(file, 8, ImageKinds) ELSE IsUpload(file, 15, AudioKinds)
  /\ file.clean

IsArticleUpload(file) == IsUpload(file, 8, ImageKinds \cup {"pdf"})

-----------------------------------------------------------------------------
(* The public pages (views.py). db.articles and db.categories are functions *)
(* on rows, db.projects is a set; a page is asked for with a project's key. *)

PublicWorkspace(db, key) == {p.workspace : p \in {x \in db.projects : x.public_key = key /\ x.is_active}}

PublicArticles(db, w) ==
  {a \in DOMAIN db.articles : /\ db.articles[a].workspace = w
                              /\ db.articles[a].status = "PUBLISHED"
                              /\ db.articles[a].visibility \in {"CUSTOMER", "PUBLIC"}}

PublicCategories(db, w) ==
  {c \in DOMAIN db.categories : db.categories[c].workspace = w /\ db.categories[c].is_active}

ListedArticles(db, w, slug) ==
  {a \in PublicArticles(db, w) :
     slug = None \/ \E c \in {db.articles[a].category} \ {None} : db.categories[c].slug = slug}
FoundArticles(db, w, query) == {a \in PublicArticles(db, w) : IsFound(db.articles[a], query)}
PublicArticle(db, w, slug) == {a \in PublicArticles(db, w) : db.articles[a].slug = slug}

\* Of an article that is not public there is no page to be related to; the page
\* shows the first five.
RelatedArticles(db, w, a) ==
  {b \in PublicArticles(db, w) \ {a} :
     a \in PublicArticles(db, w) /\ db.articles[b].category \in {db.articles[a].category} \ {None}}

-----------------------------------------------------------------------------
(* Feedback and cards (services.py). A conversation is the set of none or   *)
(* one that the request names.                                             *)

\* update_or_create: a visitor has one row for an article, the last they sent.
SubmittedFeedback(rows, article, v, helpful, conversation) ==
  {r \in rows : r.article # article.id \/ r.visitor # v}
    \cup {[article |-> article.id, visitor |-> v, is_helpful |-> helpful,
           conversation |-> {c \in conversation : c.visitor = v /\ c.workspace = article.workspace}]}

FeedbackSummary(rows, a) ==
  LET Votes(helpful) == Cardinality({r \in rows : r.article = a /\ r.is_helpful = helpful})
  IN  [helpful |-> Votes(TRUE), not_helpful |-> Votes(FALSE), total |-> Votes(TRUE) + Votes(FALSE)]

CardSnapshot(db, a) ==
  [article |-> a, title |-> db.articles[a].title, excerpt |-> db.articles[a].excerpt,
   slug |-> db.articles[a].slug, category |-> db.articles[a].category]

\* cards is a function on client message ids; a repeated id changes nothing.
SharedCard(db, cards, a, id) ==
  [i \in DOMAIN cards \cup {id} |-> IF i \in DOMAIN cards THEN cards[i] ELSE CardSnapshot(db, a)]

=============================================================================
