------------------------------ MODULE NotesPage ------------------------------
(***************************************************************************)
(* pages/Notes.tsx: the table of contents, the article of the route, the   *)
(* search in the bodies and the list of articles read, which an answer     *)
(* extends from the list its request was sent with.                        *)
(***************************************************************************)
EXTENDS Screen

CONSTANTS Articles, Queries

ASSUME ArticlesNamed == None \notin Articles

NotesInit ==
    /\ page = "notes"
    /\ \E route \in Articles \cup {None}, read \in SUBSET Articles :
          ui = [route |-> route, toc |-> FALSE, loadingToc |-> TRUE, active |-> None,
                markdown |-> None, loadingArt |-> FALSE, error |-> FALSE, read |-> read,
                query |-> None, timer |-> FALSE, hits |-> None, searching |-> FALSE,
                searchError |-> FALSE, flying |-> Ask(<<>>, "toc", None)]

\* openArticle before its await: a new number outdates the earlier requests.
OpenArticle(s, id) ==
    [s EXCEPT !.active = id, !.loadingArt = TRUE, !.error = FALSE,
              !.flying = Ask(@, "article", [id |-> id, read |-> s.read])]

\* The effect on the route and the table of contents opens the route's article
\* unless it is the open one and some text is there.
FollowRoute(s) ==
    IF s.route = None \/ ~s.toc \/ (s.active = s.route /\ s.markdown # None) THEN s
    ELSE OpenArticle(s, s.route)

TocAnswer(i, ok) ==
    /\ ui.flying[i].what = "toc"
    /\ Heard(i, IF ok THEN FollowRoute([ui EXCEPT !.toc = TRUE, !.loadingToc = FALSE])
                ELSE [ui EXCEPT !.error = TRUE, !.loadingToc = FALSE])

\* The error page of a missing table of contents offers to load it again.
RetryToc ==
    /\ ~ui.toc /\ ~ui.loadingToc /\ Room(ui.flying)
    /\ ui' = [ui EXCEPT !.loadingToc = TRUE, !.error = FALSE, !.flying = Ask(@, "toc", None)]

\* openArticle after its await: text, the mark that it was read, or the error.
WithArticle(s, asked, ok) ==
    IF ok THEN [s EXCEPT !.markdown = asked.id, !.loadingArt = FALSE,
                         !.read = IF asked.id \in asked.read THEN @ ELSE asked.read \cup {asked.id}]
    ELSE [s EXCEPT !.markdown = None, !.error = TRUE, !.loadingArt = FALSE]

\* Faulty: the number of the request is not compared.
ArticleAnswerLate(i, ok) ==
    /\ ui.flying[i].what = "article"
    /\ Taken(i, WithArticle(ui, ui.flying[i].of, ok))

ArticleAnswer(i, ok) ==
    /\ ui.flying[i].what = "article"
    /\ Heard(i, WithArticle(ui, ui.flying[i].of, ok))

\* A click on an article changes the route too, and with it the effect runs.
ClickArticle(id) ==
    /\ ui.toc /\ Len(ui.flying) + 1 < MaxFlying
    /\ LET opened == OpenArticle(ui, id)
       IN  ui' = IF ui.route = id THEN opened ELSE FollowRoute([opened EXCEPT !.route = id])

\* Back and forward change the route only; without an article in the route the
\* effect leaves the open article alone.
Browse(route) ==
    /\ route # ui.route /\ Room(ui.flying)
    /\ ui' = FollowRoute([ui EXCEPT !.route = route])

\* The button above the sections closes the article.
LeaveArticle ==
    /\ ui.toc
    /\ ui' = [ui EXCEPT !.active = None, !.markdown = None, !.route = None,
                        !.flying = Superseded(@, "article")]

\* A new query cancels the search of the old one and waits 250 ms.
Type(query) ==
    /\ ui.toc /\ query # ui.query
    /\ ui' = IF query = None
             THEN [ui EXCEPT !.query = None, !.timer = FALSE, !.hits = None, !.searching = FALSE,
                             !.searchError = FALSE, !.flying = Superseded(@, "search")]
             ELSE [ui EXCEPT !.query = query, !.timer = TRUE, !.flying = Superseded(@, "search")]

SearchTimer ==
    /\ ui.timer /\ Room(ui.flying)
    /\ ui' = [ui EXCEPT !.timer = FALSE, !.searching = TRUE, !.searchError = FALSE,
                        !.flying = Ask(@, "search", ui.query)]

SearchAnswer(i, ok) ==
    /\ ui.flying[i].what = "search"
    /\ Heard(i, [ui EXCEPT !.hits = IF ok THEN ui.flying[i].of ELSE None,
                           !.searchError = ~ok, !.searching = FALSE])

NotesNext ==
    /\ page = "notes" /\ UNCHANGED page
    /\ \/ \E i \in DOMAIN ui.flying, ok \in BOOLEAN :
             TocAnswer(i, ok) \/ ArticleAnswer(i, ok) \/ SearchAnswer(i, ok)
       \/ \E id \in Articles : ClickArticle(id)
       \/ \E route \in Articles \cup {None} : Browse(route)
       \/ \E query \in Queries \cup {None} : Type(query)
       \/ RetryToc \/ LeaveArticle \/ SearchTimer

\* The article pane: nothing, or under the title of the open article its text,
\* marked busy while another is loading, the loading line, or the error.
ArticlePane(s) ==
    {w \in {"welcome", "title", "loading", "error", "busy text", "text"} :
        \/ w = "welcome" /\ s.active = None
        \/ w = "title" /\ s.active # None
        \/ w = "loading" /\ s.active # None /\ s.loadingArt /\ s.markdown = None
        \/ w = "error" /\ s.active # None /\ s.error
        \/ w = "busy text" /\ s.active # None /\ s.markdown # None /\ s.loadingArt
        \/ w = "text" /\ s.active # None /\ s.markdown # None /\ ~s.loadingArt}

\* Hits of the bodies that are listed for the query, and whether it is still
\* being searched.
SearchPane(s) == [hits |-> IF s.query = None THEN None ELSE s.hits,
                  busy |-> s.searching \/ s.timer]
-----------------------------------------------------------------------------
\* Under the title of an article stands its own text unless the pane is marked
\* busy, and hits belong to the query unless it is still being searched: clicks,
\* browser history and late answers never mix two articles.
NotesShowsSelection ==
    page = "notes" =>
        /\ "text" \in ArticlePane(ui) => ui.markdown = ui.active
        /\ "title" \in ArticlePane(ui) => ArticlePane(ui) \cap {"loading", "error", "busy text", "text"} # {}
        /\ SearchPane(ui).hits \in {None, ui.query} \/ SearchPane(ui).busy

\* The address names the open article whenever it names one.
NotesRouteOpen == page = "notes" /\ ui.toc /\ ui.route # None => ui.active = ui.route

\* The list of articles read never loses one, although each answer writes it
\* from the list that was current when its request was sent.
NotesReadKept == [][page = "notes" => ui.read \subseteq ui'.read]_screen
=============================================================================
