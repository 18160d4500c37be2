------------------------------- MODULE WhalesPage -------------------------------
(***************************************************************************)
(* pages/Whales.tsx with the page part of stores/whalesStore.ts, as page   *)
(* "whales": the lists of investors, of what they agree on and of members  *)
(* of congress, kept in the store, which outlives the page.  And           *)
(* pages/WhaleDetail.tsx and pages/PoliticianDetail.tsx, as page           *)
(* "profile": one investor or one member of congress, named by the path.   *)
(***************************************************************************)
EXTENDS Screen

CONSTANTS Disclosers,   \* the categories of investors
          Dense,        \* those of them listed without the consensus
          Filters,      \* the filters of the congress tab, party with type
          Slugs,        \* who may be named
          Periods       \* the report periods an investor has

\* A list of the store: nothing, a failure, or the question it answers; and
\* whether it is marked as loading.
List == [has : {None, "failure"} \cup Disclosers \cup Filters, loading : BOOLEAN]

Empty == [has |-> None, loading |-> FALSE]

\* A fetch takes the error away and keeps the list.
Loading(list) == [has |-> IF list.has = "failure" THEN None ELSE list.has, loading |-> TRUE]

FetchPageInvestors(s, category) ==
    [s EXCEPT !.pageCategory = category, !.investors = Loading(@),
              !.flying = Append(@, [what |-> "investors", of |-> category, current |-> TRUE])]

FetchPageConsensus(s, category) ==
    [s EXCEPT !.pageCategory = category, !.consensus = Loading(@),
              !.flying = Append(@, [what |-> "consensus", of |-> category, current |-> TRUE])]

FetchPageCongress(s, filter) ==
    [s EXCEPT !.pageFilter = filter, !.congress = Loading(@),
              !.flying = Append(@, [what |-> "congress", of |-> filter, current |-> TRUE])]

\* The effects on the tab and the filter that belongs to it.
TabEffects(s) ==
    IF s.tab = "institutions" THEN FetchPageConsensus(FetchPageInvestors(s, s.category), s.category)
    ELSE FetchPageCongress(s, s.filter)

AllDisclosers == CHOOSE category \in Disclosers \ Dense : TRUE
AllFilters == CHOOSE filter \in Filters : TRUE

WhalesInit ==
    /\ page = "whales"
    /\ ui = TabEffects([tab |-> "institutions", category |-> AllDisclosers, filter |-> AllFilters,
                        pageCategory |-> AllDisclosers, pageFilter |-> AllFilters,
                        investors |-> Empty, consensus |-> Empty, congress |-> Empty, flying |-> <<>>])

RoomFor(n) == Len(ui.flying) + n <= MaxFlying

SetActiveTab(tab) ==
    /\ tab # ui.tab /\ RoomFor(IF tab = "institutions" THEN 2 ELSE 1)
    /\ ui' = TabEffects([ui EXCEPT !.tab = tab])

SetDisclosers(category) ==
    /\ ui.tab = "institutions" /\ category # ui.category /\ RoomFor(2)
    /\ ui' = TabEffects([ui EXCEPT !.category = category])

SetFilter(filter) ==
    /\ ui.tab = "congress" /\ filter # ui.filter /\ RoomFor(1)
    /\ ui' = TabEffects([ui EXCEPT !.filter = filter])

\* The page is left and opened again: its own choices start anew.
ReopenWhales ==
    /\ RoomFor(2)
    /\ ui' = TabEffects([ui EXCEPT !.tab = "institutions", !.category = AllDisclosers, !.filter = AllFilters])

\* The buttons of the status lines.
RetryInvestors ==
    ui.tab = "institutions" /\ RoomFor(1) /\ ui' = FetchPageInvestors(ui, ui.category)

RetryConsensus ==
    /\ ui.tab = "institutions" /\ ui.category \notin Dense /\ ~ui.investors.loading /\ ui.investors.has # "failure"
    /\ RoomFor(1)
    /\ ui' = FetchPageConsensus(ui, ui.category)

RetryCongress == ui.tab = "congress" /\ RoomFor(1) /\ ui' = FetchPageCongress(ui, ui.filter)

\* refreshWhalesPage: the refresh of the shown data asks for everything again.
RefreshWhalesPage ==
    /\ RoomFor(3)
    /\ ui' = FetchPageCongress(FetchPageConsensus(FetchPageInvestors(ui, ui.pageCategory), ui.pageCategory),
                               ui.pageFilter)

Result(i, ok) == [has |-> IF ok THEN ui.flying[i].of ELSE "failure", loading |-> FALSE]

\* The store compares the question with the one it asked last.
InvestorsAnswer(i, ok) ==
    /\ ui.flying[i].what = "investors"
    /\ Taken(i, [ui EXCEPT !.investors = IF ui.pageCategory = ui.flying[i].of THEN Result(i, ok) ELSE @])

ConsensusAnswer(i, ok) ==
    /\ ui.flying[i].what = "consensus"
    /\ Taken(i, [ui EXCEPT !.consensus = IF ui.pageCategory = ui.flying[i].of THEN Result(i, ok) ELSE @])

CongressAnswer(i, ok) ==
    /\ ui.flying[i].what = "congress"
    /\ Taken(i, [ui EXCEPT !.congress = IF ui.pageFilter = ui.flying[i].of THEN Result(i, ok) ELSE @])

WhalesNext ==
    /\ page = "whales" /\ UNCHANGED page
    /\ \/ \E i \in DOMAIN ui.flying, ok \in BOOLEAN :
             InvestorsAnswer(i, ok) \/ ConsensusAnswer(i, ok) \/ CongressAnswer(i, ok)
       \/ \E tab \in {"institutions", "congress"} : SetActiveTab(tab)
       \/ \E category \in Disclosers : SetDisclosers(category)
       \/ \E filter \in Filters : SetFilter(filter)
       \/ ReopenWhales \/ RetryInvestors \/ RetryConsensus \/ RetryCongress \/ RefreshWhalesPage

StatusOf(list) ==
    IF list.has = "failure" THEN "error" ELSE IF list.loading THEN "loading"
    ELSE IF list.has = None THEN "unavailable" ELSE "live"

\* The institutions tab shows cards, and the consensus beside them unless the
\* category is a dense one, which shows the rows of each investor.
InstitutionsShown(s) == s.tab = "institutions" /\ StatusOf(s.investors) \notin {"error", "loading"}

InvestorRows(s) == IF InstitutionsShown(s) /\ s.category \in Dense THEN {s.investors.has} ELSE {}
InvestorCards(s) == IF InstitutionsShown(s) /\ s.category \notin Dense THEN {s.investors.has} ELSE {}

\* The counts and the list of what is held most wait for the consensus.
ConsensusShown(s) ==
    IF InvestorCards(s) # {} /\ StatusOf(s.consensus) \notin {"error", "loading"} THEN {s.consensus.has} ELSE {}

\* The lists of what was added and trimmed most do not.
ChangesShown(s) == IF InvestorCards(s) # {} THEN {s.consensus.has} ELSE {}

CongressShown(s) ==
    IF s.tab = "congress" /\ StatusOf(s.congress) \notin {"error", "loading"} THEN {s.congress.has} ELSE {}

\* An investor is shown with the current period or one chosen before.
PeriodChoices(kind) == IF kind = "investor" THEN Periods \cup {None} ELSE {None}

\* What an answer says of someone: the holdings or verified trades it has.
Profiled == {"verified", "nothing verified"}

\* The effect on the path, the period and the retry.
LoadProfile(s) ==
    [s EXCEPT !.loading = TRUE, !.error = FALSE,
              !.flying = Ask(@, "profile", <<s.slug, s.period>>)]

ProfileInit ==
    /\ page = "profile"
    /\ \E kind \in {"investor", "politician"}, slug \in Slugs :
          ui = LoadProfile([kind |-> kind, slug |-> slug, period |-> None, detail |-> None, of |-> None,
                            loading |-> TRUE, error |-> FALSE, flying |-> <<>>])

\* The effect on the slug puts the period back; the request that asks for the
\* old period of the new slug is replaced before its answer.
FollowSlug(slug) ==
    /\ slug # ui.slug /\ Room(ui.flying)
    /\ ui' = LoadProfile([ui EXCEPT !.slug = slug, !.period = None])

\* Someone may be unknown: then nothing is shown, without an error.
ProfileAnswer(i, what) ==
    Heard(i, [ui EXCEPT !.detail = what, !.of = ui.flying[i].of, !.loading = FALSE])

ProfileFailed(i) ==
    Heard(i, [ui EXCEPT !.detail = None, !.of = None, !.error = TRUE, !.loading = FALSE])

\* What covers the page: the loading, the outage with its retry, the profile.
ProfileView(s) == IF s.loading THEN "loading" ELSE IF s.detail = None THEN "unavailable" ELSE "profile"

RetryProfile ==
    /\ \/ ProfileView(ui) = "unavailable"
       \/ ProfileView(ui) = "profile" /\ (ui.kind = "politician" \/ ui.detail = "nothing verified")
    /\ Room(ui.flying)
    /\ ui' = LoadProfile(ui)

\* The select is there with the profile only.
SelectPeriod(period) ==
    /\ ui.kind = "investor" /\ ProfileView(ui) = "profile" /\ period # ui.period /\ Room(ui.flying)
    /\ ui' = LoadProfile([ui EXCEPT !.period = period])

ProfileNext ==
    /\ page = "profile" /\ UNCHANGED page
    /\ \/ \E i \in DOMAIN ui.flying : ProfileFailed(i) \/ \E what \in Profiled \cup {None} : ProfileAnswer(i, what)
       \/ \E slug \in Slugs : FollowSlug(slug)
       \/ \E period \in Periods : SelectPeriod(period)
       \/ RetryProfile

\* An investor: the head with source and period, then the holdings, or that none
\* can be verified.
InvestorShows(s) ==
    IF s.kind # "investor" \/ ProfileView(s) # "profile" THEN {}
    ELSE {"head"} \cup (IF s.detail = "verified" THEN {"counts", "holdings"} ELSE {"no holdings", "repair"})

\* A member of congress: the head with the status line, the warning over trades
\* that are not verified, and the trades.
PoliticianShows(s) ==
    IF s.kind # "politician" \/ ProfileView(s) # "profile" THEN {}
    ELSE {"head", "status", "trades"} \cup (IF s.detail = "verified" THEN {} ELSE {"warning"})
-----------------------------------------------------------------------------
\* Whatever is answered late, and whatever the store kept from an earlier visit,
\* the investors, the consensus and the disclosures on the page are those of the
\* category and the filter that are chosen.
WhalesListsOwn ==
    page = "whales" =>
        /\ InvestorRows(ui) \cup InvestorCards(ui) \cup ConsensusShown(ui) \subseteq {ui.category}
        /\ CongressShown(ui) \subseteq {ui.filter}

\* A list that is marked as loading has a request whose answer is taken.
WhalesNeverStuck ==
    page = "whales" =>
        /\ ui.investors.loading => \E i \in Flying(ui.flying, "investors") : ui.flying[i].of = ui.pageCategory
        /\ ui.consensus.loading => \E i \in Flying(ui.flying, "consensus") : ui.flying[i].of = ui.pageCategory
        /\ ui.congress.loading => \E i \in Flying(ui.flying, "congress") : ui.flying[i].of = ui.pageFilter

\* The name, the holdings and the trades on the page are those of the one the
\* path names, in the period that is chosen, and trades that are not verified
\* come with the warning.
ProfileShowsOwn ==
    page = "profile" =>
        /\ InvestorShows(ui) \cup PoliticianShows(ui) # {} => ui.of = <<ui.slug, ui.period>>
        /\ "trades" \in PoliticianShows(ui) /\ ui.detail # "verified" => "warning" \in PoliticianShows(ui)

\* "Loading" over a profile has a request to wait for.
ProfileNeverStuck ==
    page = "profile" /\ ProfileView(ui) = "loading" => Waiting(ui.flying, "profile")
=============================================================================
