------------------------------- MODULE ArenaPage -------------------------------
(***************************************************************************)
(* pages/Arena.tsx: the board of the five players and the comparison of    *)
(* two stocks, as page "arena", and components/arena/StockSelector.tsx,    *)
(* which searches one of the two, as page "selector".                      *)
(***************************************************************************)
EXTENDS Screen

CONSTANTS Presets,      \* the pairs offered for a comparison
          Typed         \* the searches of two letters and more

Sides == {"A", "B"}
FirstPreset == CHOOSE preset \in Presets : TRUE

\* The effect on the market, whose cleanup invalidates the gate.
LoadArena(s) ==
    [s EXCEPT !.loading = TRUE, !.error = FALSE, !.flying = AskAnew(@, "arena", s.market)]

\* A pair of stocks is asked for on mount and by a preset, without a gate.
AskPair(s, what, preset) ==
    [s EXCEPT !.flying = Append(@, [what |-> what, of |-> preset, current |-> TRUE])]

\* players names the market of the players that are kept and trust what the
\* source of the last answer is worth.
ArenaInit ==
    /\ page = "arena"
    /\ ui = AskPair(LoadArena([market |-> "us", tab |-> "board", players |-> None, trust |-> "unavailable",
                               loading |-> TRUE, error |-> FALSE, pair |-> [side \in Sides |-> None],
                               flying |-> <<>>]), "mount", FirstPreset)

SelectArenaMarket(market) ==
    /\ Room(ui.flying)
    /\ LET s == [ui EXCEPT !.market = market, !.tab = IF market = "cn" THEN "board" ELSE @]
       IN  ui' = IF market = ui.market THEN s ELSE LoadArena(s)

\* The tab of the comparison is offered for the American market only.
SetArenaTab(tab) ==
    /\ tab # ui.tab /\ (tab = "compare" => ui.market = "us")
    /\ ui' = [ui EXCEPT !.tab = tab]

RetryArena ==
    /\ ui.tab = "board" /\ ~ui.loading /\ (ui.error \/ ui.trust # "live") /\ Room(ui.flying)
    /\ ui' = LoadArena(ui)

ApplyArenaPreset(preset) ==
    /\ ui.tab = "compare" /\ Room(ui.flying)
    /\ ui' = AskPair(ui, "preset", preset)

\* onChange of a selector: another stock, or none.
ChooseStock(side, stock) ==
    /\ ui.tab = "compare" /\ (stock = None <=> ui.pair[side] # None)
    /\ ui' = [ui EXCEPT !.pair[side] = stock]

\* An answer without players is not worth more than one without a source.
ArenaAnswer(i, trust) ==
    /\ ui.flying[i].what = "arena"
    /\ Heard(i, [ui EXCEPT !.players = ui.flying[i].of, !.trust = trust, !.loading = FALSE])

ArenaFailed(i) ==
    /\ ui.flying[i].what = "arena"
    /\ Heard(i, [ui EXCEPT !.players = None, !.trust = "unavailable", !.error = TRUE, !.loading = FALSE])

\* found: the sides whose stock is known.
MountPair(i, found) ==
    /\ ui.flying[i].what = "mount"
    /\ Taken(i, [ui EXCEPT !.pair = [side \in Sides |-> IF side \in found THEN ui.flying[i].of ELSE @[side]]])

PresetPair(i, found) ==
    /\ ui.flying[i].what = "preset"
    /\ Taken(i, [ui EXCEPT !.pair = [side \in Sides |-> IF side \in found THEN ui.flying[i].of ELSE None],
                           !.tab = "compare"])

\* The file of the stocks cannot be had: the promise is rejected.
PairFailed(i) == ui.flying[i].what \in {"mount", "preset"} /\ Taken(i, ui)

ArenaNext ==
    /\ page = "arena" /\ UNCHANGED page
    /\ \/ \E market \in {"us", "cn"} : SelectArenaMarket(market)
       \/ \E tab \in {"board", "compare"} : SetArenaTab(tab)
       \/ RetryArena
       \/ \E preset \in Presets : ApplyArenaPreset(preset)
       \/ \E side \in Sides, stock \in {None, "searched"} : ChooseStock(side, stock)
       \/ \E i \in DOMAIN ui.flying :
             \/ ArenaFailed(i) \/ PairFailed(i)
             \/ \E trust \in {"live", "stale", "unavailable"} : ArenaAnswer(i, trust)
             \/ \E found \in SUBSET Sides : MountPair(i, found) \/ PresetPair(i, found)

ArenaNotice(s) ==
    IF s.tab # "board" THEN None ELSE IF s.loading THEN "loading"
    ELSE IF s.error THEN "error" ELSE IF s.trust # "live" THEN s.trust ELSE None

\* Ranks, values, holdings and trades.
BoardShows(s) == IF s.tab = "board" /\ ArenaNotice(s) = None THEN {s.players} ELSE {}

ComparisonShows(s) ==
    IF s.tab = "compare" /\ \A side \in Sides : s.pair[side] # None THEN {s.pair} ELSE {}

\* The two figures of a line, the price or the market value.  The cell of A asks
\* whether a is the greater one, and so does, with both changed round, the cell
\* of B: then both stand out, and otherwise neither.
Outstanding(a, b) == IF a > b THEN Sides ELSE {}

\* The selector.  debounced follows query after 300 ms; results are those of a
\* search, open the list that shows them.
SelectorInit ==
    /\ page = "selector"
    /\ ui = [value |-> FALSE, query |-> None, debounced |-> None, results |-> None, open |-> FALSE,
             isSearching |-> FALSE, error |-> FALSE, flying |-> <<>>]

SearchStocks(s) ==
    [s EXCEPT !.isSearching = TRUE, !.error = FALSE, !.flying = Ask(@, "search", s.debounced)]

\* The effect on the search and the retry.  Without a search the gate is
\* invalidated and isSearching stays as it is.
SelectorEffect(s) ==
    IF s.debounced # None THEN SearchStocks(s)
    ELSE [s EXCEPT !.results = None, !.error = FALSE, !.flying = Superseded(@, "search")]

TypeSelector(query) ==
    ~ui.value /\ query # ui.query /\ ui' = [ui EXCEPT !.query = query]

DebounceTimer ==
    /\ ui.debounced # ui.query /\ Room(ui.flying)
    /\ ui' = SelectorEffect([ui EXCEPT !.debounced = ui.query])

OpenResults == ~ui.value /\ ui.query # None /\ ui' = [ui EXCEPT !.open = TRUE]

\* The timer of a blur, 200 ms later, by when a result may have been chosen.
BlurTimer == ui.open /\ ui' = [ui EXCEPT !.open = FALSE]

SelectorShows(s) == IF ~s.value /\ s.open /\ s.results # None THEN {s.results} ELSE {}

SelectResult ==
    /\ SelectorShows(ui) # {}
    /\ ui' = [ui EXCEPT !.value = TRUE, !.query = None, !.results = None, !.open = FALSE]

ClearStock == ui.value /\ ui' = [ui EXCEPT !.value = FALSE, !.query = None, !.results = None]

\* The page may put a stock in its place, or take it away.
ValueGiven == ui' = [ui EXCEPT !.value = ~@]

RetrySelector == ~ui.value /\ ~ui.isSearching /\ ui.error /\ Room(ui.flying) /\ ui' = SelectorEffect(ui)

SelectorAnswer(i) ==
    Heard(i, [ui EXCEPT !.results = ui.flying[i].of, !.open = TRUE, !.isSearching = FALSE])

SelectorFailed(i) ==
    Heard(i, [ui EXCEPT !.results = None, !.open = FALSE, !.error = TRUE, !.isSearching = FALSE])

SelectorNext ==
    /\ page = "selector" /\ UNCHANGED page
    /\ \/ \E query \in Typed \cup {None} : TypeSelector(query)
       \/ DebounceTimer \/ OpenResults \/ BlurTimer \/ SelectResult \/ ClearStock \/ ValueGiven \/ RetrySelector
       \/ \E i \in DOMAIN ui.flying : SelectorAnswer(i) \/ SelectorFailed(i)
-----------------------------------------------------------------------------
\* The board shows the players of the chosen market, whichever answers come late,
\* and a live source; the results under a search are its own once no request for
\* them is waited for, and none are there without a search.
ArenaShowsOwn ==
    /\ page = "arena" /\ BoardShows(ui) # {} => BoardShows(ui) = {ui.market} /\ ui.trust = "live"
    /\ page = "selector" /\ ~Waiting(ui.flying, "search") => ui.results \in {None, ui.debounced}

\* A board that is loading waits for its players, and a search that is waited for
\* is marked.  (The mark of the search may outlive it.)
ArenaNeverStuck ==
    /\ page = "arena" /\ ui.loading => Waiting(ui.flying, "arena")
    /\ page = "selector" /\ Waiting(ui.flying, "search") => ui.isSearching
=============================================================================
