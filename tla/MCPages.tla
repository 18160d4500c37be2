------------------------------- MODULE MCPages -------------------------------
(* The pages of the frontend, one mounted page at a time, for TLC. *)
EXTENDS
    HomePage, NotesPage, ETFPage, PortfolioPage, AlertMonitor, StockPage,
    DeskOrders, ScanPage, AdminSession, SettingsPage, ShellPage, RadarPage,
    ChartGrid, WhalesPage, LabSocket, AnalysisLab, ResearchPages,
    CopilotPage, JournalPage, GPUPage, ReportsPage, ArenaPage

Init ==
    \/ HomeInit
    \/ NotesInit
    \/ ETFInit
    \/ PortfolioInit
    \/ PaperPanelInit
    \/ AlertsInit
    \/ QDIIInit
    \/ StockInit
    \/ DeskOrdersInit
    \/ DeskStateInit
    \/ ScanInit
    \/ CacheInit
    \/ AdminInit
    \/ FormInit
    \/ SettingsInit
    \/ ShellInit
    \/ FreshInit
    \/ RadarInit
    \/ GridInit
    \/ ChartInit
    \/ WatchlistInit
    \/ WhalesInit
    \/ ProfileInit
    \/ SocketInit
    \/ LabInit
    \/ ResearchInit
    \/ CopilotInit
    \/ CnToolsInit
    \/ JournalInit
    \/ MacroInit
    \/ GPUInit
    \/ ReportsInit
    \/ FlashInit
    \/ ArenaInit
    \/ SelectorInit
    \/ PanelsInit
    \/ PulseInit
    \/ HeatInit

Next ==
    \/ HomeNext
    \/ NotesNext
    \/ ETFNext
    \/ PortfolioNext
    \/ PaperPanelNext
    \/ AlertsNext
    \/ QDIINext
    \/ StockNext
    \/ DeskOrdersNext
    \/ DeskStateNext
    \/ ScanNext
    \/ CacheNext
    \/ AdminNext
    \/ FormNext
    \/ SettingsNext
    \/ ShellNext
    \/ FreshNext
    \/ RadarNext
    \/ GridNext
    \/ ChartNext
    \/ WatchlistNext
    \/ WhalesNext
    \/ ProfileNext
    \/ SocketNext
    \/ LabNext
    \/ ResearchNext
    \/ CopilotNext
    \/ CnToolsNext
    \/ JournalNext
    \/ MacroNext
    \/ GPUNext
    \/ ReportsNext
    \/ FlashNext
    \/ ArenaNext
    \/ SelectorNext
    \/ PanelsNext
    \/ PulseNext
    \/ HeatNext

Spec == Init /\ [][Next]_screen
-----------------------------------------------------------------------------
\* What is settled on a page is of what is selected now: no list, record, quote,
\* article, report or advice of an earlier selection, and nothing of a private
\* portfolio after its session ended, however late an answer comes.  It leaves
\* out one price, which the poll of a symbol that was left writes into the stock
\* that is shown when it answers (StockShowsOwn).
PagesShowOwn ==
    /\ HomeShowsSelection
    /\ HeatDrawsCurrent
    /\ NotesShowsSelection
    /\ NotesRouteOpen
    /\ ETFShowsSelection
    /\ PaperPortfolioPrivate
    /\ StockShowsOwn
    /\ DeskQuoteOwn
    /\ DeskAuditOfOrders
    /\ ScanStoreCurrent
    /\ ShellResultsOwn
    /\ WhalesListsOwn
    /\ ProfileShowsOwn
    /\ HistoryRunShown
    /\ LabAdvicePublished
    /\ ReportRouteShown
    /\ ArenaShowsOwn

\* A value that is shown as current, validated or live is one: data that a
\* failed call left in place, that storage restored or that has no source is
\* marked, counted as missing or gone.
StaleIsMarked ==
    /\ HomeScoresValidated
    /\ HomeHistoryMarked
    /\ ETFListMarked
    /\ PortfolioQuotesTold
    /\ PortfolioValuesMarked
    /\ QDIIItemsLive
    /\ StockPriceCurrent
    /\ RadarFailureClears
    /\ WatchlistPricesUsable
    /\ CopilotFactsTrusted
    /\ CnNothingKept
    /\ FlashLiveTold
    /\ PanelsTrusted

\* A failure stays told until a call of the same kind succeeds: another answer
\* that arrives in between does not take its place.
FailuresTold ==
    /\ SettingsKeptTold
    /\ FreshRefreshTold
    /\ DashboardFailureTold
    /\ JournalFailureTold

\* Choices that depend on one another agree after every order of clicks: the
\* model with its provider, a hidden address with the provider that was chosen,
\* the intervals of the grid with its charts, the day with its month, the menu
\* with the page, the message with its chart, the history of prices with the
\* quotes in the table.
ChoicesFit ==
    /\ FormFits
    /\ ShellMenuOwn
    /\ GridIntervalsAgree
    /\ ChartToldOwn
    /\ MacroDayExists
    /\ GPUHistoryQuoted

\* What the order desk says of an order or a fill is what the server holds, or
\* the desk still has the key with which it will ask again: a lost answer is
\* never taken for a refusal.
DeskAnswersKnown ==
    /\ DeskOrdersKnown
    /\ DeskFillsKnown

\* Nothing is told, opened or asked twice: one notification in a cooldown of an
\* alert, one socket at a time, one answer to a question of the copilot.
ToldOnce ==
    /\ AlertsToldOnce
    /\ SocketSingle
    /\ CopilotAnswersPaired

\* A shared cache hands out nothing that was loaded before it was emptied last,
\* or for another region, and keeps no failed load for later callers.
CacheIsFresh ==
    /\ CacheFresh
    /\ CacheHoldsNoFailure
    /\ PulseCacheFresh

\* No page waits for an answer that no request will bring: each of them says
\* which mark of loading it means and which request lifts it.
PagesNeverStuck ==
    /\ ETFNeverStuck
    /\ PortfolioNeverStuck
    /\ BatchNeverStuck
    /\ AlertsNeverStuck
    /\ QDIINeverStuck
    /\ StockNeverStuck
    /\ DeskNeverStuck
    /\ ScanNeverStuck
    /\ AdminNeverStuck
    /\ FormNeverStuck
    /\ SettingsNeverStuck
    /\ ShellNeverStuck
    /\ FreshNeverStuck
    /\ RadarNeverStuck
    /\ ChartNeverStuck
    /\ WatchlistNeverStuck
    /\ WhalesNeverStuck
    /\ ProfileNeverStuck
    /\ LabNeverStuck
    /\ ResearchNeverStuck
    /\ CopilotNeverStuck
    /\ CnToolsNeverStuck
    /\ JournalNeverStuck
    /\ MacroNeverStuck
    /\ GPUPageNeverStuck
    /\ ReportsNeverStuck
    /\ ArenaNeverStuck
    /\ PanelsNeverStuck
=============================================================================
