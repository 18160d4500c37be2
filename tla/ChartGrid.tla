------------------------------- MODULE ChartGrid -------------------------------
(***************************************************************************)
(* External charts.  The grids of them in pages/MultiChart.tsx and in      *)
(* section 2 of components/AshareMarketRadar.tsx, as page "grid": a slot   *)
(* has a symbol and an interval; the chart in it starts with that interval *)
(* and then keeps one of its own, which the bar inside the chart changes.  *)
(* And components/TradingViewAdvancedChart.tsx, one embedded chart, as     *)
(* page "chart": every change of what it shows makes a new widget; the old *)
(* one stays for a second, and its script and frame may still call back.   *)
(***************************************************************************)
EXTENDS Screen

CONSTANTS Charted,          \* the symbols that may be charted
          Intervals,        \* the intervals
          Slots,            \* bound on the slots of a grid; the code has four
          Drawn,            \* the symbols an embedded chart may have
          Studies           \* the indicators laid over it

ASSUME GridConstants == Slots \in Nat /\ Slots >= 2

Grids == {"multi", "radar"}
Layouts == {"1x1", "2x1", "2x2"}

\* A slot: byHand says that the bar inside the chart it has now was used.
SlotOf(symbol, interval) == [symbol |-> symbol, interval |-> interval, own |-> interval, byHand |-> FALSE]

\* The slots on the page; the others have no chart.
Visible(layout) == 1 .. (CASE layout = "1x1" -> 1 [] layout = "2x1" -> 2 [] layout = "2x2" -> Slots)

Preset == [1 .. Slots -> Charted]

\* A preset replaces the symbols and puts every interval back to the first one.
Fixed == CHOOSE interval \in Intervals : TRUE

GridInit ==
    /\ page = "grid"
    /\ \E grid \in Grids, symbols \in Preset :
          ui = [grid |-> grid, layout |-> "2x2", editing |-> 0, input |-> None,
                slots |-> [k \in 1 .. Slots |-> SlotOf(symbols[k], Fixed)]]

\* The key of a slot of MultiChart is its number: its chart goes on and keeps
\* the interval it has.
Continued(old, symbol, interval) == [old EXCEPT !.symbol = symbol, !.interval = interval]

\* The key in the radar is the symbol with the interval: a change of either
\* makes a new chart.
Remounted(grid, old, symbol, interval) ==
    IF grid = "radar" /\ <<symbol, interval>> # <<old.symbol, old.interval>> THEN SlotOf(symbol, interval)
    ELSE Continued(old, symbol, interval)

\* Charts that leave the page lose their interval.
SetLayout(layout) ==
    ui' = [ui EXCEPT !.layout = layout,
                     !.slots = [k \in DOMAIN @ |-> IF k \in Visible(layout) \cap Visible(ui.layout) THEN @[k]
                                                   ELSE SlotOf(@[k].symbol, @[k].interval)]]

ApplyPreset(symbols) ==
    ui' = [ui EXCEPT !.slots = [k \in DOMAIN @ |->
                                   IF k \in Visible(ui.layout) THEN Remounted(ui.grid, @[k], symbols[k], Fixed)
                                   ELSE SlotOf(symbols[k], Fixed)]]

\* The field for a symbol: the dialog of MultiChart covers the page, the field
\* of the radar does not.
EditSlot(k) ==
    /\ k \in Visible(ui.layout) /\ (ui.grid = "multi" => ui.editing = 0)
    /\ ui' = [ui EXCEPT !.editing = k, !.input = ui.slots[k].symbol]

TypeSymbol(symbol) == ui.editing \in Visible(ui.layout) /\ ui' = [ui EXCEPT !.input = symbol]

\* In the radar the text is kept for the next field, which overwrites it.
LeaveField == ui.editing \in Visible(ui.layout) /\ ui' = [ui EXCEPT !.editing = 0]

UpdateSlotSymbol ==
    /\ ui.editing \in Visible(ui.layout) /\ ui.input # None
    /\ ui' = [ui EXCEPT !.slots[ui.editing] = Remounted(ui.grid, @, ui.input, @.interval), !.editing = 0, !.input = None]

\* Only the radar has a bar for the interval of a slot.
UpdateSlotInterval(k, interval) ==
    /\ ui.grid = "radar" /\ k \in Visible(ui.layout) /\ interval # ui.slots[k].interval
    /\ ui' = [ui EXCEPT !.slots[k] = Remounted("radar", @, @.symbol, interval)]

\* The bar inside a chart.
ChooseInterval(k, interval) ==
    /\ k \in Visible(ui.layout)
    /\ ui' = [ui EXCEPT !.slots[k].own = interval, !.slots[k].byHand = TRUE]

\* The dialog of MultiChart covers its other controls.
Free == ui.grid = "multi" => ui.editing = 0

GridNext ==
    /\ page = "grid" /\ UNCHANGED page
    /\ \/ \E symbol \in Charted \cup {None} : TypeSymbol(symbol)
       \/ LeaveField \/ UpdateSlotSymbol
       \/ \E k \in 1 .. Slots : EditSlot(k)
       \/ /\ Free
          /\ \/ \E layout \in Layouts : SetLayout(layout)
             \/ \E symbols \in Preset : ApplyPreset(symbols)
             \/ \E k \in 1 .. Slots, interval \in Intervals :
                   UpdateSlotInterval(k, interval) \/ ChooseInterval(k, interval)

\* What a cell of the grid says: the head of the slot and the chart.
HeadShows(s, k) ==
    IF s.grid = "radar" /\ s.editing = k THEN [field |-> s.input, interval |-> s.slots[k].interval]
    ELSE [field |-> s.slots[k].symbol, interval |-> s.slots[k].interval]

ChartShows(s, k) == [symbol |-> s.slots[k].symbol, interval |-> s.slots[k].own]

\* What a widget is made from; the theme, the language and the interval change
\* it as the style does.
WidgetConfigs == [symbol : Drawn, style : {"candles", "area"}, studies : SUBSET Studies]

\* The callbacks of a widget that are still possible: its script may fail, its
\* frame may load or fail, its timer of 8 s may fire.
Callbacks == {"script error", "frame load", "frame error", "timeout"}

Widget(config) == [config |-> config, active |-> TRUE, loaded |-> FALSE, left |-> Callbacks]

\* told is the widget whose callback made the state that is shown.
ChartInit ==
    /\ page = "chart"
    /\ \E symbol \in Drawn :
          LET config == [symbol |-> symbol, style |-> "candles", studies |-> Studies]
          IN  ui = [config |-> config, embed |-> "loading", told |-> None, widgets |-> <<Widget(config)>>]

\* The cleanup of the effect: the timer is cleared and the listeners are taken
\* away; a frame that comes later is not observed.
Cleaned(widget) == [widget EXCEPT !.active = FALSE, !.left = {}]

\* The effect on what the chart shows; the widget before the last one is gone
\* when it is a second old, which takes at most the bound of two widgets here.
Effect(s, config) ==
    IF config = s.config THEN s
    ELSE [s EXCEPT !.config = config, !.embed = "loading", !.told = None,
                   !.widgets = <<Cleaned(Last(@)), Widget(config)>>]

SetSymbol(symbol) == ui' = Effect(ui, [ui.config EXCEPT !.symbol = symbol])

SetChartType(style) == ui' = Effect(ui, [ui.config EXCEPT !.style = style])

ToggleStudy(study) ==
    ui' = Effect(ui, [ui.config EXCEPT !.studies = IF study \in @ THEN @ \ {study} ELSE @ \cup {study}])

\* A widget calls back, each way once.
Tell(k, callback, state) ==
    /\ callback \in ui.widgets[k].left
    /\ ui' = [ui EXCEPT !.widgets[k].left = @ \ {callback},
                        !.widgets[k].loaded = @ \/ callback = "frame load",
                        !.embed = IF ui.widgets[k].active THEN state ELSE @,
                        !.told = IF ui.widgets[k].active THEN ui.widgets[k].config ELSE @]

MarkReady(k) == Tell(k, "frame load", "ready")

MarkUnavailable(k) == Tell(k, "script error", "unavailable") \/ Tell(k, "frame error", "unavailable")

Timeout(k) == Tell(k, "timeout", IF ui.widgets[k].loaded THEN ui.embed ELSE "unavailable")

WidgetRemoved == Len(ui.widgets) > 1 /\ ui' = [ui EXCEPT !.widgets = Tail(@)]

ChartNext ==
    /\ page = "chart" /\ UNCHANGED page
    /\ \/ \E k \in DOMAIN ui.widgets : MarkReady(k) \/ MarkUnavailable(k) \/ Timeout(k)
       \/ \E symbol \in Drawn : SetSymbol(symbol)
       \/ \E style \in {"candles", "area"} : SetChartType(style)
       \/ \E study \in Studies : ToggleStudy(study)
       \/ WidgetRemoved

\* The bars mark the style and the indicators; the cover over the chart names
\* the connecting or the outage, with a link to the symbol.
Marks(s) == s.config.studies \cup {s.config.style}

Cover(s) ==
    CASE s.embed = "loading" -> {"connecting"}
      [] s.embed = "unavailable" -> {"outage", s.config.symbol}
      [] OTHER -> {}
-----------------------------------------------------------------------------
\* In the radar the interval marked above a chart is the one the chart has,
\* whatever presets, layouts and symbols went before, unless the bar of the
\* chart itself was used.
GridIntervalsAgree ==
    page = "grid" /\ ui.grid = "radar" =>
        \A k \in Visible(ui.layout) :
            ui.slots[k].byHand \/ HeadShows(ui, k).interval = ChartShows(ui, k).interval

\* What the cover says, or that there is none, is about the chart that is asked
\* for now and not about a widget that was replaced, and the bars fit it.
ChartToldOwn ==
    page = "chart" =>
        /\ Cover(ui) # {"connecting"} => ui.told = ui.config
        /\ Marks(ui) = Last(ui.widgets).config.studies \cup {Last(ui.widgets).config.style}

\* A chart that is said to be connecting has its timer.
ChartNeverStuck ==
    page = "chart" /\ Cover(ui) = {"connecting"} => "timeout" \in Last(ui.widgets).left
=============================================================================
