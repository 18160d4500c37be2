----------------------------- MODULE Pages_proofs -----------------------------
(***************************************************************************)
(* Proofs about the pages of the frontend.  A page has an invariant of its *)
(* own, which says what its requests in flight and its state have to do    *)
(* with each other; a step of the specification is a step of the page that *)
(* is mounted, so the invariants of the pages make one of all of them.     *)
(* Those of the first pages are in PageInvariants_proofs.                  *)
(***************************************************************************)
EXTENDS PageInvariants_proofs, FiniteSetTheorems, SequenceTheorems
-----------------------------------------------------------------------------

(* The grids of charts and the embedded chart *)

SlotType == [symbol : Charted \cup {None}, interval : Intervals \cup {Fixed}, own : Intervals \cup {Fixed}, byHand : BOOLEAN]

GridType ==
    [grid : Grids, layout : Layouts, editing : Nat, input : Charted \cup {None}, slots : [1 .. Slots -> SlotType]]

\* A slot of the radar shows the interval its chart has.
Agrees(grid, slot) == grid = "radar" => slot.byHand \/ slot.interval = slot.own

GridOK(s) ==
    /\ s \in GridType
    /\ \A k \in 1 .. Slots : Agrees(s.grid, s.slots[k])

LEMMA VisibleSlots == \A layout \in Layouts : Visible(layout) \subseteq 1 .. Slots
  BY GridConstants DEF Layouts, Visible

LEMMA SlotOfFits ==
    ASSUME NEW grid, NEW symbol \in Charted \cup {None}, NEW interval \in Intervals \cup {Fixed}
    PROVE  SlotOf(symbol, interval) \in SlotType /\ Agrees(grid, SlotOf(symbol, interval))
  BY DEF SlotOf, SlotType, Agrees

LEMMA RemountedFits ==
    ASSUME NEW grid, NEW old \in SlotType, Agrees(grid, old),
           NEW symbol \in Charted \cup {None}, NEW interval \in Intervals \cup {Fixed}
    PROVE  Remounted(grid, old, symbol, interval) \in SlotType /\ Agrees(grid, Remounted(grid, old, symbol, interval))
<1>1. CASE grid = "radar" /\ <<symbol, interval>> # <<old.symbol, old.interval>>
  BY <1>1, SlotOfFits DEF Remounted
<1>2. CASE ~(grid = "radar" /\ <<symbol, interval>> # <<old.symbol, old.interval>>)
  <2>1. Remounted(grid, old, symbol, interval) = [old EXCEPT !.symbol = symbol, !.interval = interval]
    BY <1>2 DEF Remounted, Continued
  <2>2. grid = "radar" => interval = old.interval
    BY <1>2
  <2> QED
    BY <2>1, <2>2 DEF SlotType, Agrees
<1> QED
  BY <1>1, <1>2

LEMMA GridStarts == GridInit => GridOK(ui)
<1> SUFFICES ASSUME GridInit PROVE GridOK(ui)
  OBVIOUS
<1>1. PICK grid \in Grids, symbols \in Preset :
         ui = [grid |-> grid, layout |-> "2x2", editing |-> 0, input |-> None,
               slots |-> [k \in 1 .. Slots |-> SlotOf(symbols[k], Fixed)]]
  BY DEF GridInit
<1> DEFINE slots == [k \in 1 .. Slots |-> SlotOf(symbols[k], Fixed)]
<1>2. \A k \in 1 .. Slots : SlotOf(symbols[k], Fixed) \in SlotType /\ Agrees(grid, SlotOf(symbols[k], Fixed))
  BY SlotOfFits DEF Preset
<1>3. slots \in [1 .. Slots -> SlotType] /\ \A k \in 1 .. Slots : Agrees(grid, slots[k])
  BY <1>2
<1>4. ui = [grid |-> grid, layout |-> "2x2", editing |-> 0, input |-> None, slots |-> slots]
  BY <1>1
<1> HIDE DEF slots
<1> QED
  BY <1>3, <1>4 DEF GridOK, GridType, Layouts

LEMMA GridSteps ==
    ASSUME GridOK(ui), GridNext
    PROVE  GridOK(ui')
<1>0. /\ ui \in GridType /\ ui.slots \in [1 .. Slots -> SlotType] /\ ui.layout \in Layouts
      /\ \A k \in 1 .. Slots : ui.slots[k] \in SlotType /\ Agrees(ui.grid, ui.slots[k])
  BY DEF GridOK, GridType
<1>v. Visible(ui.layout) \subseteq 1 .. Slots
  BY <1>0, VisibleSlots
<1>s. \A k \in 1 .. Slots : /\ ui.slots[k].symbol \in Charted \cup {None}
                            /\ ui.slots[k].interval \in Intervals \cup {Fixed}
  BY <1>0 DEF SlotType
<1>1. ASSUME NEW symbol \in Charted \cup {None}, TypeSymbol(symbol)
      PROVE  GridOK(ui')
  BY <1>0, <1>1 DEF TypeSymbol, GridOK, GridType
<1>2. CASE LeaveField
  BY <1>0, <1>2 DEF LeaveField, GridOK, GridType
<1>3. CASE UpdateSlotSymbol
  <2> DEFINE e == ui.editing
             new == Remounted(ui.grid, ui.slots[e], ui.input, ui.slots[e].interval)
             slots == [ui.slots EXCEPT ![e] = new]
  <2>1. e \in 1 .. Slots /\ ui.input \in Charted \cup {None}
    BY <1>0, <1>3, <1>v DEF UpdateSlotSymbol, GridType
  <2>2. new \in SlotType /\ Agrees(ui.grid, new)
    BY <1>0, <1>s, <2>1, RemountedFits
  <2>3. ui' = [ui EXCEPT !.slots = slots, !.editing = 0, !.input = None]
    BY <1>0, <1>3 DEF UpdateSlotSymbol, GridType
  <2> HIDE DEF new, e
  <2>4. slots \in [1 .. Slots -> SlotType] /\ \A k \in 1 .. Slots : Agrees(ui.grid, slots[k])
    BY <1>0, <2>1, <2>2
  <2> HIDE DEF slots
  <2> QED
    BY <1>0, <2>3, <2>4 DEF GridOK, GridType
<1>4. ASSUME NEW k \in 1 .. Slots, EditSlot(k)
      PROVE  GridOK(ui')
  <2>1. k \in Nat
    BY GridConstants
  <2>2. ui' = [ui EXCEPT !.editing = k, !.input = ui.slots[k].symbol]
    BY <1>4 DEF EditSlot
  <2> DEFINE input == ui.slots[k].symbol
  <2>3. input \in Charted \cup {None}
    BY <1>s
  <2> HIDE DEF input
  <2> QED
    BY <1>0, <2>1, <2>2, <2>3 DEF GridOK, GridType, input
<1>5. ASSUME NEW layout \in Layouts, SetLayout(layout)
      PROVE  GridOK(ui')
  <2> DEFINE seen == Visible(layout) \cap Visible(ui.layout)
             slots == [k \in 1 .. Slots |-> IF k \in seen THEN ui.slots[k]
                                            ELSE SlotOf(ui.slots[k].symbol, ui.slots[k].interval)]
  <2>1. ui' = [ui EXCEPT !.layout = layout, !.slots = slots]
    BY <1>0, <1>5 DEF SetLayout, GridType
  <2>2. \A k \in 1 .. Slots :
           /\ SlotOf(ui.slots[k].symbol, ui.slots[k].interval) \in SlotType
           /\ Agrees(ui.grid, SlotOf(ui.slots[k].symbol, ui.slots[k].interval))
    BY <1>s, SlotOfFits
  <2> HIDE DEF seen
  <2>3. slots \in [1 .. Slots -> SlotType] /\ \A k \in 1 .. Slots : Agrees(ui.grid, slots[k])
    BY <1>0, <2>2
  <2> HIDE DEF slots
  <2> QED
    BY <1>0, <2>1, <2>3 DEF GridOK, GridType
<1>6. ASSUME NEW symbols \in Preset, ApplyPreset(symbols)
      PROVE  GridOK(ui')
  <2> DEFINE seen == Visible(ui.layout)
             slots == [k \in 1 .. Slots |-> IF k \in seen THEN Remounted(ui.grid, ui.slots[k], symbols[k], Fixed)
                                            ELSE SlotOf(symbols[k], Fixed)]
  <2>1. ui' = [ui EXCEPT !.slots = slots]
    BY <1>0, <1>6 DEF ApplyPreset, GridType
  <2>2. \A k \in 1 .. Slots : symbols[k] \in Charted \cup {None}
    BY DEF Preset
  <2>3. \A k \in 1 .. Slots : SlotOf(symbols[k], Fixed) \in SlotType /\ Agrees(ui.grid, SlotOf(symbols[k], Fixed))
    BY <2>2, SlotOfFits
  <2>4. \A k \in 1 .. Slots : /\ Remounted(ui.grid, ui.slots[k], symbols[k], Fixed) \in SlotType
                              /\ Agrees(ui.grid, Remounted(ui.grid, ui.slots[k], symbols[k], Fixed))
    <3> TAKE k \in 1 .. Slots
    <3> QED
      BY <1>0, <2>2, RemountedFits
  <2> HIDE DEF seen
  <2>5. slots \in [1 .. Slots -> SlotType] /\ \A k \in 1 .. Slots : Agrees(ui.grid, slots[k])
    BY <2>3, <2>4
  <2> HIDE DEF slots
  <2> QED
    BY <1>0, <2>1, <2>5 DEF GridOK, GridType
<1>7. ASSUME NEW k \in 1 .. Slots, NEW interval \in Intervals, UpdateSlotInterval(k, interval)
      PROVE  GridOK(ui')
  <2> DEFINE new == Remounted("radar", ui.slots[k], ui.slots[k].symbol, interval)
             slots == [ui.slots EXCEPT ![k] = new]
  <2>1. ui.grid = "radar"
    BY <1>7 DEF UpdateSlotInterval
  <2>2. new \in SlotType /\ Agrees("radar", new)
    BY <1>0, <1>s, <2>1, RemountedFits
  <2>3. ui' = [ui EXCEPT !.slots = slots]
    BY <1>0, <1>7 DEF UpdateSlotInterval, GridType
  <2> HIDE DEF new
  <2>4. slots \in [1 .. Slots -> SlotType] /\ \A j \in 1 .. Slots : Agrees(ui.grid, slots[j])
    BY <1>0, <2>1, <2>2
  <2> HIDE DEF slots
  <2> QED
    BY <1>0, <2>3, <2>4 DEF GridOK, GridType
<1>8. ASSUME NEW k \in 1 .. Slots, NEW interval \in Intervals, ChooseInterval(k, interval)
      PROVE  GridOK(ui')
  <2> DEFINE new == [ui.slots[k] EXCEPT !.own = interval, !.byHand = TRUE]
             slots == [ui.slots EXCEPT ![k] = new]
  <2>1. ui.slots[k] \in SlotType
    BY <1>0
  <2>2. new \in SlotType /\ Agrees(ui.grid, new)
    BY <2>1 DEF SlotType, Agrees
  <2>3. ui' = [ui EXCEPT !.slots = slots]
    BY <1>0, <1>8, <2>1 DEF ChooseInterval, GridType, SlotType
  <2> HIDE DEF new
  <2>4. slots \in [1 .. Slots -> SlotType] /\ \A j \in 1 .. Slots : Agrees(ui.grid, slots[j])
    BY <1>0, <2>2
  <2> HIDE DEF slots
  <2> QED
    BY <1>0, <2>3, <2>4 DEF GridOK, GridType
<1> QED
  BY <1>1, <1>2, <1>3, <1>4, <1>5, <1>6, <1>7, <1>8 DEF GridNext

LEMMA GridTold == ASSUME GridOK(ui) PROVE GridIntervalsAgree
<1> SUFFICES ASSUME ui.grid = "radar", NEW k \in Visible(ui.layout)
             PROVE  ui.slots[k].byHand \/ HeadShows(ui, k).interval = ChartShows(ui, k).interval
  BY DEF GridIntervalsAgree
<1>1. k \in 1 .. Slots
  BY VisibleSlots DEF GridOK, GridType
<1>2. HeadShows(ui, k).interval = ui.slots[k].interval
  BY DEF HeadShows
<1>3. ChartShows(ui, k).interval = ui.slots[k].own
  BY DEF ChartShows
<1> QED
  BY <1>1, <1>2, <1>3 DEF GridOK, Agrees

WidgetType == [config : WidgetConfigs, active : BOOLEAN, loaded : BOOLEAN, left : SUBSET Callbacks]

ChartType ==
    [config : WidgetConfigs, embed : {"loading", "ready", "unavailable"}, told : WidgetConfigs \cup {None},
     widgets : Seq(WidgetType)]

\* Only the last widget still listens; it is made from the configuration, and
\* while it is loading it has its timer.
Listening(q, config, embed) ==
    /\ Len(q) >= 1
    /\ \A k \in DOMAIN q : q[k].active <=> k = Len(q)
    /\ q[Len(q)].config = config
    /\ q[Len(q)].loaded => embed # "loading"
    /\ embed = "loading" => "timeout" \in q[Len(q)].left

ChartOK(s) ==
    /\ s \in ChartType
    /\ Listening(s.widgets, s.config, s.embed)
    /\ s.embed # "loading" => s.told = s.config

LEMMA WidgetFits ==
    ASSUME NEW config \in WidgetConfigs
    PROVE  /\ Widget(config) \in WidgetType /\ Widget(config).config = config /\ Widget(config).active
           /\ ~Widget(config).loaded /\ "timeout" \in Widget(config).left
  BY DEF Widget, WidgetType, Callbacks

LEMMA LastIs ==
    ASSUME NEW S, NEW q \in Seq(S), Len(q) >= 1
    PROVE  Last(q) = q[Len(q)] /\ q[Len(q)] \in S /\ Len(q) \in DOMAIN q
  BY DEF Last

\* A new widget, alone or after the old one.
LEMMA NewWidgetListens ==
    ASSUME NEW config \in WidgetConfigs, NEW old \in WidgetType, ~old.active
    PROVE  /\ <<Widget(config)>> \in Seq(WidgetType) /\ Listening(<<Widget(config)>>, config, "loading")
           /\ <<old, Widget(config)>> \in Seq(WidgetType) /\ Listening(<<old, Widget(config)>>, config, "loading")
<1> DEFINE new == Widget(config)
           one == <<new>>
           two == <<old, new>>
<1>1. new \in WidgetType /\ new.config = config /\ new.active /\ ~new.loaded /\ "timeout" \in new.left
  BY WidgetFits
<1> HIDE DEF new
<1>2. one \in Seq(WidgetType) /\ Len(one) = 1 /\ DOMAIN one = 1 .. 1 /\ one[1] = new
  BY <1>1
<1>3. two \in Seq(WidgetType) /\ Len(two) = 2 /\ DOMAIN two = 1 .. 2 /\ two[1] = old /\ two[2] = new
  BY <1>1
<1> HIDE DEF one, two
<1>4. Listening(one, config, "loading")
  <2>1. \A k \in DOMAIN one : one[k].active <=> k = 1
    BY <1>1, <1>2
  <2> QED
    BY <1>1, <1>2, <2>1 DEF Listening
<1>5. Listening(two, config, "loading")
  <2>1. \A k \in DOMAIN two : k = 1 \/ k = 2
    BY <1>3
  <2>2. \A k \in DOMAIN two : two[k].active <=> k = 2
    BY <1>1, <1>3, <2>1
  <2> QED
    BY <1>1, <1>3, <2>2 DEF Listening
<1> QED
  BY <1>2, <1>3, <1>4, <1>5 DEF one, two, new

LEMMA ChartStarts == ChartInit => ChartOK(ui)
<1> SUFFICES ASSUME ChartInit PROVE ChartOK(ui)
  OBVIOUS
<1>1. PICK symbol \in Drawn :
         LET config == [symbol |-> symbol, style |-> "candles", studies |-> Studies]
         IN  ui = [config |-> config, embed |-> "loading", told |-> None, widgets |-> <<Widget(config)>>]
  BY DEF ChartInit
<1> DEFINE config == [symbol |-> symbol, style |-> "candles", studies |-> Studies]
           widgets == <<Widget(config)>>
           old == Cleaned(Widget(config))
<1>2. config \in WidgetConfigs
  BY DEF WidgetConfigs
<1>3. ui = [config |-> config, embed |-> "loading", told |-> None, widgets |-> widgets]
  BY <1>1
<1> HIDE DEF config
<1>4. old \in WidgetType /\ ~old.active
  <2>1. Widget(config) \in WidgetType
    BY <1>2, WidgetFits
  <2> QED
    BY <2>1 DEF Cleaned, WidgetType
<1> HIDE DEF old
<1>5. widgets \in Seq(WidgetType) /\ Listening(widgets, config, "loading")
  BY <1>2, <1>4, NewWidgetListens
<1> HIDE DEF widgets
<1> QED
  BY <1>2, <1>3, <1>5 DEF ChartOK, ChartType

LEMMA EffectKeeps ==
    ASSUME NEW s, ChartOK(s), NEW config \in WidgetConfigs
    PROVE  ChartOK(Effect(s, config))
<1>1. CASE config = s.config
  BY <1>1 DEF Effect
<1>2. CASE config # s.config
  <2> DEFINE old == Cleaned(s.widgets[Len(s.widgets)])
             widgets == <<old, Widget(config)>>
             t == Effect(s, config)
  <2>1. s \in ChartType /\ Len(s.widgets) >= 1
    BY DEF ChartOK, Listening
  <2>2. s.widgets \in Seq(WidgetType)
    BY <2>1 DEF ChartType
  <2>3. Last(s.widgets) = s.widgets[Len(s.widgets)] /\ s.widgets[Len(s.widgets)] \in WidgetType
    BY <2>1, <2>2, LastIs
  <2>4. old \in WidgetType /\ ~old.active
    BY <2>3 DEF Cleaned, WidgetType
  <2>5. t = [s EXCEPT !.config = config, !.embed = "loading", !.told = None, !.widgets = widgets]
    BY <1>2, <2>3 DEF Effect
  <2> HIDE DEF old, t
  <2>6. widgets \in Seq(WidgetType) /\ Listening(widgets, config, "loading")
    BY <2>4, NewWidgetListens
  <2> HIDE DEF widgets
  <2>7. ChartOK(t)
    BY <2>1, <2>5, <2>6 DEF ChartOK, ChartType
  <2> QED
    BY <2>7 DEF t
<1> QED
  BY <1>1, <1>2

\* A widget that called back has one way less to do so.
LEMMA TellListens ==
    ASSUME NEW q \in Seq(WidgetType), NEW k \in DOMAIN q, NEW config, NEW embed, Listening(q, config, embed),
           NEW callback, NEW loaded \in BOOLEAN, NEW next,
           q[k].active => next # "loading", ~q[k].active => next = embed
    PROVE  LET w == [q[k] EXCEPT !.left = q[k].left \ {callback}, !.loaded = loaded]
           IN  [q EXCEPT ![k] = w] \in Seq(WidgetType) /\ Listening([q EXCEPT ![k] = w], config, next)
<1> DEFINE left == q[k].left \ {callback}
           w == [q[k] EXCEPT !.left = left, !.loaded = loaded]
           n == Len(q)
           r == [q EXCEPT ![k] = w]
<1>1. q[k] \in WidgetType /\ n \in Nat /\ DOMAIN q = 1 .. n
  OBVIOUS
<1>2. left \in SUBSET Callbacks
  BY <1>1 DEF WidgetType
<1> HIDE DEF left
<1>3. w \in WidgetType /\ w.config = q[k].config /\ w.active = q[k].active
  BY <1>1, <1>2 DEF WidgetType
<1> HIDE DEF w
<1>4. r \in Seq(WidgetType) /\ Len(r) = n /\ DOMAIN r = 1 .. n /\ \A j \in 1 .. n : r[j] = IF j = k THEN w ELSE q[j]
  BY <1>1, <1>3
<1>5. /\ n >= 1 /\ (\A j \in 1 .. n : q[j].active <=> j = n) /\ q[n].config = config
      /\ q[n].loaded => embed # "loading"
      /\ embed = "loading" => "timeout" \in q[n].left
  BY <1>1 DEF Listening
<1> HIDE DEF r, n
<1>6. \A j \in 1 .. n : r[j].active <=> j = n
  BY <1>3, <1>4, <1>5
<1>7. CASE k = n
  <2>1. next # "loading" /\ r[n].config = config
    BY <1>1, <1>3, <1>4, <1>5, <1>7
  <2> QED
    BY <1>4, <1>5, <1>6, <2>1 DEF Listening, r, w, left
<1>8. CASE k # n
  <2>1. next = embed /\ r[n] = q[n]
    BY <1>1, <1>4, <1>5, <1>8
  <2> QED
    BY <1>4, <1>5, <1>6, <2>1 DEF Listening, r, w, left
<1> QED
  BY <1>7, <1>8

LEMMA TellKeeps ==
    ASSUME ChartOK(ui), NEW k \in DOMAIN ui.widgets, NEW callback, NEW state, Tell(k, callback, state),
           state \in {"ready", "unavailable"} \/ (state = ui.embed /\ ui.widgets[k].loaded)
    PROVE  ChartOK(ui')
<1> DEFINE q == ui.widgets
           w == q[k]
           loaded == w.loaded \/ callback = "frame load"
           new == [w EXCEPT !.left = w.left \ {callback}, !.loaded = loaded]
           widgets == [q EXCEPT ![k] = new]
           embed == IF w.active THEN state ELSE ui.embed
           told == IF w.active THEN w.config ELSE ui.told
<1>1. ui \in ChartType /\ Listening(q, ui.config, ui.embed)
  BY DEF ChartOK
<1>2. q \in Seq(WidgetType)
  BY <1>1 DEF ChartType
<1>3. w \in WidgetType
  BY <1>2
<1>4. ui' = [ui EXCEPT !.widgets = widgets, !.embed = embed, !.told = told]
  BY <1>1, <1>2, <1>3 DEF Tell, ChartType, WidgetType
<1>5. loaded \in BOOLEAN
  BY <1>3 DEF WidgetType
<1>6. w.active => w.config = ui.config /\ (w.loaded => ui.embed # "loading")
  BY <1>1 DEF Listening
<1>7. /\ embed \in {"loading", "ready", "unavailable"} /\ told \in WidgetConfigs \cup {None}
      /\ w.active => embed # "loading"
      /\ ~w.active => embed = ui.embed
      /\ embed # "loading" => told = ui.config
  BY <1>1, <1>3, <1>6 DEF ChartType, WidgetType, ChartOK
<1> HIDE DEF loaded, embed, told, q
<1>8. widgets \in Seq(WidgetType) /\ Listening(widgets, ui.config, embed)
  BY <1>1, <1>2, <1>5, <1>7, TellListens DEF q
<1> HIDE DEF widgets
<1> QED
  BY <1>1, <1>4, <1>7, <1>8 DEF ChartOK, ChartType

LEMMA TailListens ==
    ASSUME NEW q \in Seq(WidgetType), NEW config, NEW embed, Listening(q, config, embed), Len(q) > 1
    PROVE  Tail(q) \in Seq(WidgetType) /\ Listening(Tail(q), config, embed)
<1> DEFINE t == Tail(q)
           n == Len(q)
<1>1. n \in Nat /\ DOMAIN q = 1 .. n /\ n > 1
  OBVIOUS
<1>2. t \in Seq(WidgetType) /\ Len(t) = n - 1 /\ DOMAIN t = 1 .. n - 1 /\ \A j \in 1 .. n - 1 : t[j] = q[j + 1]
  BY <1>1
<1>3. /\ (\A j \in 1 .. n : q[j].active <=> j = n) /\ q[n].config = config
      /\ q[n].loaded => embed # "loading"
      /\ embed = "loading" => "timeout" \in q[n].left
  BY <1>1 DEF Listening
<1> HIDE DEF t, n
<1>4. t[n - 1] = q[n] /\ n - 1 >= 1
  BY <1>1, <1>2
<1>5. \A j \in 1 .. n - 1 : t[j].active <=> j = n - 1
  <2> TAKE j \in 1 .. n - 1
  <2>1. j + 1 \in 1 .. n /\ (j + 1 = n <=> j = n - 1)
    BY <1>1
  <2> QED
    BY <1>2, <1>3, <2>1
<1>6. t \in Seq(WidgetType) /\ Listening(t, config, embed)
  BY <1>2, <1>3, <1>4, <1>5 DEF Listening
<1> QED
  BY <1>6 DEF t

LEMMA ChartSteps ==
    ASSUME ChartOK(ui), ChartNext
    PROVE  ChartOK(ui')
<1>0. ui \in ChartType /\ ui.widgets \in Seq(WidgetType) /\ ui.config \in WidgetConfigs
  BY DEF ChartOK, ChartType
<1>1. ASSUME NEW k \in DOMAIN ui.widgets, MarkReady(k) \/ MarkUnavailable(k) \/ Timeout(k)
      PROVE  ChartOK(ui')
  <2>1. CASE MarkReady(k)
    BY <2>1, TellKeeps DEF MarkReady
  <2>2. CASE MarkUnavailable(k)
    BY <2>2, TellKeeps DEF MarkUnavailable
  <2>3. CASE Timeout(k)
    <3> DEFINE state == IF ui.widgets[k].loaded THEN ui.embed ELSE "unavailable"
    <3>1. state \in {"ready", "unavailable"} \/ (state = ui.embed /\ ui.widgets[k].loaded)
      OBVIOUS
    <3>2. Tell(k, "timeout", state)
      BY <2>3 DEF Timeout
    <3> HIDE DEF state
    <3> QED
      BY <3>1, <3>2, TellKeeps
  <2> QED
    BY <1>1, <2>1, <2>2, <2>3
<1>2. ASSUME NEW symbol \in Drawn, SetSymbol(symbol)
      PROVE  ChartOK(ui')
  <2> DEFINE config == [ui.config EXCEPT !.symbol = symbol]
  <2>1. config \in WidgetConfigs
    BY <1>0 DEF WidgetConfigs
  <2> QED
    BY <1>2, <2>1, EffectKeeps DEF SetSymbol
<1>3. ASSUME NEW style \in {"candles", "area"}, SetChartType(style)
      PROVE  ChartOK(ui')
  <2> DEFINE config == [ui.config EXCEPT !.style = style]
  <2>1. config \in WidgetConfigs
    BY <1>0 DEF WidgetConfigs
  <2> QED
    BY <1>3, <2>1, EffectKeeps DEF SetChartType
<1>4. ASSUME NEW study \in Studies, ToggleStudy(study)
      PROVE  ChartOK(ui')
  <2> DEFINE studies == IF study \in ui.config.studies THEN ui.config.studies \ {study}
                        ELSE ui.config.studies \cup {study}
             config == [ui.config EXCEPT !.studies = studies]
  <2>1. studies \in SUBSET Studies
    BY <1>0 DEF WidgetConfigs
  <2>2. ui' = Effect(ui, config)
    BY <1>4 DEF ToggleStudy
  <2> HIDE DEF studies
  <2>3. config \in WidgetConfigs
    BY <1>0, <2>1 DEF WidgetConfigs
  <2> HIDE DEF config
  <2> QED
    BY <2>2, <2>3, EffectKeeps
<1>5. CASE WidgetRemoved
  <2> DEFINE widgets == Tail(ui.widgets)
  <2>1. Len(ui.widgets) > 1 /\ ui' = [ui EXCEPT !.widgets = widgets]
    BY <1>5 DEF WidgetRemoved
  <2>2. widgets \in Seq(WidgetType) /\ Listening(widgets, ui.config, ui.embed)
    BY <1>0, <2>1, TailListens DEF ChartOK
  <2> HIDE DEF widgets
  <2> QED
    BY <1>0, <2>1, <2>2 DEF ChartOK, ChartType
<1> QED
  BY <1>1, <1>2, <1>3, <1>4, <1>5 DEF ChartNext

LEMMA ChartTold == ASSUME ChartOK(ui) PROVE ChartToldOwn /\ ChartNeverStuck
<1>a. ui.widgets \in Seq(WidgetType) /\ Len(ui.widgets) >= 1
  BY DEF ChartOK, ChartType, Listening
<1>1. Last(ui.widgets) = ui.widgets[Len(ui.widgets)]
  BY <1>a, LastIs
<1>2. Cover(ui) # {"connecting"} => ui.embed # "loading"
  BY DEF Cover
<1>3. Marks(ui) = ui.config.studies \cup {ui.config.style}
  BY DEF Marks
<1>4. Cover(ui) = {"connecting"} => ui.embed = "loading" \/ ui.embed = "unavailable"
  BY DEF Cover
<1>5. ui.embed = "unavailable" => Cover(ui) # {"connecting"}
  BY DEF Cover
<1> QED
  BY <1>1, <1>2, <1>3, <1>4, <1>5 DEF ChartOK, Listening, ChartToldOwn, ChartNeverStuck

-----------------------------------------------------------------------------
(* The prices of graphics cards *)

GPURequests ==
    {r \in Requests({"current", "history", "upstream", "config", "reference"}, {None, "poll", "upstream", "config"}) :
        r.current}

GPUType ==
    [quotes : SUBSET Quotes, live : BOOLEAN, configured : BOOLEAN, refreshable : {"yes", "no", "unknown"},
     loading : BOOLEAN, error : BOOLEAN, refreshing : BOOLEAN, refreshError : BOOLEAN, reloading : BOOLEAN,
     feedback : BOOLEAN, reference : {"loading", "available", "unavailable"}, chosen : SUBSET Quotes,
     days : Spans \cup {CHOOSE days \in Spans : TRUE}, history : {"none", "points", "empty", "unusable", "failed"},
     historyLoading : BOOLEAN, historyError : BOOLEAN, flying : Seq(GPURequests)]

\* Some request was sent by this, or the prices are fetched because of it.
Behind(f, by) == \E j \in DOMAIN f : IF f[j].what = "current" THEN f[j].of = by ELSE f[j].what = by

\* The buttons that are shut have their requests; p says where the pricess are
\* looked for.
GPUWaits(s, f) ==
    /\ s.refreshing => Behind(f, "upstream")
    /\ s.reloading => Behind(f, "config")
    /\ s.loading => Some(f, {"current"})
    /\ s.historyLoading => Some(f, {"history"})

GPUQuoted(s) == s.chosen \subseteq s.quotes /\ (s.quotes # {} => s.chosen # {})

GPUOK(s) ==
    /\ s \in GPUType
    /\ GPUQuoted(s)
    /\ GPUWaits(s, s.flying)

LEMMA BehindMore ==
    ASSUME NEW S, NEW f \in Seq(S), NEW r, NEW by
    PROVE  Behind(f, by) \/ (r.what = by /\ by # "current") \/ (r.what = "current" /\ r.of = by) => Behind(Append(f, r), by)
<1> DEFINE g == Append(f, r)
<1>1. /\ g[Len(f) + 1] = r /\ Len(f) + 1 \in DOMAIN g
      /\ \A i \in DOMAIN f : i \in DOMAIN g /\ g[i] = f[i]
  BY OneMore
<1> HIDE DEF g
<1>2. /\ Behind(f, by) => Behind(g, by)
      /\ (r.what = by /\ by # "current") \/ (r.what = "current" /\ r.of = by) => Behind(g, by)
  BY <1>1 DEF Behind
<1> QED
  BY <1>2 DEF g

LEMMA BehindAnswered ==
    ASSUME NEW S, NEW f \in Seq(S), NEW i \in DOMAIN f, NEW by, Behind(f, by),
           IF f[i].what = "current" THEN f[i].of # by ELSE f[i].what # by
    PROVE  Behind(Answered(f, i), by)
<1>1. \A k \in DOMAIN f \ {i} : \E j \in DOMAIN Answered(f, i) : Answered(f, i)[j] = f[k]
  BY AnsweredIs
<1>2. PICK k \in DOMAIN f : IF f[k].what = "current" THEN f[k].of = by ELSE f[k].what = by
  BY DEF Behind
<1>3. k # i
  BY <1>2
<1> QED
  BY <1>1, <1>2, <1>3 DEF Behind

\* A request is sent, which the page may wait for from now on.
LEMMA SentKeeps ==
    ASSUME NEW s \in GPUType, NEW what \in {"current", "history", "upstream", "config", "reference"},
           NEW of \in {None, "poll", "upstream", "config"}
    PROVE  LET t == SentPrices(s, what, of)
           IN  /\ t \in GPUType
               /\ t = [s EXCEPT !.flying = t.flying]
               /\ t.flying = Append(s.flying, [what |-> what, of |-> of, current |-> TRUE])
               /\ what = "history" => Some(t.flying, {"history"})
               /\ what = "current" => Some(t.flying, {"current"}) /\ Behind(t.flying, of)
               /\ what = "upstream" => Behind(t.flying, "upstream")
               /\ what = "config" => Behind(t.flying, "config")
               /\ Some(s.flying, {"history"}) => Some(t.flying, {"history"})
               /\ Some(s.flying, {"current"}) => Some(t.flying, {"current"})
               /\ Behind(s.flying, "upstream") => Behind(t.flying, "upstream")
               /\ Behind(s.flying, "config") => Behind(t.flying, "config")
<1> DEFINE new == [what |-> what, of |-> of, current |-> TRUE]
           f == s.flying
           g == Append(f, new)
           t == SentPrices(s, what, of)
<1>1. new \in GPURequests /\ new.what = what /\ new.of = of
  BY DEF GPURequests, Requests
<1>2. f \in Seq(GPURequests)
  BY DEF GPUType
<1>3. t = [s EXCEPT !.flying = g]
  BY DEF SentPrices
<1> HIDE DEF new, f, t
<1>4. g \in Seq(GPURequests)
  BY <1>1, <1>2, OneMore
<1>5. /\ Some(f, {"history"}) \/ new.what \in {"history"} => Some(g, {"history"})
      /\ Some(f, {"current"}) \/ new.what \in {"current"} => Some(g, {"current"})
  BY <1>2, SomeMore
<1>6. /\ Behind(f, "upstream") \/ new.what = "upstream" \/ (new.what = "current" /\ new.of = "upstream") =>
            Behind(g, "upstream")
      /\ Behind(f, "config") \/ new.what = "config" \/ (new.what = "current" /\ new.of = "config") =>
            Behind(g, "config")
      /\ Behind(f, of) \/ (new.what = "current" /\ new.of = of) => Behind(g, of)
  <2>1. /\ Behind(f, "upstream") \/ (new.what = "upstream" /\ "upstream" # "current")
              \/ (new.what = "current" /\ new.of = "upstream") => Behind(g, "upstream")
        /\ Behind(f, "config") \/ (new.what = "config" /\ "config" # "current")
              \/ (new.what = "current" /\ new.of = "config") => Behind(g, "config")
        /\ Behind(f, of) \/ (new.what = of /\ of # "current")
              \/ (new.what = "current" /\ new.of = of) => Behind(g, of)
    BY <1>2, BehindMore
  <2> QED
    BY <2>1
<1> HIDE DEF g
<1>7. t \in GPUType /\ t.flying = g
  BY <1>3, <1>4 DEF GPUType
<1>8. /\ t = [s EXCEPT !.flying = t.flying]
      /\ what = "history" => Some(t.flying, {"history"})
      /\ what = "current" => Some(t.flying, {"current"}) /\ Behind(t.flying, of)
      /\ what = "upstream" => Behind(t.flying, "upstream")
      /\ what = "config" => Behind(t.flying, "config")
      /\ Some(f, {"history"}) => Some(t.flying, {"history"})
      /\ Some(f, {"current"}) => Some(t.flying, {"current"})
      /\ Behind(f, "upstream") => Behind(t.flying, "upstream")
      /\ Behind(f, "config") => Behind(t.flying, "config")
  BY <1>1, <1>3, <1>5, <1>6, <1>7
<1> QED
  BY <1>7, <1>8 DEF f, g, t, new

LEMMA RefreshedKeeps ==
    ASSUME NEW s \in GPUType, GPUQuoted(s), NEW by \in {"poll", "upstream", "config"},
           s.refreshing => Behind(s.flying, "upstream") \/ by = "upstream",
           s.reloading => Behind(s.flying, "config") \/ by = "config",
           s.historyLoading => Some(s.flying, {"history"})
    PROVE  GPUOK(RefreshPrices(s, by))
<1> DEFINE b == [s EXCEPT !.loading = TRUE, !.error = FALSE]
           t == SentPrices(b, "current", by)
<1>1. b \in GPUType /\ b.flying = s.flying
  BY DEF GPUType
<1>2. /\ GPUQuoted(b)
      /\ b.refreshing => Behind(b.flying, "upstream") \/ by = "upstream"
      /\ b.reloading => Behind(b.flying, "config") \/ by = "config"
      /\ b.historyLoading => Some(b.flying, {"history"})
  BY DEF GPUType, GPUQuoted
<1>b. by \in {None, "poll", "upstream", "config"} /\ "current" \in {"current", "history", "upstream", "config", "reference"}
  OBVIOUS
<1>3. RefreshPrices(s, by) = t
  BY DEF RefreshPrices
<1> HIDE DEF b
<1>4. /\ t \in GPUType
      /\ t = [b EXCEPT !.flying = t.flying]
      /\ Some(t.flying, {"current"}) /\ Behind(t.flying, by)
      /\ Some(b.flying, {"history"}) => Some(t.flying, {"history"})
      /\ Behind(b.flying, "upstream") => Behind(t.flying, "upstream")
      /\ Behind(b.flying, "config") => Behind(t.flying, "config")
  BY <1>1, <1>b, SentKeeps
<1> HIDE DEF t
<1>5. t.refreshing = b.refreshing /\ t.reloading = b.reloading /\ t.historyLoading = b.historyLoading
      /\ t.chosen = b.chosen /\ t.quotes = b.quotes
  BY <1>1, <1>4 DEF GPUType
<1> QED
  BY <1>2, <1>3, <1>4, <1>5 DEF GPUOK, GPUWaits, GPUQuoted

LEMMA AskedKeeps ==
    ASSUME NEW s \in GPUType, GPUQuoted(s),
           s.refreshing => Behind(s.flying, "upstream"),
           s.reloading => Behind(s.flying, "config"),
           s.loading => Some(s.flying, {"current"})
    PROVE  GPUOK(HistoryAsked(s))
<1>1. CASE s.chosen = {}
  BY <1>1 DEF HistoryAsked, GPUOK, GPUType, GPUQuoted, GPUWaits
<1>2. CASE s.chosen # {}
  <2> DEFINE b == [s EXCEPT !.historyLoading = TRUE, !.historyError = FALSE]
             t == SentPrices(b, "history", None)
  <2>1. b \in GPUType /\ b.flying = s.flying
    BY DEF GPUType
  <2>2. /\ GPUQuoted(b)
        /\ b.refreshing => Behind(b.flying, "upstream")
        /\ b.reloading => Behind(b.flying, "config")
        /\ b.loading => Some(b.flying, {"current"})
    BY DEF GPUType, GPUQuoted
  <2>3. HistoryAsked(s) = t
    BY <1>2 DEF HistoryAsked
  <2> HIDE DEF b
  <2>4. /\ t \in GPUType
        /\ t = [b EXCEPT !.flying = t.flying]
        /\ Some(t.flying, {"history"})
        /\ Some(b.flying, {"current"}) => Some(t.flying, {"current"})
        /\ Behind(b.flying, "upstream") => Behind(t.flying, "upstream")
        /\ Behind(b.flying, "config") => Behind(t.flying, "config")
    BY <2>1, SentKeeps
  <2> HIDE DEF t
  <2>5. t.refreshing = b.refreshing /\ t.reloading = b.reloading /\ t.loading = b.loading
        /\ t.chosen = b.chosen /\ t.quotes = b.quotes
    BY <2>1, <2>4 DEF GPUType
  <2> QED
    BY <2>2, <2>3, <2>4, <2>5 DEF GPUOK, GPUWaits, GPUQuoted
<1> QED
  BY <1>1, <1>2

LEMMA ChoosingKeeps ==
    ASSUME NEW s \in GPUType, NEW wanted \in SUBSET Quotes, NEW next \in Choosing(s, wanted),
           GPUWaits(s, s.flying)
    PROVE  GPUOK(next)
<1>1. PICK chosen \in ChosenAmong(s.quotes, wanted) :
         next = IF chosen = s.chosen THEN s ELSE HistoryAsked([s EXCEPT !.chosen = chosen])
  BY DEF Choosing
<1>2. chosen \subseteq s.quotes /\ (s.quotes # {} => chosen # {}) /\ chosen \in SUBSET Quotes
  BY <1>1 DEF ChosenAmong, GPUType
<1>3. CASE chosen = s.chosen
  BY <1>1, <1>2, <1>3 DEF GPUOK, GPUQuoted
<1>4. CASE chosen # s.chosen
  <2> DEFINE b == [s EXCEPT !.chosen = chosen]
  <2>1. /\ b \in GPUType /\ GPUQuoted(b)
        /\ b.refreshing => Behind(b.flying, "upstream")
        /\ b.reloading => Behind(b.flying, "config")
        /\ b.loading => Some(b.flying, {"current"})
    BY <1>2 DEF GPUType, GPUQuoted, GPUWaits
  <2>2. next = HistoryAsked(b)
    BY <1>1, <1>4
  <2> HIDE DEF b
  <2> QED
    BY <2>1, <2>2, AskedKeeps
<1> QED
  BY <1>3, <1>4

\* The request that is answered may as well be gone before the next is sent.
LEMMA SentAfter ==
    ASSUME NEW s \in GPUType, NEW i \in DOMAIN s.flying, NEW what, NEW of,
           [what |-> what, of |-> of, current |-> TRUE] \in GPURequests
    PROVE  LET t == SentPrices(s, what, of)
           IN  [t EXCEPT !.flying = Answered(t.flying, i)] = SentPrices([s EXCEPT !.flying = Answered(s.flying, i)], what, of)
<1> DEFINE new == [what |-> what, of |-> of, current |-> TRUE]
           f == s.flying
           g == Append(f, new)
           h == Answered(f, i)
<1>1. f \in Seq(GPURequests) /\ new \in GPURequests
  BY DEF GPUType
<1> HIDE DEF new
<1>2. Answered(g, i) = Append(h, new)
  BY <1>1, AnsweredMore
<1>3. SentPrices(s, what, of) = [s EXCEPT !.flying = g]
  BY DEF SentPrices, new
<1>4. SentPrices([s EXCEPT !.flying = h], what, of) = [s EXCEPT !.flying = Append(h, new)]
  BY DEF SentPrices, new, GPUType
<1> HIDE DEF g, h
<1>5. [[s EXCEPT !.flying = g] EXCEPT !.flying = Answered(g, i)] = [s EXCEPT !.flying = Append(h, new)]
  BY <1>2 DEF GPUType
<1>6. [s EXCEPT !.flying = g].flying = g
  BY DEF GPUType
<1> QED
  BY <1>3, <1>4, <1>5, <1>6 DEF h

LEMMA RefreshedAfter ==
    ASSUME NEW s \in GPUType, NEW i \in DOMAIN s.flying, NEW by \in {"poll", "upstream", "config"}
    PROVE  LET t == RefreshPrices(s, by)
           IN  [t EXCEPT !.flying = Answered(t.flying, i)] = RefreshPrices([s EXCEPT !.flying = Answered(s.flying, i)], by)
<1> DEFINE h == Answered(s.flying, i)
           b == [s EXCEPT !.loading = TRUE, !.error = FALSE]
<1> HIDE DEF h
<1>1. b \in GPUType /\ b.flying = s.flying
  BY DEF GPUType
<1>2. RefreshPrices(s, by) = SentPrices(b, "current", by)
  BY DEF RefreshPrices
<1>3. RefreshPrices([s EXCEPT !.flying = h], by) = SentPrices([b EXCEPT !.flying = h], "current", by)
  BY DEF RefreshPrices, GPUType
<1> HIDE DEF b
<1>4. i \in DOMAIN b.flying
  BY <1>1
<1>6. [what |-> "current", of |-> by, current |-> TRUE] \in GPURequests
  BY DEF GPURequests, Requests
<1>5. LET t == SentPrices(b, "current", by)
      IN  [t EXCEPT !.flying = Answered(t.flying, i)] = SentPrices([b EXCEPT !.flying = Answered(b.flying, i)], "current", by)
  BY <1>1, <1>4, <1>6, SentAfter
<1> QED
  BY <1>1, <1>2, <1>3, <1>5 DEF h

LEMMA AskedAfter ==
    ASSUME NEW s \in GPUType, NEW i \in DOMAIN s.flying
    PROVE  LET t == HistoryAsked(s)
           IN  [t EXCEPT !.flying = Answered(t.flying, i)] = HistoryAsked([s EXCEPT !.flying = Answered(s.flying, i)])
<1> DEFINE h == Answered(s.flying, i)
<1> HIDE DEF h
<1>1. CASE s.chosen = {}
  <2>1. HistoryAsked(s) = [s EXCEPT !.history = "none", !.historyLoading = FALSE]
    BY <1>1 DEF HistoryAsked
  <2>2. HistoryAsked([s EXCEPT !.flying = h]) = [s EXCEPT !.history = "none", !.historyLoading = FALSE, !.flying = h]
    BY <1>1 DEF HistoryAsked, GPUType
  <2> QED
    BY <2>1, <2>2 DEF GPUType, h
<1>2. CASE s.chosen # {}
  <2> DEFINE b == [s EXCEPT !.historyLoading = TRUE, !.historyError = FALSE]
  <2>1. b \in GPUType /\ b.flying = s.flying
    BY DEF GPUType
  <2>2. HistoryAsked(s) = SentPrices(b, "history", None)
    BY <1>2 DEF HistoryAsked
  <2>3. HistoryAsked([s EXCEPT !.flying = h]) = SentPrices([b EXCEPT !.flying = h], "history", None)
    BY <1>2 DEF HistoryAsked, GPUType
  <2> HIDE DEF b
  <2>4. i \in DOMAIN b.flying
    BY <2>1
  <2>6. [what |-> "history", of |-> None, current |-> TRUE] \in GPURequests
    BY DEF GPURequests, Requests
  <2>5. LET t == SentPrices(b, "history", None)
        IN  [t EXCEPT !.flying = Answered(t.flying, i)] = SentPrices([b EXCEPT !.flying = Answered(b.flying, i)], "history", None)
    BY <2>1, <2>4, <2>6, SentAfter
  <2> QED
    BY <2>1, <2>2, <2>3, <2>5 DEF h
<1> QED
  BY <1>1, <1>2

LEMMA ChoosingAfter ==
    ASSUME NEW s \in GPUType, NEW i \in DOMAIN s.flying, NEW wanted, NEW next \in Choosing(s, wanted)
    PROVE  [next EXCEPT !.flying = Answered(next.flying, i)] \in
               Choosing([s EXCEPT !.flying = Answered(s.flying, i)], wanted)
<1> DEFINE h == Answered(s.flying, i)
           b == [s EXCEPT !.flying = h]
<1>1. PICK chosen \in ChosenAmong(s.quotes, wanted) :
         next = IF chosen = s.chosen THEN s ELSE HistoryAsked([s EXCEPT !.chosen = chosen])
  BY DEF Choosing
<1> HIDE DEF h
<1>2. b.quotes = s.quotes /\ b.chosen = s.chosen
  BY DEF GPUType
<1>3. CASE chosen = s.chosen
  BY <1>1, <1>2, <1>3 DEF Choosing, h
<1>4. CASE chosen # s.chosen
  <2> DEFINE c == [s EXCEPT !.chosen = chosen]
  <2>1. chosen \in SUBSET Quotes \/ chosen = wanted
    BY DEF ChosenAmong, GPUType
  <2>2. chosen \subseteq s.quotes
    BY DEF ChosenAmong
  <2>3. c \in GPUType /\ c.flying = s.flying
    BY <2>2 DEF GPUType
  <2>4. [b EXCEPT !.chosen = chosen] = [c EXCEPT !.flying = h]
    BY DEF GPUType
  <2> HIDE DEF c
  <2>5. i \in DOMAIN c.flying
    BY <2>3
  <2>6. LET t == HistoryAsked(c)
        IN  [t EXCEPT !.flying = Answered(t.flying, i)] = HistoryAsked([c EXCEPT !.flying = Answered(c.flying, i)])
    BY <2>3, <2>5, AskedAfter
  <2>7. next = HistoryAsked(c)
    BY <1>1, <1>4 DEF c
  <2>8. [next EXCEPT !.flying = Answered(next.flying, i)] = HistoryAsked([b EXCEPT !.chosen = chosen])
    BY <2>3, <2>4, <2>6, <2>7 DEF h
  <2> HIDE DEF b
  <2> QED
    BY <1>1, <1>2, <1>4, <2>8 DEF Choosing, b, h
<1> QED
  BY <1>3, <1>4

LEMMA GPUStarts == GPUInit => GPUOK(ui)
<1> SUFFICES ASSUME GPUInit PROVE GPUOK(ui)
  OBVIOUS
<1> DEFINE f == <<>>
           days == CHOOSE days \in Spans : TRUE
           s == [quotes |-> {}, live |-> FALSE, configured |-> FALSE, refreshable |-> "unknown",
                 loading |-> FALSE, error |-> FALSE, refreshing |-> FALSE, refreshError |-> FALSE,
                 reloading |-> FALSE, feedback |-> FALSE, reference |-> "loading", chosen |-> {},
                 days |-> days, history |-> "none", historyLoading |-> FALSE,
                 historyError |-> FALSE, flying |-> f]
           r == RefreshPrices(s, "poll")
           t == SentPrices(r, "reference", None)
<1>1. f \in Seq(GPURequests)
  OBVIOUS
<1>2. ui = t
  BY DEF GPUInit
<1> HIDE DEF f, days
<1>3. /\ s \in GPUType /\ GPUQuoted(s) /\ ~s.refreshing /\ ~s.reloading /\ ~s.historyLoading
  BY <1>1 DEF GPUType, GPUQuoted, days
<1> HIDE DEF s
<1>4. GPUOK(r)
  BY <1>3, RefreshedKeeps
<1> HIDE DEF r
<1>5. r \in GPUType
  BY <1>4 DEF GPUOK
<1>6. /\ t \in GPUType
      /\ t = [r EXCEPT !.flying = t.flying]
      /\ Some(r.flying, {"history"}) => Some(t.flying, {"history"})
      /\ Some(r.flying, {"current"}) => Some(t.flying, {"current"})
      /\ Behind(r.flying, "upstream") => Behind(t.flying, "upstream")
      /\ Behind(r.flying, "config") => Behind(t.flying, "config")
  BY <1>5, SentKeeps
<1> HIDE DEF t
<1>7. t.refreshing = r.refreshing /\ t.reloading = r.reloading /\ t.loading = r.loading
      /\ t.historyLoading = r.historyLoading /\ t.chosen = r.chosen /\ t.quotes = r.quotes
  BY <1>5, <1>6 DEF GPUType
<1> QED
  BY <1>2, <1>4, <1>6, <1>7 DEF GPUOK, GPUQuoted, GPUWaits

LEMMA GPUSteps ==
    ASSUME GPUOK(ui), GPUNext
    PROVE  GPUOK(ui')
<1> DEFINE f == ui.flying
           h(i) == Answered(f, i)
<1>0. ui \in GPUType /\ f \in Seq(GPURequests) /\ GPUQuoted(ui) /\ GPUWaits(ui, f)
  BY DEF GPUOK, GPUType
<1>h. ASSUME NEW i \in DOMAIN f
      PROVE  /\ h(i) \in Seq(GPURequests)
             /\ Some(f, {"history"}) /\ f[i].what # "history" => Some(h(i), {"history"})
             /\ Some(f, {"current"}) /\ f[i].what # "current" => Some(h(i), {"current"})
             /\ Behind(f, "upstream") /\ (IF f[i].what = "current" THEN f[i].of # "upstream" ELSE f[i].what # "upstream")
                    => Behind(h(i), "upstream")
             /\ Behind(f, "config") /\ (IF f[i].what = "current" THEN f[i].of # "config" ELSE f[i].what # "config")
                    => Behind(h(i), "config")
  <2>1. h(i) \in Seq(GPURequests)
    BY <1>0, AnsweredIn
  <2>2. /\ Some(f, {"history"}) /\ f[i].what \notin {"history"} => Some(h(i), {"history"})
        /\ Some(f, {"current"}) /\ f[i].what \notin {"current"} => Some(h(i), {"current"})
    BY <1>0, SomeAnswered
  <2>3. /\ Behind(f, "upstream") /\ (IF f[i].what = "current" THEN f[i].of # "upstream" ELSE f[i].what # "upstream")
              => Behind(h(i), "upstream")
        /\ Behind(f, "config") /\ (IF f[i].what = "current" THEN f[i].of # "config" ELSE f[i].what # "config")
              => Behind(h(i), "config")
    BY <1>0, BehindAnswered
  <2> QED
    BY <2>1, <2>2, <2>3
<1>1. CASE Reread
  BY <1>0, <1>1, RefreshedKeeps DEF Reread, GPUWaits
<1>2. CASE RefreshUpstream
  <2> DEFINE b == [ui EXCEPT !.refreshing = TRUE, !.refreshError = FALSE]
             t == SentPrices(b, "upstream", None)
  <2>1. b \in GPUType /\ b.flying = f
    BY <1>0 DEF GPUType
  <2>2. ui' = t
    BY <1>2 DEF RefreshUpstream
  <2>3. GPUQuoted(b) /\ (b.reloading => Behind(f, "config")) /\ (b.loading => Some(f, {"current"}))
        /\ (b.historyLoading => Some(f, {"history"}))
    BY <1>0 DEF GPUType, GPUQuoted, GPUWaits
  <2> HIDE DEF b
  <2>4. /\ t \in GPUType
        /\ t = [b EXCEPT !.flying = t.flying]
        /\ Behind(t.flying, "upstream")
        /\ Some(b.flying, {"history"}) => Some(t.flying, {"history"})
        /\ Some(b.flying, {"current"}) => Some(t.flying, {"current"})
        /\ Behind(b.flying, "config") => Behind(t.flying, "config")
    BY <2>1, SentKeeps
  <2> HIDE DEF t
  <2>5. t.reloading = b.reloading /\ t.loading = b.loading
        /\ t.historyLoading = b.historyLoading /\ t.chosen = b.chosen /\ t.quotes = b.quotes
    BY <2>1, <2>4 DEF GPUType
  <2> QED
    BY <2>1, <2>2, <2>3, <2>4, <2>5 DEF GPUOK, GPUQuoted, GPUWaits
<1>3. CASE ReloadConfiguration
  <2> DEFINE b == [ui EXCEPT !.reloading = TRUE, !.feedback = FALSE]
             t == SentPrices(b, "config", None)
  <2>1. b \in GPUType /\ b.flying = f
    BY <1>0 DEF GPUType
  <2>2. ui' = t
    BY <1>3 DEF ReloadConfiguration
  <2>3. GPUQuoted(b) /\ (b.refreshing => Behind(f, "upstream")) /\ (b.loading => Some(f, {"current"}))
        /\ (b.historyLoading => Some(f, {"history"}))
    BY <1>0 DEF GPUType, GPUQuoted, GPUWaits
  <2> HIDE DEF b
  <2>4. /\ t \in GPUType
        /\ t = [b EXCEPT !.flying = t.flying]
        /\ Behind(t.flying, "config")
        /\ Some(b.flying, {"history"}) => Some(t.flying, {"history"})
        /\ Some(b.flying, {"current"}) => Some(t.flying, {"current"})
        /\ Behind(b.flying, "upstream") => Behind(t.flying, "upstream")
    BY <2>1, SentKeeps
  <2> HIDE DEF t
  <2>5. t.refreshing = b.refreshing /\ t.loading = b.loading
        /\ t.historyLoading = b.historyLoading /\ t.chosen = b.chosen /\ t.quotes = b.quotes
    BY <2>1, <2>4 DEF GPUType
  <2> QED
    BY <2>1, <2>2, <2>3, <2>4, <2>5 DEF GPUOK, GPUQuoted, GPUWaits
<1>4. CASE ChooseHistory
  <2>1. PICK q \in ui.quotes \ ui.chosen : ui' \in Choosing(ui, {q})
    BY <1>4 DEF ChooseHistory
  <2>2. {q} \in SUBSET Quotes
    BY <1>0 DEF GPUType
  <2> QED
    BY <1>0, <2>1, <2>2, ChoosingKeeps
<1>5. CASE RetryReference
  <2> DEFINE b == [ui EXCEPT !.reference = "loading"]
             t == SentPrices(b, "reference", None)
  <2>1. b \in GPUType /\ b.flying = f
    BY <1>0 DEF GPUType
  <2>2. ui' = t
    BY <1>5 DEF RetryReference
  <2>3. GPUQuoted(b) /\ GPUWaits(b, f)
    BY <1>0 DEF GPUType, GPUQuoted, GPUWaits
  <2> HIDE DEF b
  <2>4. /\ t \in GPUType
        /\ t = [b EXCEPT !.flying = t.flying]
        /\ Some(b.flying, {"history"}) => Some(t.flying, {"history"})
        /\ Some(b.flying, {"current"}) => Some(t.flying, {"current"})
        /\ Behind(b.flying, "upstream") => Behind(t.flying, "upstream")
        /\ Behind(b.flying, "config") => Behind(t.flying, "config")
    BY <2>1, SentKeeps
  <2> HIDE DEF t
  <2>5. t.refreshing = b.refreshing /\ t.reloading = b.reloading /\ t.loading = b.loading
        /\ t.historyLoading = b.historyLoading /\ t.chosen = b.chosen /\ t.quotes = b.quotes
    BY <2>1, <2>4 DEF GPUType
  <2> QED
    BY <2>1, <2>2, <2>3, <2>4, <2>5 DEF GPUOK, GPUQuoted, GPUWaits
<1>6. ASSUME NEW days \in Spans, ChooseDays(days)
      PROVE  GPUOK(ui')
  <2> DEFINE b == [ui EXCEPT !.days = days]
  <2>1. /\ b \in GPUType /\ GPUQuoted(b)
        /\ b.refreshing => Behind(b.flying, "upstream")
        /\ b.reloading => Behind(b.flying, "config")
        /\ b.loading => Some(b.flying, {"current"})
    BY <1>0 DEF GPUType, GPUQuoted, GPUWaits
  <2>2. ui' = HistoryAsked(b)
    BY <1>6 DEF ChooseDays
  <2> HIDE DEF b
  <2> QED
    BY <2>1, <2>2, AskedKeeps
<1>7. ASSUME NEW i \in DOMAIN ui.flying, CurrentAnswer(i)
      PROVE  GPUOK(ui')
  <2>1. PICK rows \in SUBSET Quotes, usable \in BOOLEAN, failed \in BOOLEAN, configured \in BOOLEAN,
             refreshable \in {"yes", "no", "unknown"} :
           \E next \in Choosing(Done(Adapted(ui, rows, usable, configured, refreshable, failed), ui.flying[i].of), ui.chosen) :
              Taken(i, next)
    BY <1>7 DEF CurrentAnswer
  <2> DEFINE by == ui.flying[i].of
             a == Done(Adapted(ui, rows, usable, configured, refreshable, failed), by)
             live == rows # {} /\ usable /\ ~failed
             quotes == IF live THEN rows ELSE {}
             refreshing == ui.refreshing /\ by # "upstream"
             reloading == ui.reloading /\ by # "config"
  <2>2. PICK next \in Choosing(a, ui.chosen) : Taken(i, next)
    BY <2>1
  <2> DEFINE adapted == [ui EXCEPT !.live = live, !.quotes = quotes, !.configured = configured,
                                   !.refreshable = refreshable]
  <2>3. a = [adapted EXCEPT !.error = failed, !.loading = FALSE, !.refreshing = refreshing, !.reloading = reloading]
    BY <1>0 DEF Done, Adapted, GPUType
  <2>4. live \in BOOLEAN /\ quotes \in SUBSET Quotes /\ refreshing \in BOOLEAN /\ reloading \in BOOLEAN
    OBVIOUS
  <2>5. f[i].what = "current" /\ by = f[i].of
    BY <1>7 DEF CurrentAnswer
  <2>6. /\ h(i) \in Seq(GPURequests)
        /\ refreshing => Behind(h(i), "upstream")
        /\ reloading => Behind(h(i), "config")
        /\ ui.historyLoading => Some(h(i), {"history"})
    BY <1>0, <1>h, <2>5 DEF GPUWaits
  <2> HIDE DEF live, quotes, refreshing, reloading, a, by, h
  <2>a. adapted \in GPUType /\ adapted.flying = f /\ adapted.historyLoading = ui.historyLoading
    BY <1>0, <2>4 DEF GPUType
  <2> HIDE DEF adapted
  <2>7. a \in GPUType /\ a.flying = f
        /\ a.refreshing = refreshing /\ a.reloading = reloading /\ a.loading = FALSE
        /\ a.historyLoading = ui.historyLoading
    BY <2>3, <2>4, <2>a DEF GPUType
  <2> DEFINE b == [a EXCEPT !.flying = h(i)]
  <2>8. b \in GPUType /\ b.flying = h(i) /\ b.refreshing = refreshing /\ b.reloading = reloading
        /\ b.loading = FALSE /\ b.historyLoading = ui.historyLoading
    BY <2>6, <2>7 DEF GPUType
  <2>9. GPUWaits(b, b.flying)
    BY <2>6, <2>8 DEF GPUWaits
  <2>10. i \in DOMAIN a.flying
    BY <2>7
  <2>11. ui' = [next EXCEPT !.flying = Answered(next.flying, i)]
    BY <2>2 DEF Taken
  <2>12. ui' \in Choosing([a EXCEPT !.flying = Answered(a.flying, i)], ui.chosen)
    BY <2>7, <2>10, <2>11, ChoosingAfter
  <2>13. ui' \in Choosing(b, ui.chosen)
    BY <2>7, <2>12 DEF h
  <2>14. ui.chosen \in SUBSET Quotes
    BY <1>0 DEF GPUType
  <2> HIDE DEF b
  <2> QED
    BY <2>8, <2>9, <2>13, <2>14, ChoosingKeeps
<1>8. ASSUME NEW i \in DOMAIN ui.flying, ReferenceAnswer(i)
      PROVE  GPUOK(ui')
  <2>1. PICK reference \in {"available", "unavailable"} : Taken(i, [ui EXCEPT !.reference = reference])
    BY <1>8 DEF ReferenceAnswer
  <2>2. f[i].what = "reference"
    BY <1>8 DEF ReferenceAnswer
  <2>3. h(i) \in Seq(GPURequests) /\ GPUWaits(ui, h(i))
    BY <1>0, <1>h, <2>2 DEF GPUWaits
  <2>4. ui' = [ui EXCEPT !.reference = reference, !.flying = h(i)]
    BY <1>0, <2>1 DEF Taken, GPUType
  <2> HIDE DEF h
  <2> QED
    BY <1>0, <2>3, <2>4 DEF GPUOK, GPUType, GPUQuoted, GPUWaits
<1>9. ASSUME NEW i \in DOMAIN ui.flying, NEW ok \in BOOLEAN, UpstreamAnswer(i, ok)
      PROVE  GPUOK(ui')
  <2>1. f[i].what = "upstream"
    BY <1>9 DEF UpstreamAnswer
  <2>2. /\ h(i) \in Seq(GPURequests)
        /\ ui.loading => Some(h(i), {"current"})
        /\ ui.historyLoading => Some(h(i), {"history"})
        /\ ui.reloading => Behind(h(i), "config")
    BY <1>0, <1>h, <2>1 DEF GPUWaits
  <2>3. CASE ~ok
    <3>1. ui' = [ui EXCEPT !.refreshError = TRUE, !.refreshing = FALSE, !.flying = h(i)]
      BY <1>0, <1>9, <2>3 DEF UpstreamAnswer, Taken, GPUType
    <3> HIDE DEF h
    <3> QED
      BY <1>0, <2>2, <3>1 DEF GPUOK, GPUType, GPUQuoted, GPUWaits
  <2>4. CASE ok
    <3> DEFINE b == [ui EXCEPT !.flying = h(i)]
    <3>1. ui' = RefreshPrices(b, "upstream")
      BY <1>9, <2>4, RefreshedAfter DEF UpstreamAnswer, Taken, GPUOK
    <3> HIDE DEF h
    <3>2. b \in GPUType /\ GPUQuoted(b) /\ b.flying = h(i) /\ b.reloading = ui.reloading
          /\ b.historyLoading = ui.historyLoading
      BY <1>0, <2>2 DEF GPUType, GPUQuoted
    <3> HIDE DEF b
    <3> QED
      BY <2>2, <3>1, <3>2, RefreshedKeeps
  <2> QED
    BY <2>3, <2>4
<1>10. ASSUME NEW i \in DOMAIN ui.flying, NEW ok \in BOOLEAN, PriceConfigAnswer(i, ok)
      PROVE  GPUOK(ui')
  <2>1. f[i].what = "config"
    BY <1>10 DEF PriceConfigAnswer
  <2>2. /\ h(i) \in Seq(GPURequests)
        /\ ui.loading => Some(h(i), {"current"})
        /\ ui.historyLoading => Some(h(i), {"history"})
        /\ ui.refreshing => Behind(h(i), "upstream")
    BY <1>0, <1>h, <2>1 DEF GPUWaits
  <2>3. CASE ~ok
    <3>1. ui' = [ui EXCEPT !.feedback = TRUE, !.reloading = FALSE, !.flying = h(i)]
      BY <1>0, <1>10, <2>3 DEF PriceConfigAnswer, Taken, GPUType
    <3> HIDE DEF h
    <3> QED
      BY <1>0, <2>2, <3>1 DEF GPUOK, GPUType, GPUQuoted, GPUWaits
  <2>4. CASE ok
    <3> DEFINE c == [ui EXCEPT !.feedback = TRUE]
               b == [c EXCEPT !.flying = h(i)]
    <3>1. c \in GPUType /\ c.flying = f
      BY <1>0 DEF GPUType
    <3>2. ui' = [RefreshPrices(c, "config") EXCEPT !.flying = Answered(RefreshPrices(c, "config").flying, i)]
      BY <1>10, <2>4 DEF PriceConfigAnswer, Taken
    <3> HIDE DEF c
    <3>3. i \in DOMAIN c.flying
      BY <3>1
    <3>4. ui' = RefreshPrices([c EXCEPT !.flying = Answered(c.flying, i)], "config")
      BY <3>1, <3>2, <3>3, RefreshedAfter
    <3>5. ui' = RefreshPrices(b, "config")
      BY <3>1, <3>4
    <3> HIDE DEF h
    <3>6. b \in GPUType /\ GPUQuoted(b) /\ b.flying = h(i) /\ b.refreshing = ui.refreshing
          /\ b.historyLoading = ui.historyLoading
      BY <1>0, <2>2 DEF GPUType, GPUQuoted, c
    <3> HIDE DEF b
    <3> QED
      BY <2>2, <3>5, <3>6, RefreshedKeeps
  <2> QED
    BY <2>3, <2>4
<1>11. ASSUME NEW i \in DOMAIN ui.flying, NEW shown \in {"points", "empty", "unusable", "failed"},
              PriceHistoryAnswer(i, shown)
      PROVE  GPUOK(ui')
  <2> DEFINE error == shown = "failed"
  <2>1. f[i].what = "history"
    BY <1>11 DEF PriceHistoryAnswer
  <2>2. /\ h(i) \in Seq(GPURequests)
        /\ ui.loading => Some(h(i), {"current"})
        /\ ui.refreshing => Behind(h(i), "upstream")
        /\ ui.reloading => Behind(h(i), "config")
    BY <1>0, <1>h, <2>1 DEF GPUWaits
  <2>3. ui' = [ui EXCEPT !.history = shown, !.historyLoading = FALSE, !.historyError = error, !.flying = h(i)]
    BY <1>0, <1>11 DEF PriceHistoryAnswer, Taken, GPUType
  <2>4. error \in BOOLEAN
    OBVIOUS
  <2> HIDE DEF h, error
  <2> QED
    BY <1>0, <2>2, <2>3, <2>4 DEF GPUOK, GPUType, GPUQuoted, GPUWaits
<1> QED
  BY <1>1, <1>2, <1>3, <1>4, <1>5, <1>6, <1>7, <1>8, <1>9, <1>10, <1>11 DEF GPUNext

LEMMA GPUTold == ASSUME GPUOK(ui) PROVE GPUHistoryQuoted /\ GPUPageNeverStuck
<1>1. GPUHistoryQuoted
  BY DEF GPUOK, GPUQuoted, GPUHistoryQuoted
<1>2. ui.flying \in Seq(GPURequests) /\ GPUWaits(ui, ui.flying)
  BY DEF GPUOK, GPUType
<1>3. \A i \in DOMAIN ui.flying : ui.flying[i].current
  BY <1>2 DEF GPURequests
<1>4. /\ Some(ui.flying, {"current"}) => Waiting(ui.flying, "current")
      /\ Some(ui.flying, {"history"}) => Waiting(ui.flying, "history")
  BY <1>3 DEF Some, Waiting, Flying
<1>5. \A by : Behind(ui.flying, by) =>
          \E i \in DOMAIN ui.flying :
             ui.flying[i].what = by \/ (ui.flying[i].what = "current" /\ ui.flying[i].of = by)
  BY DEF Behind
<1> QED
  BY <1>1, <1>2, <1>4, <1>5 DEF GPUWaits, GPUPageNeverStuck

-----------------------------------------------------------------------------
(* The frame of the market pages *)

Paths == {"etf", "portfolio", "dashboard", "dashboard/macro", "stock"}

ShellRequests == Requests({"search"}, Searches \cup {None})

ShellType ==
    [location : Locations, collapsed : BOOLEAN, menu : Paths \cup {None}, drawer : BOOLEAN, watched : SUBSET Watched,
     open : BOOLEAN, query : Searches \cup {None}, timer : BOOLEAN, loading : BOOLEAN, error : BOOLEAN,
     results : Searches \cup {None}, flying : Seq(ShellRequests)]

\* The menu is that of the page.
MenuFits(s) == s.menu # None => s.menu = s.location.path

\* What is searched for is what is typed, by the timer, by a request or by the
\* results.
Searching(s) ==
    /\ Owned(s.flying, "search", s.query)
    /\ s.open /\ s.query = None => s.results = None
    /\ s.open /\ s.query # None =>
          \/ s.timer
          \/ s.loading /\ Waiting(s.flying, "search")
          \/ ~s.loading /\ (s.results = s.query \/ s.error)

ShellOK(s) ==
    /\ s \in ShellType
    /\ MenuFits(s)
    /\ Searching(s)

LEMMA LocationPaths == \A l \in Locations : l.path \in Paths
  BY DEF Locations, Paths

\* The effect of the palette puts the search right, whatever was before.
LEMMA SearchEffectKeeps ==
    ASSUME NEW s \in ShellType, MenuFits(s)
    PROVE  ShellOK(SearchEffect(s))
<1> DEFINE g == Superseded(s.flying, "search")
           t == SearchEffect(s)
<1>1. s.flying \in Seq(ShellRequests)
  BY DEF ShellType
<1>2. g \in Seq(ShellRequests) /\ Owned(g, "search", s.query)
  BY <1>1, Gate DEF ShellRequests
<1>3. IF ~s.open \/ s.query = None
      THEN t = [s EXCEPT !.flying = g, !.results = None, !.error = FALSE, !.timer = FALSE]
      ELSE t = [s EXCEPT !.flying = g, !.timer = TRUE]
  BY DEF SearchEffect
<1> HIDE DEF g, t
<1>4. CASE ~s.open \/ s.query = None
  <2>1. /\ t \in ShellType /\ t.flying = g /\ t.query = s.query /\ t.menu = s.menu /\ t.location = s.location
        /\ t.open = s.open /\ ~t.timer /\ t.results = None
    BY <1>2, <1>3, <1>4 DEF ShellType
  <2> QED
    BY <1>2, <1>4, <2>1 DEF ShellOK, MenuFits, Searching, t
<1>5. CASE ~(~s.open \/ s.query = None)
  <2>1. /\ t \in ShellType /\ t.flying = g /\ t.query = s.query /\ t.menu = s.menu /\ t.location = s.location
        /\ t.open = s.open /\ t.timer
    BY <1>2, <1>3, <1>5 DEF ShellType
  <2> QED
    BY <1>2, <1>5, <2>1 DEF ShellOK, MenuFits, Searching, t
<1> QED
  BY <1>4, <1>5

LEMMA ArrivedKeeps ==
    ASSUME NEW s, ShellOK(s), NEW location \in Locations
    PROVE  ShellOK(Arrived(s, location))
<1> DEFINE menu == IF location.path = s.location.path THEN s.menu ELSE None
           t == Arrived(s, location)
<1>1. s \in ShellType
  BY DEF ShellOK
<1>2. menu \in Paths \cup {None} /\ (menu # None => menu = location.path)
  BY <1>1 DEF ShellOK, MenuFits, ShellType
<1>3. t = [s EXCEPT !.location = location, !.menu = menu]
  BY DEF Arrived
<1> HIDE DEF menu, t
<1>4. /\ t \in ShellType /\ t.flying = s.flying /\ t.query = s.query /\ t.menu = menu /\ t.location = location
      /\ t.open = s.open /\ t.timer = s.timer /\ t.loading = s.loading /\ t.error = s.error /\ t.results = s.results
  BY <1>1, <1>2, <1>3 DEF ShellType
<1>5. MenuFits(t)
  BY <1>2, <1>4 DEF MenuFits
<1>6. Searching(t)
  BY <1>4 DEF ShellOK, Searching
<1> QED
  BY <1>4, <1>5, <1>6 DEF ShellOK, t

LEMMA ClosedKeeps ==
    ASSUME NEW s \in ShellType, MenuFits(s)
    PROVE  ShellOK(ClosePalette(s))
<1> DEFINE b == [s EXCEPT !.open = FALSE]
<1>1. b \in ShellType /\ MenuFits(b)
  BY DEF ShellType, MenuFits
<1> HIDE DEF b
<1>2. ShellOK(SearchEffect(b))
  BY <1>1, SearchEffectKeeps
<1> QED
  BY <1>2 DEF ClosePalette, b

LEMMA ShellStarts == ShellInit => ShellOK(ui)
<1> SUFFICES ASSUME ShellInit PROVE ShellOK(ui)
  OBVIOUS
<1>1. PICK location \in Locations, watched \in SUBSET Watched :
         ui = [location |-> location, collapsed |-> FALSE, menu |-> None, drawer |-> FALSE, watched |-> watched,
               open |-> FALSE, query |-> None, timer |-> FALSE, loading |-> FALSE, error |-> FALSE,
               results |-> None, flying |-> <<>>]
  BY DEF ShellInit
<1> DEFINE f == <<>>
<1>2. f \in Seq(ShellRequests) /\ DOMAIN f = {}
  OBVIOUS
<1>3. ui = [location |-> location, collapsed |-> FALSE, menu |-> None, drawer |-> FALSE, watched |-> watched,
            open |-> FALSE, query |-> None, timer |-> FALSE, loading |-> FALSE, error |-> FALSE,
            results |-> None, flying |-> f]
  BY <1>1
<1> HIDE DEF f
<1>4. ui \in ShellType /\ ui.flying = f /\ ui.menu = None /\ ~ui.open /\ ~ui.timer
  BY <1>2, <1>3 DEF ShellType
<1>5. Owned(f, "search", ui.query)
  BY <1>2 DEF Owned
<1> QED
  BY <1>4, <1>5 DEF ShellOK, MenuFits, Searching

LEMMA ShellSteps ==
    ASSUME ShellOK(ui), ShellNext
    PROVE  ShellOK(ui')
<1> DEFINE f == ui.flying
<1>0. ui \in ShellType /\ f \in Seq(ShellRequests) /\ MenuFits(ui) /\ Searching(ui)
  BY DEF ShellOK, ShellType
<1>1. ASSUME NEW i \in DOMAIN ui.flying, NEW ok \in BOOLEAN, PaletteAnswer(i, ok)
      PROVE  ShellOK(ui')
  <2> DEFINE h == Answered(f, i)
             results == IF ok THEN ui.flying[i].of ELSE None
             error == ~ok
  <2>1. /\ h \in Seq(ShellRequests) /\ Owned(h, "search", ui.query)
        /\ Waiting(f, "search") /\ ~f[i].current => Waiting(h, "search")
    BY <1>0, GateAnswered DEF Searching
  <2>2. f[i] \in ShellRequests
    BY <1>0
  <2>3. f[i].what = "search" /\ f[i].of \in Searches \cup {None} /\ (f[i].current => f[i].of = ui.query)
    BY <1>0, <1>1, <2>2 DEF PaletteAnswer, ShellRequests, Requests, Searching, Owned
  <2>4. results \in Searches \cup {None} /\ error \in BOOLEAN /\ (f[i].current => error \/ results = ui.query)
        /\ (f[i].current /\ ui.query = None => results = None)
    BY <2>3
  <2>5. CASE f[i].current
    <3>1. ui' = [ui EXCEPT !.loading = FALSE, !.error = error, !.results = results, !.flying = h]
      BY <1>0, <1>1, <2>5 DEF PaletteAnswer, Heard, ShellType
    <3> HIDE DEF h, error, results
    <3>2. /\ ui' \in ShellType /\ ui'.flying = h /\ ui'.query = ui.query /\ ui'.menu = ui.menu
          /\ ui'.location = ui.location /\ ui'.open = ui.open /\ ui'.timer = ui.timer /\ ui'.loading = FALSE
          /\ ui'.error = error /\ ui'.results = results
      BY <1>0, <2>1, <2>4, <3>1 DEF ShellType
    <3>3. MenuFits(ui')
      BY <1>0, <3>2 DEF MenuFits
    <3>4. Searching(ui')
      BY <1>0, <2>1, <2>4, <2>5, <3>2 DEF Searching
    <3> QED
      BY <3>2, <3>3, <3>4 DEF ShellOK
  <2>6. CASE ~f[i].current
    <3>1. ui' = [ui EXCEPT !.flying = h]
      BY <1>0, <1>1, <2>6 DEF PaletteAnswer, Heard, ShellType
    <3> HIDE DEF h
    <3>2. /\ ui' \in ShellType /\ ui'.flying = h /\ ui'.query = ui.query /\ ui'.menu = ui.menu
          /\ ui'.location = ui.location /\ ui'.open = ui.open /\ ui'.timer = ui.timer /\ ui'.loading = ui.loading
          /\ ui'.error = ui.error /\ ui'.results = ui.results
      BY <1>0, <2>1, <3>1 DEF ShellType
    <3>3. MenuFits(ui')
      BY <1>0, <3>2 DEF MenuFits
    <3>4. Searching(ui')
      BY <1>0, <2>1, <2>6, <3>2 DEF Searching
    <3> QED
      BY <3>2, <3>3, <3>4 DEF ShellOK
  <2> QED
    BY <2>5, <2>6
<1>2. ASSUME NEW location \in Locations, GoFromPalette(location)
      PROVE  ShellOK(ui')
  BY <1>0, <1>2, ClosedKeeps, ArrivedKeeps DEF GoFromPalette
<1>3. ASSUME NEW location \in Locations, Navigate(location)
      PROVE  ShellOK(ui')
  BY <1>3, ArrivedKeeps DEF Navigate
<1>4. ASSUME NEW location \in Locations, GoFromMenu(location)
      PROVE  ShellOK(ui')
  <2> DEFINE b == [ui EXCEPT !.menu = None]
  <2>1. ShellOK(b)
    BY <1>0 DEF ShellOK, ShellType, MenuFits, Searching
  <2>2. ui' = Arrived(b, location)
    BY <1>4 DEF GoFromMenu
  <2> HIDE DEF b
  <2> QED
    BY <2>1, <2>2, ArrivedKeeps
<1>5. ASSUME NEW location \in Locations, GoFromDrawer(location)
      PROVE  ShellOK(ui')
  <2> DEFINE b == [ui EXCEPT !.drawer = FALSE]
  <2>1. ShellOK(b)
    BY <1>0 DEF ShellOK, ShellType, MenuFits, Searching
  <2>2. ui' = Arrived(b, location)
    BY <1>5 DEF GoFromDrawer
  <2> HIDE DEF b
  <2> QED
    BY <2>1, <2>2, ArrivedKeeps
<1>6. ASSUME NEW query \in Searches \cup {None}, TypeQuery(query)
      PROVE  ShellOK(ui')
  <2> DEFINE b == [ui EXCEPT !.query = query]
  <2>1. b \in ShellType /\ MenuFits(b)
    BY <1>0 DEF ShellType, MenuFits
  <2>2. ui' = SearchEffect(b)
    BY <1>6 DEF TypeQuery
  <2> HIDE DEF b
  <2> QED
    BY <2>1, <2>2, SearchEffectKeeps
<1>7. ASSUME NEW symbol \in Watched, RemoveWatched(symbol)
      PROVE  ShellOK(ui')
  <2> DEFINE watched == ui.watched \ {symbol}
  <2>1. watched \in SUBSET Watched
    BY <1>0 DEF ShellType
  <2>2. ui' = [ui EXCEPT !.watched = watched]
    BY <1>7 DEF RemoveWatched
  <2> HIDE DEF watched
  <2> QED
    BY <1>0, <2>1, <2>2 DEF ShellOK, ShellType, MenuFits, Searching
<1>8. CASE OpenPalette
  <2> DEFINE b == [ui EXCEPT !.open = TRUE]
  <2>1. b \in ShellType /\ MenuFits(b)
    BY <1>0 DEF ShellType, MenuFits
  <2>2. ui' = SearchEffect(b)
    BY <1>8 DEF OpenPalette
  <2> HIDE DEF b
  <2> QED
    BY <2>1, <2>2, SearchEffectKeeps
<1>9. CASE LeavePalette
  BY <1>0, <1>9, ClosedKeeps DEF LeavePalette
<1>10. CASE RetrySearch
  BY <1>0, <1>10, SearchEffectKeeps DEF RetrySearch
<1>11. CASE PaletteTimer
  <2> DEFINE g == Ask(f, "search", ui.query)
  <2>1. ui.query \in Searches \cup {None} /\ "search" \in {"search"}
    BY <1>0 DEF ShellType
  <2>2. g \in Seq(ShellRequests) /\ Waiting(g, "search") /\ Owned(g, "search", ui.query)
    BY <1>0, <2>1, GateAsk DEF ShellRequests
  <2>3. ui' = [ui EXCEPT !.timer = FALSE, !.loading = TRUE, !.error = FALSE, !.flying = g]
    BY <1>11 DEF PaletteTimer
  <2> HIDE DEF g
  <2> QED
    BY <1>0, <2>2, <2>3 DEF ShellOK, ShellType, MenuFits, Searching
<1>12. CASE ToggleMenu
  <2> DEFINE menu == IF ui.menu = None THEN ui.location.path ELSE None
  <2>1. ui' = [ui EXCEPT !.menu = menu]
    BY <1>12 DEF ToggleMenu
  <2>2. menu \in Paths \cup {None} /\ (menu # None => menu = ui.location.path)
    BY <1>0, LocationPaths DEF ShellType
  <2> HIDE DEF menu
  <2> QED
    BY <1>0, <2>1, <2>2 DEF ShellOK, ShellType, MenuFits, Searching
<1>13. CASE ToggleCollapse
  <2> DEFINE collapsed == ~ui.collapsed
  <2>1. collapsed \in BOOLEAN
    OBVIOUS
  <2>2. ui' = [ui EXCEPT !.collapsed = collapsed]
    BY <1>13 DEF ToggleCollapse
  <2> HIDE DEF collapsed
  <2> QED
    BY <1>0, <2>1, <2>2 DEF ShellOK, ShellType, MenuFits, Searching
<1>14. CASE OpenDrawer
  BY <1>0, <1>14 DEF OpenDrawer, ShellOK, ShellType, MenuFits, Searching
<1>15. CASE CloseDrawer
  BY <1>0, <1>15 DEF CloseDrawer, ShellOK, ShellType, MenuFits, Searching
<1>16. CASE Escape
  <2> DEFINE b == [ui EXCEPT !.drawer = FALSE]
  <2>1. ShellOK(b)
    BY <1>0 DEF ShellOK, ShellType, MenuFits, Searching
  <2>2. ui' = b \/ ui' = ClosePalette(b)
    BY <1>16 DEF Escape
  <2> HIDE DEF b
  <2>3. b \in ShellType /\ MenuFits(b)
    BY <2>1 DEF ShellOK
  <2> QED
    BY <2>1, <2>2, <2>3, ClosedKeeps
<1> QED
  BY <1>1, <1>2, <1>3, <1>4, <1>5, <1>6, <1>7, <1>8, <1>9, <1>10, <1>11, <1>12, <1>13, <1>14, <1>15, <1>16
     DEF ShellNext

LEMMA ShellTold == ASSUME ShellOK(ui) PROVE ShellResultsOwn /\ ShellMenuOwn /\ ShellNeverStuck
<1>0. ui \in ShellType /\ MenuFits(ui) /\ Searching(ui)
  BY DEF ShellOK
<1>1. ShellResultsOwn
  BY <1>0 DEF Searching, ShellResultsOwn, PaletteShows
<1>2. ShellMenuOwn
  <2> SUFFICES ASSUME ui.menu # None
               PROVE  SidebarMarks(ui) \cup BottomMarks(ui) \subseteq MenuMarks(ui)
    BY <1>0 DEF ShellMenuOwn, MenuFits
  <2>1. \A item \in Cockpit : item \in NavItems /\ item.hash = None
    BY DEF Cockpit, NavItems, Locations
  <2>2. SidebarMarks(ui) \subseteq MenuMarks(ui)
    BY <2>1 DEF SidebarMarks, MenuMarks, Marked
  <2>3. BottomMarks(ui) \subseteq MenuMarks(ui)
    BY DEF BottomMarks, MenuMarks
  <2> QED
    BY <2>2, <2>3
<1>3. ShellNeverStuck
  BY <1>0 DEF Searching, ShellNeverStuck, PaletteShows
<1> QED
  BY <1>1, <1>2, <1>3
-----------------------------------------------------------------------------
(* The mark of the data in the frame *)

\* The last request of a refresh knows whether its sources were bad.
FreshRequests ==
    {r \in Requests({"load", "sources", "status"}, {None} \cup BOOLEAN) : r.what = "status" => r.of \in BOOLEAN}

FreshType ==
    [path : {None, "market", "scan", "research"}, status : Statuses, error : BOOLEAN, failed : BOOLEAN,
     refreshing : BOOLEAN, details : BOOLEAN, flying : Seq(FreshRequests)]

FreshOK(s) ==
    /\ s \in FreshType
    /\ s.failed => s.error
    /\ s.refreshing => Some(s.flying, {"sources", "status"})

LEMMA VisitKeeps ==
    ASSUME NEW s \in FreshType, s.refreshing => Some(s.flying, {"sources", "status"}),
           NEW path \in {"market", "scan", "research"}
    PROVE  FreshOK(VisitSurface(s, path))
<1> DEFINE f == s.flying
           g == AskOnce(f, "load")
<1>1. f \in Seq(FreshRequests)
  BY DEF FreshType
<1>2. [what |-> "load", of |-> None, current |-> TRUE] \in FreshRequests
  BY DEF FreshRequests, Requests
<1>3. g \in Seq(FreshRequests)
  BY <1>1, <1>2, AskOnceIs
<1>4. Some(f, {"sources", "status"}) => Some(g, {"sources", "status"})
  BY <1>1, <1>2, SomeOnce
<1>5. NoStatus \in Statuses
  BY DEF NoStatus, Statuses
<1>6. CASE path = "research"
  <2>1. VisitSurface(s, path) = [s EXCEPT !.path = path, !.error = FALSE, !.failed = FALSE, !.status = NoStatus]
    BY <1>6 DEF VisitSurface
  <2> QED
    BY <1>5, <2>1 DEF FreshOK, FreshType
<1>7. CASE path # "research"
  <2>1. VisitSurface(s, path) = [s EXCEPT !.path = path, !.error = FALSE, !.failed = FALSE, !.flying = g]
    BY <1>7 DEF VisitSurface, LoadStatus, FreshType
  <2> HIDE DEF g
  <2> QED
    BY <1>3, <1>4, <2>1 DEF FreshOK, FreshType
<1> QED
  BY <1>6, <1>7

LEMMA FreshStarts == FreshInit => FreshOK(ui)
<1> SUFFICES ASSUME FreshInit PROVE FreshOK(ui)
  OBVIOUS
<1>1. PICK path \in {"market", "scan", "research"} :
         ui = VisitSurface([path |-> None, status |-> NoStatus, error |-> FALSE, failed |-> FALSE,
                            refreshing |-> FALSE, details |-> FALSE, flying |-> <<>>], path)
  BY DEF FreshInit
<1> DEFINE f == <<>>
           s == [path |-> None, status |-> NoStatus, error |-> FALSE, failed |-> FALSE,
                 refreshing |-> FALSE, details |-> FALSE, flying |-> f]
<1>2. f \in Seq(FreshRequests)
  OBVIOUS
<1>3. NoStatus \in Statuses
  BY DEF NoStatus, Statuses
<1>4. ui = VisitSurface(s, path)
  BY <1>1
<1> HIDE DEF f
<1>5. s \in FreshType /\ ~s.refreshing
  BY <1>2, <1>3 DEF FreshType
<1> HIDE DEF s
<1> QED
  BY <1>4, <1>5, VisitKeeps

LEMMA FreshSteps ==
    ASSUME FreshOK(ui), FreshNext
    PROVE  FreshOK(ui')
<1> DEFINE f == ui.flying
<1>0. ui \in FreshType /\ f \in Seq(FreshRequests)
  BY DEF FreshOK, FreshType
<1>s. NoStatus \in Statuses
  BY DEF NoStatus, Statuses
<1>1. ASSUME NEW i \in DOMAIN ui.flying, NEW status \in Statuses \cup {NoStatus}, LoadAnswer(i, status)
      PROVE  FreshOK(ui')
  <2> DEFINE h == Answered(f, i)
             error == ui.error \/ status = NoStatus
  <2>1. h \in Seq(FreshRequests)
    BY <1>0, AnsweredIn
  <2>2. ui.refreshing => Some(h, {"sources", "status"})
    BY <1>0, <1>1, SomeAnswered DEF FreshOK, LoadAnswer
  <2>3. ui' = [ui EXCEPT !.status = status, !.error = error, !.flying = h]
    BY <1>0, <1>1 DEF LoadAnswer, Taken, Loaded, FreshType
  <2>4. error \in BOOLEAN /\ (ui.error => error)
    OBVIOUS
  <2> HIDE DEF h, error
  <2> QED
    BY <1>0, <1>s, <2>1, <2>2, <2>3, <2>4 DEF FreshOK, FreshType
<1>2. ASSUME NEW i \in DOMAIN ui.flying, NEW status \in Statuses \cup {NoStatus}, RefreshAnswer(i, status)
      PROVE  FreshOK(ui')
  <2> DEFINE h == Answered(f, i)
             bad == ui.flying[i].of
             failed == bad \/ status = NoStatus
             error == IF status = NoStatus THEN TRUE ELSE bad
  <2>1. h \in Seq(FreshRequests)
    BY <1>0, AnsweredIn
  <2>2. f[i] \in FreshRequests
    BY <1>0
  <2>3. bad \in BOOLEAN
    BY <1>2, <2>2 DEF RefreshAnswer, FreshRequests
  <2>4. ui' = [ui EXCEPT !.status = status, !.refreshing = FALSE, !.failed = failed, !.error = error, !.flying = h]
    BY <1>0, <1>2 DEF RefreshAnswer, Taken, FreshType
  <2> HIDE DEF bad
  <2>5. error \in BOOLEAN /\ failed \in BOOLEAN /\ (failed => error)
    BY <2>3
  <2> HIDE DEF h, error, failed
  <2> QED
    BY <1>0, <1>s, <2>1, <2>4, <2>5 DEF FreshOK, FreshType
<1>3. ASSUME NEW i \in DOMAIN ui.flying, NEW macro \in SomeAnswers, NEW movers \in SomeAnswers,
             SourcesAnswer(i, macro, movers)
      PROVE  FreshOK(ui')
  <2> DEFINE h == Answered(f, i)
             bad == TrustSession(macro) # "live" \/ TrustSession(movers) # "live"
             new == [what |-> "status", of |-> bad, current |-> TRUE]
             g == Append(h, new)
  <2>1. h \in Seq(FreshRequests)
    BY <1>0, AnsweredIn
  <2>2. bad \in BOOLEAN
    OBVIOUS
  <2>3. ui' = [ui EXCEPT !.flying = g]
    BY <1>3 DEF SourcesAnswer
  <2> HIDE DEF bad, h
  <2>4. new \in FreshRequests /\ new.what = "status"
    BY <2>2 DEF FreshRequests, Requests
  <2> HIDE DEF new
  <2>5. g \in Seq(FreshRequests)
    BY <2>1, <2>4, OneMore
  <2>6. Some(h, {"sources", "status"}) \/ new.what \in {"sources", "status"} => Some(g, {"sources", "status"})
    BY <2>1, SomeMore
  <2> HIDE DEF g
  <2> QED
    BY <1>0, <2>3, <2>4, <2>5, <2>6 DEF FreshOK, FreshType
<1>4. ASSUME NEW path \in {"market", "scan", "research"}, GoToPath(path)
      PROVE  FreshOK(ui')
  BY <1>0, <1>4, VisitKeeps DEF GoToPath, FreshOK
<1>5. CASE RefreshSurface
  <2> DEFINE new == [what |-> "sources", of |-> None, current |-> TRUE]
             g == Append(f, new)
  <2>1. ui' = [ui EXCEPT !.refreshing = TRUE, !.error = FALSE, !.failed = FALSE, !.flying = g]
    BY <1>5 DEF RefreshSurface
  <2>2. new \in FreshRequests /\ new.what = "sources"
    BY DEF FreshRequests, Requests
  <2> HIDE DEF new
  <2>3. g \in Seq(FreshRequests)
    BY <1>0, <2>2, OneMore
  <2>4. Some(f, {"sources", "status"}) \/ new.what \in {"sources", "status"} => Some(g, {"sources", "status"})
    BY <1>0, SomeMore
  <2> HIDE DEF g
  <2> QED
    BY <1>0, <2>1, <2>2, <2>3, <2>4 DEF FreshOK, FreshType
<1>6. CASE ToggleDetails
  <2> DEFINE details == ~ui.details
  <2>1. details \in BOOLEAN
    OBVIOUS
  <2>2. ui' = [ui EXCEPT !.details = details]
    BY <1>6 DEF ToggleDetails
  <2> HIDE DEF details
  <2> QED
    BY <1>0, <2>1, <2>2 DEF FreshOK, FreshType
<1> QED
  BY <1>1, <1>2, <1>3, <1>4, <1>5, <1>6 DEF FreshNext

LEMMA FreshTold == ASSUME FreshOK(ui) PROVE FreshRefreshTold /\ FreshNeverStuck
  BY DEF FreshOK, FreshRefreshTold, FreshNeverStuck, Mark, Diagnosis, Some

-----------------------------------------------------------------------------
(* The research pages: the dashboard and the history *)

ResearchWhats == {"history", "historyThenRun", "readiness", "readinessThenIdle", "generate"}

ResearchRequests == {r \in Requests(ResearchWhats, SUBSET Runs) : r.what = "historyThenRun" => r.of # {}}

DashboardViews ==
    [checking : BOOLEAN, ready : {None, "ready", "blocked"}, busy : BOOLEAN,
     error : {None, "invalid", "generation", "readiness"}, failed : BOOLEAN]

HistoryDetails == [selected : Runs \cup {None}, opened : BOOLEAN]

ResearchType ==
    [at : {None, "dashboard", "history"}, requested : Runs \cup {None}, stored : SUBSET Runs, authorized : BOOLEAN,
     list : SUBSET Runs, loading : BOOLEAN, historyError : BOOLEAN, view : DashboardViews, detail : HistoryDetails,
     flying : Seq(ResearchRequests)]

\* The requested run, once it is in the list, is the one that is selected.
RunShown(s) ==
    s.at = "history" /\ ~s.loading /\ ~s.historyError /\ s.requested \in s.list => s.detail.selected = s.requested

ViewTold(view) == view.failed => view.error # None

\* What is shown as under way has its request; only the lists are waited for by
\* the history.
ResearchWaits(at, loading, view, f) ==
    /\ loading => Some(f, {"history", "historyThenRun"})
    /\ at # "dashboard" => ~view.checking /\ ~view.busy /\ \A i \in DOMAIN f : f[i].current => f[i].what = "history"
    /\ view.checking => Waiting(f, "readiness") \/ Waiting(f, "readinessThenIdle")
    /\ view.busy => Waiting(f, "generate") \/ Waiting(f, "historyThenRun") \/ Waiting(f, "readinessThenIdle")

ResearchOK(s) ==
    /\ s \in ResearchType
    /\ RunShown(s)
    /\ ViewTold(s.view)
    /\ ResearchWaits(s.at, s.loading, s.view, s.flying)

LEMMA BlankViews == DashboardBlank \in DashboardViews /\ HistoryBlank \in HistoryDetails
  BY DEF DashboardBlank, DashboardViews, HistoryBlank, HistoryDetails

LEMMA UnmountedIs ==
    ASSUME NEW f \in Seq(ResearchRequests)
    PROVE  /\ Unmounted(f) \in Seq(ResearchRequests) /\ DOMAIN Unmounted(f) = DOMAIN f
           /\ \A i \in DOMAIN f : ~Unmounted(f)[i].current /\ Unmounted(f)[i].what = f[i].what
<1> DEFINE q(i) == [f[i] EXCEPT !.current = FALSE]
           g == [i \in 1 .. Len(f) |-> q(i)]
<1>1. Len(f) \in Nat /\ DOMAIN f = 1 .. Len(f)
  OBVIOUS
<1>2. \A i \in 1 .. Len(f) : q(i) \in ResearchRequests /\ ~q(i).current /\ q(i).what = f[i].what
  <2> TAKE i \in 1 .. Len(f)
  <2>1. f[i] \in ResearchRequests
    BY <1>1
  <2> QED
    BY <2>1 DEF ResearchRequests, Requests
<1>3. Unmounted(f) = g
  BY <1>1, Zenon DEF Unmounted
<1> HIDE DEF q
<1>4. g \in Seq(ResearchRequests) /\ DOMAIN g = 1 .. Len(f) /\ \A i \in 1 .. Len(f) : g[i] = q(i)
  BY <1>1, <1>2
<1> HIDE DEF g
<1> QED
  BY <1>1, <1>2, <1>3, <1>4

LEMMA RecordSelectedIs ==
    ASSUME NEW s \in ResearchType, NEW next \in RecordSelected(s)
    PROVE  /\ next \in ResearchType /\ RunShown(next)
           /\ next.at = s.at /\ next.requested = s.requested /\ next.stored = s.stored /\ next.list = s.list
           /\ next.loading = s.loading /\ next.historyError = s.historyError /\ next.view = s.view
           /\ next.flying = s.flying
<1>1. CASE s.at # "history" \/ s.loading \/ s.historyError
  BY <1>1 DEF RecordSelected, RunShown
<1>2. CASE ~(s.at # "history" \/ s.loading \/ s.historyError) /\ s.list = {}
  <2>1. next = [s EXCEPT !.detail = HistoryBlank]
    BY <1>2 DEF RecordSelected
  <2> QED
    BY <1>2, <2>1, BlankViews DEF ResearchType, RunShown
<1>3. CASE ~(s.at # "history" \/ s.loading \/ s.historyError) /\ s.list # {} /\ s.requested \in s.list
  <2>1. CASE s.detail.selected = s.requested
    BY <1>3, <2>1 DEF RecordSelected, RunShown
  <2>2. CASE s.detail.selected # s.requested
    <3> DEFINE detail == [selected |-> s.requested, opened |-> TRUE]
    <3>1. detail \in HistoryDetails /\ detail.selected = s.requested
      BY DEF ResearchType, HistoryDetails
    <3>2. next = [s EXCEPT !.detail = detail]
      BY <1>3, <2>2 DEF RecordSelected
    <3> HIDE DEF detail
    <3> QED
      BY <3>1, <3>2 DEF ResearchType, RunShown
  <2> QED
    BY <2>1, <2>2
<1>4. CASE ~(s.at # "history" \/ s.loading \/ s.historyError) /\ s.list # {} /\ s.requested \notin s.list
  <2>1. CASE s.detail.selected # None \/ s.list \subseteq ArchivedRuns
    BY <1>4, <2>1 DEF RecordSelected, RunShown
  <2>2. CASE ~(s.detail.selected # None \/ s.list \subseteq ArchivedRuns)
    <3>1. PICK run \in s.list : next = [s EXCEPT !.detail.selected = run]
      BY <1>4, <2>2 DEF RecordSelected
    <3> DEFINE detail == [s.detail EXCEPT !.selected = run]
    <3>2. detail \in HistoryDetails
      BY DEF ResearchType, HistoryDetails
    <3>3. next = [s EXCEPT !.detail = detail]
      BY <3>1 DEF ResearchType
    <3> HIDE DEF detail
    <3> QED
      BY <1>4, <3>2, <3>3 DEF ResearchType, RunShown
  <2> QED
    BY <2>1, <2>2
<1> QED
  BY <1>1, <1>2, <1>3, <1>4

\* A request of any kind but the checks joins; what was waited for is still.
LEMMA JoinedWaits ==
    ASSUME NEW f \in Seq(ResearchRequests), NEW r \in ResearchRequests, NEW at, NEW loading, NEW view,
           ResearchWaits(at, loading, view, f),
           at # "dashboard" => (r.current => r.what = "history")
    PROVE  /\ Append(f, r) \in Seq(ResearchRequests)
           /\ ResearchWaits(at, loading, view, Append(f, r))
           /\ r.what \in {"history", "historyThenRun"} => ResearchWaits(at, TRUE, view, Append(f, r))
<1> DEFINE g == Append(f, r)
<1>1. /\ g \in Seq(ResearchRequests)
      /\ \A other : Waiting(f, other) => Waiting(g, other)
  BY GateMore
<1>2. Some(f, {"history", "historyThenRun"}) \/ r.what \in {"history", "historyThenRun"} =>
          Some(g, {"history", "historyThenRun"})
  BY SomeMore
<1>3. at # "dashboard" => \A i \in DOMAIN g : g[i].current => g[i].what = "history"
  <2>1. \A i \in DOMAIN g : g[i] = r \/ (i \in DOMAIN f /\ g[i] = f[i])
    BY OneMore
  <2> QED
    BY <2>1 DEF ResearchWaits
<1> HIDE DEF g
<1>4. ResearchWaits(at, loading, view, g) /\ (r.what \in {"history", "historyThenRun"} => ResearchWaits(at, TRUE, view, g))
  BY <1>1, <1>2, <1>3 DEF ResearchWaits
<1> QED
  BY <1>1, <1>4 DEF g

LEMMA OpenedDashboardKeeps ==
    ASSUME NEW s \in ResearchType
    PROVE  ResearchOK(OpenedDashboard(s))
<1> DEFINE u == Unmounted(s.flying)
           readiness == [what |-> "readiness", of |-> {}, current |-> TRUE]
           history == [what |-> "history", of |-> s.stored, current |-> TRUE]
           f1 == Append(u, readiness)
           f2 == Append(f1, history)
           view == [DashboardBlank EXCEPT !.checking = TRUE]
           t == OpenedDashboard(s)
<1>1. s.flying \in Seq(ResearchRequests)
  BY DEF ResearchType
<1>2. u \in Seq(ResearchRequests)
  BY <1>1, UnmountedIs
<1>3. readiness \in ResearchRequests /\ history \in ResearchRequests
      /\ readiness.what = "readiness" /\ readiness.current /\ history.what = "history" /\ history.current
  BY DEF ResearchRequests, Requests, ResearchWhats, ResearchType
<1>4. view \in DashboardViews /\ ~view.busy /\ ~view.failed
  BY BlankViews DEF DashboardBlank, DashboardViews
<1>5. t = [s EXCEPT !.at = "dashboard", !.requested = None, !.view = view, !.detail = HistoryBlank, !.flying = f2,
                    !.loading = TRUE, !.historyError = FALSE]
  BY <1>1 DEF OpenedDashboard, FetchHistory, LoadHistoricalReadiness, Request, ResearchType
<1> HIDE DEF u, readiness, history, view, t
<1>6. f1 \in Seq(ResearchRequests) /\ Waiting(f1, "readiness")
  BY <1>2, <1>3, GateMore
<1> HIDE DEF f1
<1>7. f2 \in Seq(ResearchRequests) /\ Waiting(f2, "readiness")
  BY <1>3, <1>6, GateMore
<1>8. history.what \in {"history", "historyThenRun"} => Some(f2, {"history", "historyThenRun"})
  BY <1>6, SomeMore
<1> HIDE DEF f2
<1>9. /\ t \in ResearchType /\ t.at = "dashboard" /\ t.loading = TRUE /\ t.view = view /\ t.flying = f2
  BY <1>4, <1>5, <1>7, BlankViews DEF ResearchType
<1> QED
  BY <1>3, <1>4, <1>7, <1>8, <1>9 DEF ResearchOK, RunShown, ViewTold, ResearchWaits, t

LEMMA OpenedHistoryKeeps ==
    ASSUME NEW s \in ResearchType, NEW requested \in Runs \cup {None}, NEW t \in OpenedHistory(s, requested),
           NEW f, f = t.flying \/ \E i \in DOMAIN s.flying : f = Answered(t.flying, i)
    PROVE  ResearchOK([t EXCEPT !.flying = f])
<1> DEFINE u == Unmounted(s.flying)
           new == [what |-> "history", of |-> s.stored, current |-> TRUE]
           b == [s EXCEPT !.at = "history", !.requested = requested, !.view = DashboardBlank,
                          !.detail = HistoryBlank, !.flying = u]
           g == Append(u, new)
<1>1. s.flying \in Seq(ResearchRequests)
  BY DEF ResearchType
<1>2. u \in Seq(ResearchRequests) /\ DOMAIN u = DOMAIN s.flying /\ \A i \in DOMAIN u : ~u[i].current
  BY <1>1, UnmountedIs
<1>3. new \in ResearchRequests /\ new.what = "history"
  BY DEF ResearchRequests, Requests, ResearchWhats, ResearchType
<1>4. PICK next \in RecordSelected(b) : t = FetchHistory(next, "history", s.stored)
  BY DEF OpenedHistory
<1> HIDE DEF u
<1>5. b \in ResearchType /\ b.flying = u /\ b.view = DashboardBlank /\ b.at = "history"
  BY <1>2, BlankViews DEF ResearchType
<1> HIDE DEF b
<1>6. next \in ResearchType /\ next.flying = u /\ next.view = DashboardBlank /\ next.at = "history"
  BY <1>5, RecordSelectedIs
<1>7. t = [next EXCEPT !.loading = TRUE, !.historyError = FALSE, !.flying = g]
  BY <1>4, <1>6 DEF FetchHistory, Request, ResearchType
<1> HIDE DEF new
<1>8. /\ f \in Seq(ResearchRequests) /\ Some(f, {"history", "historyThenRun"})
      /\ \A j \in DOMAIN f : f[j].current => f[j].what = "history"
  <2>1. ASSUME NEW e \in Seq(ResearchRequests), \A i \in DOMAIN e : ~e[i].current
        PROVE  /\ Append(e, new) \in Seq(ResearchRequests) /\ Some(Append(e, new), {"history", "historyThenRun"})
               /\ \A j \in DOMAIN Append(e, new) : Append(e, new)[j].current => Append(e, new)[j].what = "history"
    <3> DEFINE a == Append(e, new)
    <3>1. /\ a \in Seq(ResearchRequests) /\ a[Len(e) + 1] = new /\ Len(e) + 1 \in DOMAIN a
          /\ \A j \in DOMAIN a : j = Len(e) + 1 \/ (j \in DOMAIN e /\ a[j] = e[j])
      BY <1>3, OneMore
    <3> HIDE DEF a
    <3>2. Some(a, {"history", "historyThenRun"})
      BY <1>3, <3>1 DEF Some
    <3>3. \A j \in DOMAIN a : a[j].current => a[j].what = "history"
      BY <1>3, <2>1, <3>1
    <3> QED
      BY <3>1, <3>2, <3>3 DEF a
  <2>2. t.flying = g
    BY <1>6, <1>7 DEF ResearchType
  <2>3. CASE f = t.flying
    BY <1>2, <2>1, <2>2, <2>3
  <2>4. CASE \E i \in DOMAIN s.flying : f = Answered(t.flying, i)
    <3>1. PICK i \in DOMAIN s.flying : f = Answered(t.flying, i)
      BY <2>4
    <3>2. i \in DOMAIN u
      BY <1>2
    <3> DEFINE e == Answered(u, i)
    <3>3. f = Append(e, new)
      BY <1>2, <1>3, <2>2, <3>1, <3>2, AnsweredMore
    <3>4. e \in Seq(ResearchRequests)
      BY <1>2, <3>2, AnsweredIn
    <3>5. \A j \in DOMAIN e : \E k \in DOMAIN u \ {i} : e[j] = u[k]
      BY <1>2, <3>2, OthersStay
    <3> HIDE DEF e
    <3>6. \A j \in DOMAIN e : ~e[j].current
      BY <1>2, <3>5
    <3> QED
      BY <2>1, <3>3, <3>4, <3>6
  <2> QED
    BY <2>3, <2>4
<1> DEFINE o == [t EXCEPT !.flying = f]
<1>9. /\ o \in ResearchType /\ o.flying = f /\ o.view = DashboardBlank /\ o.at = "history" /\ o.loading = TRUE
  BY <1>6, <1>7, <1>8 DEF ResearchType
<1>10. ~DashboardBlank.checking /\ ~DashboardBlank.busy /\ ~DashboardBlank.failed
  BY DEF DashboardBlank
<1> HIDE DEF o
<1>11. ResearchOK(o)
  BY <1>8, <1>9, <1>10 DEF ResearchOK, RunShown, ViewTold, ResearchWaits
<1> QED
  BY <1>11 DEF o

LEMMA ResearchStarts == ResearchInit => ResearchOK(ui)
<1> SUFFICES ASSUME ResearchInit PROVE ResearchOK(ui)
  OBVIOUS
<1>1. PICK stored \in {{}, ArchivedRuns}, authorized \in BOOLEAN :
        ui = OpenedDashboard([at |-> None, requested |-> None, stored |-> stored, authorized |-> authorized,
                              list |-> {}, loading |-> FALSE, historyError |-> FALSE,
                              view |-> DashboardBlank, detail |-> HistoryBlank, flying |-> <<>>])
  BY DEF ResearchInit
<1> DEFINE f == <<>>
           s == [at |-> None, requested |-> None, stored |-> stored, authorized |-> authorized,
                 list |-> {}, loading |-> FALSE, historyError |-> FALSE,
                 view |-> DashboardBlank, detail |-> HistoryBlank, flying |-> f]
<1>2. f \in Seq(ResearchRequests)
  OBVIOUS
<1>3. ui = OpenedDashboard(s)
  BY <1>1
<1>4. stored \in SUBSET Runs
  BY DEF Runs
<1> HIDE DEF f
<1>5. s \in ResearchType
  BY <1>2, <1>4, BlankViews DEF ResearchType
<1> HIDE DEF s
<1> QED
  BY <1>3, <1>5, OpenedDashboardKeeps

LEMMA ResearchSteps ==
    ASSUME ResearchOK(ui), ResearchNext
    PROVE  ResearchOK(ui')
<1> DEFINE f == ui.flying
           h(i) == Answered(f, i)
<1>0. /\ ui \in ResearchType /\ f \in Seq(ResearchRequests) /\ ui.view \in DashboardViews
      /\ ViewTold(ui.view) /\ ResearchWaits(ui.at, ui.loading, ui.view, f) /\ RunShown(ui)
  BY DEF ResearchOK, ResearchType
<1>h. ASSUME NEW i \in DOMAIN f
      PROVE  /\ h(i) \in Seq(ResearchRequests) /\ f[i] \in ResearchRequests
             /\ \A other : Waiting(f, other) /\ (~f[i].current \/ f[i].what # other) => Waiting(h(i), other)
             /\ Some(f, {"history", "historyThenRun"}) /\ f[i].what \notin {"history", "historyThenRun"} =>
                    Some(h(i), {"history", "historyThenRun"})
             /\ ui.at # "dashboard" => ~ui.view.checking /\ ~ui.view.busy
                                       /\ \A j \in DOMAIN h(i) : h(i)[j].current => h(i)[j].what = "history"
  <2>1. /\ h(i) \in Seq(ResearchRequests)
        /\ \A other : Waiting(f, other) /\ (~f[i].current \/ f[i].what # other) => Waiting(h(i), other)
    BY <1>0, GateAnswered
  <2>2. Some(f, {"history", "historyThenRun"}) /\ f[i].what \notin {"history", "historyThenRun"} =>
            Some(h(i), {"history", "historyThenRun"})
    BY <1>0, SomeAnswered
  <2>3. \A j \in DOMAIN h(i) : \E k \in DOMAIN f \ {i} : h(i)[j] = f[k]
    BY <1>0, OthersStay
  <2>4. f[i] \in ResearchRequests
    BY <1>0
  <2> HIDE DEF h
  <2> QED
    BY <1>0, <2>1, <2>2, <2>3, <2>4 DEF ResearchWaits
\* The page of an answer that it does not hear.
<1>u. ASSUME NEW i \in DOMAIN f, ~f[i].current, f[i].what \notin {"history", "historyThenRun"},
             ui' = [ui EXCEPT !.flying = h(i)]
      PROVE  ResearchOK(ui')
  <2>1. h(i) \in Seq(ResearchRequests) /\ ResearchWaits(ui.at, ui.loading, ui.view, h(i))
    BY <1>0, <1>h, <1>u DEF ResearchWaits
  <2> HIDE DEF h
  <2> QED
    BY <1>0, <1>u, <2>1 DEF ResearchOK, ResearchType, RunShown
<1>1. ASSUME NEW i \in DOMAIN ui.flying, NEW run \in EvidenceRuns, Generated(i, run)
      PROVE  ResearchOK(ui')
  <2> DEFINE stored == ui.stored \cup {run}
             new == [what |-> "historyThenRun", of |-> {run}, current |-> f[i].current]
             g == Append(h(i), new)
             b == [ui EXCEPT !.stored = stored, !.loading = TRUE, !.historyError = FALSE]
  <2>1. stored \in SUBSET Runs /\ run \in Runs
    BY <1>0 DEF ResearchType, Runs
  <2>2. f[i].what = "generate" /\ f[i] \in ResearchRequests /\ f[i].current \in BOOLEAN
    BY <1>1, <1>h DEF Generated, ResearchRequests, Requests
  <2>3. new \in ResearchRequests /\ new.what = "historyThenRun" /\ new.current = f[i].current
    BY <2>1, <2>2 DEF ResearchRequests, Requests, ResearchWhats
  <2>4. ui' = [b EXCEPT !.flying = g]
    <3> DEFINE first == [what |-> "historyThenRun", of |-> {run}, current |-> TRUE]
               s == FetchHistory([ui EXCEPT !.stored = stored], "historyThenRun", {run})
               e == Append(f, first)
               n == Len(e)
    <3>1. first \in ResearchRequests
      BY <2>1 DEF ResearchRequests, Requests, ResearchWhats
    <3>2. s = [b EXCEPT !.flying = e]
      BY <1>0 DEF FetchHistory, Request, ResearchType
    <3>3. s.flying = e
      BY <1>0, <3>2 DEF ResearchType
    <3>4. Len(f) \in Nat /\ n = Len(f) + 1 /\ e[n] = first
      BY <1>0, <3>1
    <3>5. [first EXCEPT !.current = f[i].current] = new
      OBVIOUS
    <3>6. [e EXCEPT ![n].current = f[i].current] = Append(f, new)
      <4> DEFINE d == [e EXCEPT ![n].current = f[i].current]
                 a == Append(f, new)
      <4> HIDE DEF first, new
      <4>1. e \in Seq(ResearchRequests) /\ DOMAIN e = 1 .. n /\ \A j \in 1 .. Len(f) : e[j] = f[j]
        BY <1>0, <3>1, <3>4
      <4>2. a \in Seq(ResearchRequests) /\ Len(a) = n /\ a[n] = new /\ \A j \in 1 .. Len(f) : a[j] = f[j]
        BY <1>0, <2>3, <3>4
      <4> HIDE DEF e, n
      <4>3. d = [j \in 1 .. n |-> IF j = n THEN new ELSE e[j]]
        BY <3>4, <3>5, <4>1
      <4> HIDE DEF a, d
      <4>4. DOMAIN a = 1 .. n
        BY <3>4, <4>2
      <4>5. \A j \in 1 .. n : a[j] = IF j = n THEN new ELSE e[j]
        BY <3>4, <4>1, <4>2
      <4>6. a = [j \in DOMAIN a |-> a[j]]
        BY <4>2
      <4>7. a = [j \in 1 .. n |-> IF j = n THEN new ELSE e[j]]
        BY <4>4, <4>5, <4>6
      <4> QED
        BY <4>3, <4>7 DEF a, d
    <3>7. ui' = [[s EXCEPT !.flying[Len(s.flying)].current = f[i].current] EXCEPT
                    !.flying = Answered([s EXCEPT !.flying[Len(s.flying)].current = f[i].current].flying, i)]
      BY <1>1 DEF Generated, Taken
    <3>8. [s EXCEPT !.flying[Len(s.flying)].current = f[i].current] = [b EXCEPT !.flying = Append(f, new)]
      BY <1>0, <3>2, <3>3, <3>6 DEF ResearchType
    <3>9. ui' = [b EXCEPT !.flying = Answered(Append(f, new), i)]
      BY <1>0, <3>7, <3>8 DEF ResearchType
    <3>10. Answered(Append(f, new), i) = g
      <4>1. f \in Seq(ResearchRequests) /\ i \in DOMAIN f /\ new \in ResearchRequests
        BY <1>0, <2>3
      <4> HIDE DEF new, f
      <4> QED
        BY <4>1, AnsweredMore
    <3> QED
      BY <3>9, <3>10
  <2> HIDE DEF stored, new
  <2>5. ~ui.view.busy \/ Waiting(h(i), "historyThenRun") \/ Waiting(h(i), "readinessThenIdle")
        \/ Waiting(h(i), "generate") \/ f[i].current
    BY <1>0, <1>h, <2>2 DEF ResearchWaits
  <2>6. /\ g \in Seq(ResearchRequests)
        /\ \A other : Waiting(h(i), other) \/ (new.what = other /\ new.current) => Waiting(g, other)
    BY <1>h, <2>3, GateMore
  <2>7. Some(g, {"history", "historyThenRun"})
    <3>1. new.what \in {"history", "historyThenRun"} => Some(g, {"history", "historyThenRun"})
      BY <1>h, SomeMore
    <3> QED
      BY <2>3, <3>1
  <2>8. ui.at # "dashboard" => \A j \in DOMAIN g : g[j].current => g[j].what = "history"
    <3>1. \A j \in DOMAIN g : g[j] = new \/ (j \in DOMAIN h(i) /\ g[j] = h(i)[j])
      BY <1>h, OneMore
    <3>2. ui.at # "dashboard" => ~f[i].current
      BY <1>0, <2>2 DEF ResearchWaits
    <3> QED
      BY <1>h, <2>3, <3>1, <3>2
  <2>9. ui.view.checking => Waiting(h(i), "readiness") \/ Waiting(h(i), "readinessThenIdle")
    BY <1>0, <1>h, <2>2 DEF ResearchWaits
  <2> HIDE DEF g
  <2>10. ResearchWaits(ui.at, TRUE, ui.view, g)
    BY <1>0, <2>3, <2>5, <2>6, <2>7, <2>8, <2>9 DEF ResearchWaits
  <2>11. ui' \in ResearchType /\ ui'.at = ui.at /\ ui'.loading = TRUE /\ ui'.view = ui.view /\ ui'.flying = g
    BY <1>0, <2>1, <2>4, <2>6 DEF ResearchType
  <2> QED
    BY <1>0, <2>10, <2>11 DEF ResearchOK, RunShown
<1>2. ASSUME NEW i \in DOMAIN ui.flying, NotGenerated(i)
      PROVE  ResearchOK(ui')
  <2>1. f[i].what = "generate"
    BY <1>2 DEF NotGenerated
  <2>2. CASE ~f[i].current
    <3>1. ui' = [ui EXCEPT !.flying = h(i)]
      BY <1>2, <2>2 DEF NotGenerated, Heard, Taken
    <3> QED
      BY <1>u, <2>1, <2>2, <3>1
  <2>3. CASE f[i].current
    <3> DEFINE new == [what |-> "readinessThenIdle", of |-> {}, current |-> TRUE]
               view == [ui.view EXCEPT !.error = "generation", !.failed = TRUE, !.checking = TRUE]
               g == Append(h(i), new)
    <3>1. new \in ResearchRequests /\ new.what = "readinessThenIdle" /\ new.current
      BY DEF ResearchRequests, Requests, ResearchWhats
    <3>2. view \in DashboardViews /\ view.error # None /\ view.busy = ui.view.busy
      BY <1>0 DEF DashboardViews, None
    <3>3. ui' = [ui EXCEPT !.view = view, !.flying = g]
      <4> DEFINE s == LoadHistoricalReadiness([ui EXCEPT !.view.error = "generation", !.view.failed = TRUE],
                                              "readinessThenIdle")
      <4>1. s = [ui EXCEPT !.view = view, !.flying = Append(f, new)]
        BY <1>0 DEF LoadHistoricalReadiness, Request, ResearchType, DashboardViews
      <4> HIDE DEF view, new
      <4>2. s.flying = Append(f, new)
        BY <1>0, <4>1 DEF ResearchType
      <4> HIDE DEF s
      <4>3. ui' = [s EXCEPT !.flying = Answered(s.flying, i)]
        BY <1>2, <2>3 DEF NotGenerated, Heard, Taken, s
      <4>4. Answered(Append(f, new), i) = g
        BY <1>0, <3>1, AnsweredMore
      <4> QED
        BY <1>0, <4>1, <4>2, <4>3, <4>4 DEF ResearchType
    <3> HIDE DEF new, view
    <3>4. /\ g \in Seq(ResearchRequests) /\ Waiting(g, "readinessThenIdle")
      BY <1>h, <3>1, GateMore
    <3>5. Some(h(i), {"history", "historyThenRun"}) => Some(g, {"history", "historyThenRun"})
      BY <1>h, SomeMore
    <3>6. ui.at = "dashboard"
      BY <1>0, <2>1, <2>3 DEF ResearchWaits
    <3>7. ui.loading => Some(g, {"history", "historyThenRun"})
      BY <1>0, <1>h, <2>1, <3>5 DEF ResearchWaits
    <3> HIDE DEF g
    <3>8. ui' \in ResearchType /\ ui'.at = ui.at /\ ui'.loading = ui.loading /\ ui'.view = view /\ ui'.flying = g
      BY <1>0, <3>2, <3>3, <3>4 DEF ResearchType
    <3> QED
      BY <3>2, <3>4, <3>6, <3>7, <3>8 DEF ResearchOK, RunShown, ViewTold, ResearchWaits
  <2> QED
    BY <2>2, <2>3
<1>3. ASSUME NEW i \in DOMAIN ui.flying, NEW ready \in {"ready", "blocked", None}, ReadinessAnswer(i, ready)
      PROVE  ResearchOK(ui')
  <2>1. f[i].what \in {"readiness", "readinessThenIdle"}
    BY <1>3 DEF ReadinessAnswer
  <2>2. CASE ~f[i].current
    <3>1. ui' = [ui EXCEPT !.flying = h(i)]
      BY <1>3, <2>2 DEF ReadinessAnswer, Heard, Taken
    <3> QED
      BY <1>u, <2>1, <2>2, <3>1
  <2>3. CASE f[i].current
    <3> DEFINE error == IF ready = None THEN "readiness" ELSE ui.view.error
               busy == ui.view.busy /\ f[i].what = "readiness"
               view == [ui.view EXCEPT !.checking = FALSE, !.ready = ready, !.error = error, !.busy = busy]
    <3>1. (ui.view.busy /\ f[i].what = "readiness") \in BOOLEAN
      BY <1>0 DEF DashboardViews
    <3>2. /\ view \in DashboardViews /\ ViewTold(view) /\ ~view.checking
          /\ view.busy => ui.view.busy /\ f[i].what = "readiness"
      BY <1>0, <3>1 DEF DashboardViews, ViewTold, None
    <3>3. ui' = [ui EXCEPT !.view = view, !.flying = h(i)]
      <4> DEFINE s == [ui EXCEPT !.view.checking = FALSE, !.view.ready = ready,
                                 !.view.error = IF ready = None THEN "readiness" ELSE @,
                                 !.view.busy = @ /\ ui.flying[i].what = "readiness"]
      <4>1. s = [ui EXCEPT !.view = view]
        BY <1>0 DEF ResearchType, DashboardViews
      <4>2. Heard(i, s)
        BY <1>3 DEF ReadinessAnswer
      <4> HIDE DEF s, view
      <4>3. s.flying = f
        BY <1>0, <4>1 DEF ResearchType
      <4>4. ui' = [s EXCEPT !.flying = h(i)]
        BY <2>3, <4>2, <4>3 DEF Heard
      <4> QED
        BY <1>0, <4>1, <4>4 DEF ResearchType
    <3> HIDE DEF view
    <3>4. ui.at = "dashboard"
      BY <1>0, <2>1, <2>3 DEF ResearchWaits
    <3>5. ui.loading => Some(h(i), {"history", "historyThenRun"})
      BY <1>0, <1>h, <2>1 DEF ResearchWaits
    <3>6. view.busy => Waiting(h(i), "generate") \/ Waiting(h(i), "historyThenRun") \/ Waiting(h(i), "readinessThenIdle")
      BY <1>0, <1>h, <3>2 DEF ResearchWaits
    <3>7. h(i) \in Seq(ResearchRequests)
      BY <1>h
    <3> HIDE DEF h
    <3>8. ui' \in ResearchType /\ ui'.at = ui.at /\ ui'.loading = ui.loading /\ ui'.view = view /\ ui'.flying = h(i)
      BY <1>0, <3>2, <3>3, <3>7 DEF ResearchType
    <3>9. ui'.list = ui.list /\ ui'.requested = ui.requested /\ ui'.detail = ui.detail /\ ui'.historyError = ui.historyError
      BY <1>0, <3>2, <3>3 DEF ResearchType
    <3> QED
      BY <1>0, <3>2, <3>4, <3>5, <3>6, <3>8, <3>9 DEF ResearchOK, RunShown, ResearchWaits
  <2> QED
    BY <2>2, <2>3
\* The list arrived, or did not: the same for both of its requests.
<1>l. ASSUME NEW i \in DOMAIN f, NEW b \in ResearchType, NEW next \in RecordSelected(b), Taken(i, next),
             b.flying = f, b.at = ui.at, b.view = ui.view, b.loading = FALSE,
             f[i].what = "history" \/ ui.at = "history"
      PROVE  ResearchOK(ui')
  <2>1. /\ next \in ResearchType /\ RunShown(next) /\ next.at = ui.at /\ next.view = ui.view /\ next.flying = f
        /\ next.loading = FALSE
    <3> HIDE DEF f
    <3> QED
      BY <1>l, RecordSelectedIs
  <2>2. ui' = [next EXCEPT !.flying = h(i)]
    BY <1>l, <2>1 DEF Taken
  <2>3. h(i) \in Seq(ResearchRequests) /\ ResearchWaits(ui.at, FALSE, ui.view, h(i))
    BY <1>0, <1>h, <1>l DEF ResearchWaits
  <2> HIDE DEF h, f
  <2>4. /\ ui' \in ResearchType /\ ui'.at = ui.at /\ ui'.view = ui.view /\ ui'.flying = h(i) /\ ui'.loading = FALSE
        /\ RunShown(ui')
    BY <2>1, <2>2, <2>3 DEF ResearchType, RunShown
  <2> QED
    BY <1>0, <2>3, <2>4 DEF ResearchOK
<1>b. ASSUME NEW b, \/ \E list \in SUBSET Runs : b = WithHistory(ui, list)
                    \/ b = WithoutHistory(ui)
      PROVE  b \in ResearchType /\ b.flying = f /\ b.at = ui.at /\ b.view = ui.view /\ b.loading = FALSE
  BY <1>0, <1>b DEF WithHistory, WithoutHistory, ResearchType
<1>4. ASSUME NEW i \in DOMAIN ui.flying, NEW ok \in BOOLEAN, HistoryAnswer(i, ok)
      PROVE  ResearchOK(ui')
  <2>1. f[i].what = "history"
    BY <1>4 DEF HistoryAnswer
  <2>2. PICK list \in {ui.stored, f[i].of} :
            \E next \in RecordSelected(IF ok THEN WithHistory(ui, list) ELSE WithoutHistory(ui)) : Taken(i, next)
    BY <1>4 DEF HistoryAnswer
  <2>3. list \in SUBSET Runs
    BY <1>0, <1>h, <2>2 DEF ResearchType, ResearchRequests, Requests
  <2> DEFINE b == IF ok THEN WithHistory(ui, list) ELSE WithoutHistory(ui)
  <2>4. PICK next \in RecordSelected(b) : Taken(i, next)
    BY <2>2
  <2>5. (\E l \in SUBSET Runs : b = WithHistory(ui, l)) \/ b = WithoutHistory(ui)
    BY <2>3
  <2> HIDE DEF b
  <2>6. b \in ResearchType /\ b.flying = f /\ b.at = ui.at /\ b.view = ui.view /\ b.loading = FALSE
    BY <1>b, <2>5
  <2> QED
    BY <1>l, <2>1, <2>4, <2>6
<1>5. ASSUME NEW i \in DOMAIN ui.flying, NEW ok \in BOOLEAN, HistoryThenRun(i, ok)
      PROVE  ResearchOK(ui')
  <2> DEFINE s == IF ok THEN WithHistory(ui, ui.stored) ELSE WithoutHistory(ui)
             run == CHOOSE run \in f[i].of : TRUE
             b == [s EXCEPT !.requested = run]
  <2>1. f[i].what = "historyThenRun"
    BY <1>5 DEF HistoryThenRun
  <2>2. run \in Runs
    BY <1>h, <2>1 DEF ResearchRequests, Requests
  <2>3. \E next \in IF s.at = "history" THEN RecordSelected(b) ELSE OpenedHistory(s, run) : Taken(i, next)
    BY <1>5 DEF HistoryThenRun
  <2>4. ui.stored \in SUBSET Runs
    BY <1>0 DEF ResearchType
  <2>5. (\E l \in SUBSET Runs : s = WithHistory(ui, l)) \/ s = WithoutHistory(ui)
    BY <2>4
  <2> HIDE DEF s, run
  <2>6. s \in ResearchType /\ s.flying = f /\ s.at = ui.at /\ s.view = ui.view /\ s.loading = FALSE
    BY <1>b, <2>5
  <2>7. CASE s.at = "history"
    <3>1. PICK next \in RecordSelected(b) : Taken(i, next)
      BY <2>3, <2>7
    <3>2. b \in ResearchType /\ b.flying = f /\ b.at = ui.at /\ b.view = ui.view /\ b.loading = FALSE
      BY <2>2, <2>6 DEF ResearchType
    <3> HIDE DEF b
    <3> QED
      BY <1>l, <2>6, <2>7, <3>1, <3>2
  <2>8. CASE s.at # "history"
    <3>1. PICK next \in OpenedHistory(s, run) : Taken(i, next)
      BY <2>3, <2>8
    <3>2. ui' = [next EXCEPT !.flying = Answered(next.flying, i)]
      BY <3>1 DEF Taken
    <3>3. \E j \in DOMAIN s.flying : Answered(next.flying, i) = Answered(next.flying, j)
      BY <2>6
    <3>4. run \in Runs \cup {None}
      BY <2>2
    <3> DEFINE e == Answered(next.flying, i)
    <3> HIDE DEF e
    <3>5. \E j \in DOMAIN s.flying : e = Answered(next.flying, j)
      BY <3>3 DEF e
    <3>6. ResearchOK([next EXCEPT !.flying = e])
      BY <2>6, <3>1, <3>4, <3>5, OpenedHistoryKeeps
    <3> QED
      BY <3>2, <3>6 DEF e
  <2> QED
    BY <2>7, <2>8
<1>6. ASSUME NEW requested \in EvidenceRuns \cup {None}, GoToHistory(requested)
      PROVE  ResearchOK(ui')
  <2>1. ui' \in OpenedHistory(ui, requested) /\ requested \in Runs \cup {None}
    BY <1>6 DEF GoToHistory, Runs
  <2> DEFINE e == ui'.flying
             t == ui'
  <2>2. t = [t EXCEPT !.flying = e]
    <3>1. PICK next \in RecordSelected([ui EXCEPT !.at = "history", !.requested = requested, !.view = DashboardBlank,
                                                  !.detail = HistoryBlank, !.flying = Unmounted(@)]) :
              t = FetchHistory(next, "history", ui.stored)
      BY <2>1 DEF OpenedHistory
    <3> DEFINE a == [next EXCEPT !.loading = TRUE, !.historyError = FALSE]
    <3>2. t = [a EXCEPT !.flying = Append(a.flying, [what |-> "history", of |-> ui.stored, current |-> TRUE])]
      BY <3>1 DEF FetchHistory, Request
    <3> HIDE DEF a
    <3> QED
      BY <3>2
  <2>3. ResearchOK([t EXCEPT !.flying = e])
    <3> HIDE DEF f
    <3>1. t \in OpenedHistory(ui, requested) /\ e = t.flying
      BY <2>1
    <3> HIDE DEF t, e
    <3> QED
      BY <1>0, <2>1, <3>1, OpenedHistoryKeeps
  <2> QED
    BY <2>2, <2>3
<1>7. ASSUME NEW run \in Runs, PickRecord(run)
      PROVE  ResearchOK(ui')
  <2> DEFINE detail == [selected |-> run, opened |-> TRUE]
             b == [ui EXCEPT !.detail = detail]
  <2>1. detail \in HistoryDetails
    BY DEF HistoryDetails
  <2>2. ui' \in RecordSelected(b)
    BY <1>7 DEF PickRecord
  <2> HIDE DEF detail
  <2>3. b \in ResearchType /\ b.flying = f /\ b.at = ui.at /\ b.view = ui.view /\ b.loading = ui.loading
    BY <1>0, <2>1 DEF ResearchType
  <2> HIDE DEF b
  <2>4. /\ ui' \in ResearchType /\ RunShown(ui') /\ ui'.at = ui.at /\ ui'.view = ui.view /\ ui'.flying = f
        /\ ui'.loading = ui.loading
    BY <2>2, <2>3, RecordSelectedIs
  <2> QED
    BY <1>0, <2>4 DEF ResearchOK
<1>8. ASSUME NEW run \in AgentRuns, StoredElsewhere(run)
      PROVE  ResearchOK(ui')
  <2>1. /\ ui' \in ResearchType /\ RunShown(ui') /\ ui'.at = ui.at /\ ui'.view = ui.view /\ ui'.flying = f
        /\ ui'.loading = ui.loading
    <3> DEFINE stored == ui.stored \cup {run}
    <3>1. stored \in SUBSET Runs
      BY <1>0 DEF ResearchType, Runs
    <3>2. ui' = [ui EXCEPT !.stored = stored]
      BY <1>8 DEF StoredElsewhere
    <3> HIDE DEF stored
    <3> QED
      BY <1>0, <3>1, <3>2 DEF ResearchType, RunShown
  <2> QED
    BY <1>0, <2>1 DEF ResearchOK
<1>9. ASSUME GoToDashboard
      PROVE  ResearchOK(ui')
  BY <1>0, <1>9, OpenedDashboardKeeps DEF GoToDashboard
<1>10. ASSUME CloseRecord
       PROVE  ResearchOK(ui')
  <2> DEFINE detail == [ui.detail EXCEPT !.opened = FALSE]
  <2>1. detail \in HistoryDetails /\ detail.selected = ui.detail.selected
    BY <1>0 DEF ResearchType, HistoryDetails
  <2>2. ui' = [ui EXCEPT !.detail = detail]
    BY <1>10 DEF CloseRecord
  <2> HIDE DEF detail
  <2>3. /\ ui' \in ResearchType /\ RunShown(ui') /\ ui'.at = ui.at /\ ui'.view = ui.view /\ ui'.flying = f
        /\ ui'.loading = ui.loading
    BY <1>0, <2>1, <2>2 DEF ResearchType, RunShown
  <2> QED
    BY <1>0, <2>3 DEF ResearchOK
<1>11. ASSUME RefreshHistory
       PROVE  ResearchOK(ui')
  <2> DEFINE new == [what |-> "history", of |-> ui.stored, current |-> TRUE]
             g == Append(f, new)
  <2>1. new \in ResearchRequests /\ new.what = "history"
    BY <1>0 DEF ResearchRequests, Requests, ResearchWhats, ResearchType
  <2>2. ui' = [ui EXCEPT !.loading = TRUE, !.historyError = FALSE, !.flying = g]
    BY <1>0, <1>11 DEF RefreshHistory, FetchHistory, Request, ResearchType
  <2> HIDE DEF new
  <2>3. g \in Seq(ResearchRequests) /\ ResearchWaits(ui.at, TRUE, ui.view, g)
    BY <1>0, <2>1, JoinedWaits
  <2> HIDE DEF g
  <2>4. /\ ui' \in ResearchType /\ ui'.at = ui.at /\ ui'.view = ui.view /\ ui'.flying = g /\ ui'.loading = TRUE
    BY <1>0, <2>2, <2>3 DEF ResearchType
  <2> QED
    BY <1>0, <2>3, <2>4 DEF ResearchOK, RunShown
<1>12. ASSUME StartInvalid
       PROVE  ResearchOK(ui')
  <2> DEFINE view == [ui.view EXCEPT !.error = "invalid"]
  <2>1. view \in DashboardViews /\ ViewTold(view) /\ view.checking = ui.view.checking /\ view.busy = ui.view.busy
    BY <1>0 DEF DashboardViews, ViewTold, None
  <2>2. ui' = [ui EXCEPT !.view = view]
    BY <1>12 DEF StartInvalid
  <2> HIDE DEF view
  <2>3. /\ ui' \in ResearchType /\ RunShown(ui') /\ ui'.at = ui.at /\ ui'.view = view /\ ui'.flying = f
        /\ ui'.loading = ui.loading
    BY <1>0, <2>1, <2>2 DEF ResearchType, RunShown
  <2> QED
    BY <1>0, <2>1, <2>3 DEF ResearchOK, ResearchWaits
<1>13. ASSUME EvidenceOnlyStart
       PROVE  ResearchOK(ui')
  <2> DEFINE new == [what |-> "generate", of |-> {}, current |-> TRUE]
             view == [ui.view EXCEPT !.busy = TRUE, !.error = None, !.failed = FALSE]
             g == Append(f, new)
  <2>1. new \in ResearchRequests /\ new.what = "generate" /\ new.current
    BY DEF ResearchRequests, Requests, ResearchWhats
  <2>2. view \in DashboardViews /\ ViewTold(view) /\ view.checking = ui.view.checking
    BY <1>0 DEF DashboardViews, ViewTold
  <2>3. ui' = [ui EXCEPT !.view = view, !.flying = g]
    BY <1>0, <1>13 DEF EvidenceOnlyStart, Request, ResearchType
  <2>4. ui.at = "dashboard"
    BY <1>13 DEF EvidenceOnlyStart
  <2> HIDE DEF new, view
  <2>5. g \in Seq(ResearchRequests) /\ ResearchWaits(ui.at, ui.loading, ui.view, g)
    BY <1>0, <2>1, <2>4, JoinedWaits
  <2>6. Waiting(g, "generate")
    BY <1>0, <2>1, GateMore
  <2> HIDE DEF g
  <2>7. /\ ui' \in ResearchType /\ RunShown(ui') /\ ui'.at = ui.at /\ ui'.view = view /\ ui'.flying = g
        /\ ui'.loading = ui.loading
    BY <1>0, <2>2, <2>3, <2>5 DEF ResearchType, RunShown
  <2> QED
    BY <2>2, <2>4, <2>5, <2>6, <2>7 DEF ResearchOK, ResearchWaits
<1> QED
  BY <1>1, <1>2, <1>3, <1>4, <1>5, <1>6, <1>7, <1>8, <1>9, <1>10, <1>11, <1>12, <1>13 DEF ResearchNext

LEMMA ResearchTold == ASSUME ResearchOK(ui) PROVE HistoryRunShown /\ DashboardFailureTold /\ ResearchNeverStuck
<1>1. RunShown(ui) /\ ViewTold(ui.view) /\ ResearchWaits(ui.at, ui.loading, ui.view, ui.flying)
  BY DEF ResearchOK
<1>2. ResearchNeverStuck
  BY <1>1 DEF ResearchNeverStuck, ResearchWaits, Some
<1> QED
  BY <1>1, <1>2 DEF HistoryRunShown, DashboardFailureTold, RunShown, ViewTold

-----------------------------------------------------------------------------
(* The board of the radar and the watchlist *)

RadarRequests == Requests({"overview"}, {"timer", "hand"})

RadarType ==
    [cockpit : CockpitTabs, market : Markets, tier : Tiers \cup {"ALL"}, gauge : {"GAUGE", "COMPONENTS"},
     data : SUBSET Boards, last : {None, "board", "failure"}, loading : BOOLEAN, error : BOOLEAN,
     asking : BOOLEAN, refreshing : BOOLEAN, timers : Nat, flying : Seq(RadarRequests)]

\* The one request there may be is waited for, and the ref says whether it is there.
OneOverview(f, asking) ==
    /\ asking => Len(f) = 1 /\ f[1].current
    /\ ~asking => Len(f) = 0

RadarOK(s) ==
    /\ s \in RadarType
    /\ OneOverview(s.flying, s.asking)
    /\ s.loading => s.asking /\ s.last = None
    /\ s.last = "failure" => s.data = {} /\ s.error
    /\ s.refreshing => s.timers > 0 \/ (s.asking /\ s.flying[1].of = "hand")

LEMMA AskedOverview ==
    ASSUME NEW f \in Seq(RadarRequests), Len(f) = 0, NEW by \in {"timer", "hand"}
    PROVE  /\ Ask(f, "overview", by) \in Seq(RadarRequests)
           /\ OneOverview(Ask(f, "overview", by), TRUE)
           /\ Ask(f, "overview", by)[1].of = by
<1> DEFINE new == [what |-> "overview", of |-> by, current |-> TRUE]
<1>1. f = <<>>
  OBVIOUS
<1>2. new \in RadarRequests
  BY DEF RadarRequests, Requests
<1>3. Ask(f, "overview", by) = <<new>>
  BY <1>1, AskFirst
<1>4. new.current /\ new.of = by
  OBVIOUS
<1> HIDE DEF new
<1>5. <<new>> \in Seq(RadarRequests) /\ Len(<<new>>) = 1 /\ <<new>>[1] = new
  BY <1>2
<1> QED
  BY <1>3, <1>4, <1>5 DEF OneOverview

LEMMA RadarStarts == RadarInit => RadarOK(ui)
<1> SUFFICES ASSUME RadarInit PROVE RadarOK(ui)
  OBVIOUS
<1> DEFINE f == <<>>
           g == Ask(f, "overview", "timer")
<1>1. PICK market \in Markets :
        ui = [cockpit |-> "ALL", market |-> market, tier |-> "ALL", gauge |-> "GAUGE", data |-> {}, last |-> None,
              loading |-> TRUE, error |-> FALSE, asking |-> TRUE, refreshing |-> FALSE, timers |-> 0,
              flying |-> g]
  BY DEF RadarInit
<1>2. f \in Seq(RadarRequests) /\ Len(f) = 0
  OBVIOUS
<1> HIDE DEF f
<1>3. g \in Seq(RadarRequests) /\ OneOverview(g, TRUE)
  BY <1>2, AskedOverview
<1> HIDE DEF g
<1>4. ui \in RadarType /\ ui.flying = g /\ ui.asking = TRUE /\ ui.last = None /\ ui.refreshing = FALSE
  BY <1>1, <1>3 DEF RadarType, CockpitTabs
<1> QED
  BY <1>3, <1>4 DEF RadarOK, None

LEMMA RadarSteps ==
    ASSUME RadarOK(ui), RadarNext
    PROVE  RadarOK(ui')
<1> DEFINE f == ui.flying
<1>0. ui \in RadarType /\ f \in Seq(RadarRequests) /\ Len(f) \in Nat /\ OneOverview(f, ui.asking)
  BY DEF RadarOK, RadarType
<1>1. ASSUME NEW by \in {"timer", "hand"}, FetchOverview(by), by = "hand" => ~ui.loading
      PROVE  RadarOK(ui')
  <2> DEFINE g == Ask(f, "overview", by)
             refreshing == ui.refreshing \/ by = "hand"
  <2>1. ~ui.asking /\ ui' = [ui EXCEPT !.asking = TRUE, !.refreshing = refreshing, !.flying = g]
    BY <1>1 DEF FetchOverview
  <2>2. g \in Seq(RadarRequests) /\ OneOverview(g, TRUE) /\ g[1].of = by
    BY <1>0, <2>1, AskedOverview DEF OneOverview
  <2>3. refreshing \in BOOLEAN
    BY <1>0 DEF RadarType
  <2>4. refreshing => ui.timers > 0 \/ by = "hand"
    BY <2>1 DEF RadarOK
  <2> HIDE DEF g, refreshing
  <2>5. /\ ui' \in RadarType /\ ui'.flying = g /\ ui'.asking = TRUE /\ ui'.refreshing = refreshing
        /\ ui'.loading = ui.loading /\ ui'.last = ui.last /\ ui'.data = ui.data /\ ui'.error = ui.error
        /\ ui'.timers = ui.timers
    BY <1>0, <2>1, <2>2, <2>3 DEF RadarType
  <2> QED
    BY <2>2, <2>4, <2>5 DEF RadarOK
\* The request is answered, with whatever the answer makes of the board.
<1>2. ASSUME NEW i \in DOMAIN f, NEW data \in SUBSET Boards, NEW error \in BOOLEAN, NEW last \in {"board", "failure"},
             ui' = [[Ended(i) EXCEPT !.data = data, !.error = error, !.last = last] EXCEPT !.flying = Answered(f, i)],
             last = "failure" => data = {} /\ error
      PROVE  RadarOK(ui')
  <2> DEFINE g == Answered(f, i)
             timers == IF f[i].of = "hand" THEN ui.timers + 1 ELSE ui.timers
  <2>1. ui.asking /\ i = 1 /\ Len(f) = 1
    BY <1>0 DEF OneOverview
  <2>2. g \in Seq(RadarRequests) /\ Len(g) = 0
    <3>1. g \in Seq(RadarRequests) /\ Len(g) = Len(f) - 1
      <4> HIDE DEF f
      <4> QED
        BY <1>0, <1>2, AnsweredIn
    <3> QED
      BY <2>1, <3>1
  <2>3. timers \in Nat /\ (ui.refreshing => timers > 0)
    BY <1>0, <2>1 DEF RadarOK, RadarType
  <2>4. ui' = [ui EXCEPT !.loading = FALSE, !.asking = FALSE, !.timers = timers, !.data = data, !.error = error,
                         !.last = last, !.flying = g]
    BY <1>0, <1>2 DEF Ended, RadarType
  <2> HIDE DEF g, timers
  <2>5. /\ ui' \in RadarType /\ ui'.flying = g /\ ui'.asking = FALSE /\ ui'.refreshing = ui.refreshing
        /\ ui'.loading = FALSE /\ ui'.last = last /\ ui'.data = data /\ ui'.error = error /\ ui'.timers = timers
    BY <1>0, <2>2, <2>3, <2>4 DEF RadarType
  <2> QED
    BY <1>2, <2>2, <2>3, <2>5 DEF RadarOK, OneOverview
<1>3. ASSUME NEW i \in DOMAIN ui.flying, OverviewFailed(i)
      PROVE  RadarOK(ui')
  <2>1. [Ended(i) EXCEPT !.error = TRUE, !.data = {}, !.last = "failure"].flying = f
    BY <1>0 DEF Ended, RadarType
  <2>2. ui' = [[Ended(i) EXCEPT !.data = {}, !.error = TRUE, !.last = "failure"] EXCEPT !.flying = Answered(f, i)]
    BY <1>3, <2>1 DEF OverviewFailed, Taken
  <2> QED
    BY <1>2, <2>2
<1>4. ASSUME NEW i \in DOMAIN ui.flying, NEW board \in Boards, OverviewArrived(i, board)
      PROVE  RadarOK(ui')
  <2>1. [Ended(i) EXCEPT !.data = {board}, !.error = FALSE, !.last = "board"].flying = f
    BY <1>0 DEF Ended, RadarType
  <2>2. ui' = [[Ended(i) EXCEPT !.data = {board}, !.error = FALSE, !.last = "board"] EXCEPT !.flying = Answered(f, i)]
    BY <1>4, <2>1 DEF OverviewArrived, Taken
  <2>3. {board} \in SUBSET Boards
    OBVIOUS
  <2> QED
    BY <1>2, <2>2, <2>3
<1>5. ASSUME RefreshShown
      PROVE  RadarOK(ui')
  <2> DEFINE timers == ui.timers - 1
  <2>1. ui' = [ui EXCEPT !.timers = timers, !.refreshing = FALSE] /\ timers \in Nat
    BY <1>0, <1>5 DEF RefreshShown, RadarType
  <2> HIDE DEF timers
  <2> QED
    BY <1>0, <2>1 DEF RadarOK, RadarType
<1>6. ASSUME NEW cockpit \in CockpitTabs, NEW market \in Markets, NEW tier \in Tiers \cup {"ALL"},
             NEW gauge \in {"GAUGE", "COMPONENTS"}, SetTabs(cockpit, market, tier, gauge)
      PROVE  RadarOK(ui')
  BY <1>0, <1>6 DEF SetTabs, RadarOK, RadarType
<1>7. ui.cockpit \in CockpitTabs /\ ui.market \in Markets /\ ui.tier \in Tiers \cup {"ALL"}
      /\ ui.gauge \in {"GAUGE", "COMPONENTS"}
  BY <1>0 DEF RadarType
<1>8. PollOverview => RadarOK(ui')
  BY <1>1 DEF PollOverview
<1>9. RefreshByHand => RadarOK(ui')
  BY <1>1 DEF RefreshByHand
<1> QED
  BY <1>3, <1>4, <1>5, <1>6, <1>7, <1>8, <1>9 DEF RadarNext

LEMMA RadarTold == ASSUME RadarOK(ui) PROVE RadarFailureClears /\ RadarNeverStuck
<1>1. RadarFailureClears
  BY DEF RadarOK, RadarFailureClears, RadarStatus, IndicesShown, GaugeShown, PlansShown, MappingShown, In, None
<1>2. RadarNeverStuck
  <2>1. ui \in RadarType /\ OneOverview(ui.flying, ui.asking) /\ ui.asking \in BOOLEAN
    BY DEF RadarOK, RadarType
  <2>2. ui.asking = (Len(ui.flying) = 1)
    BY <2>1 DEF OneOverview
  <2>3. ASSUME ui.asking
        PROVE  1 \in DOMAIN ui.flying /\ ui.flying[1].what = "overview" /\ ui.flying[1].current
    <3>1. ui.flying \in Seq(RadarRequests) /\ Len(ui.flying) = 1 /\ ui.flying[1].current
      BY <2>1, <2>3 DEF OneOverview, RadarType
    <3>2. ui.flying[1] \in RadarRequests /\ 1 \in DOMAIN ui.flying
      BY <3>1
    <3> QED
      BY <3>1, <3>2 DEF RadarRequests, Requests
  <2> QED
    BY <2>2, <2>3 DEF RadarOK, RadarNeverStuck, Waiting, Flying
<1> QED
  BY <1>1, <1>2

WatchlistRequests == Requests({"quotes"}, {"poll", "hand"})

WatchlistType ==
    [tab : Tabs, expanded : BOOLEAN, pine : BOOLEAN, copied : SUBSET Filtered("ALL"),
     state : {"loading", "live", "stale", "unavailable", "error"}, quotes : SUBSET Filtered("ALL"),
     usable : BOOLEAN, hidden : BOOLEAN, polling : BOOLEAN, flying : Seq(WatchlistRequests)]

WatchlistOK(s) ==
    /\ s \in WatchlistType
    /\ s.quotes # {} => s.usable /\ s.state \in {"live", "loading"}
    /\ s.state = "live" => s.quotes # {}
    /\ s.polling => \E i \in DOMAIN s.flying : s.flying[i].of = "poll"
    /\ s.state = "loading" => s.hidden \/ DOMAIN s.flying # {}

LEMMA AskWatchlistKeeps ==
    ASSUME NEW s \in WatchlistType, NEW by \in {"poll", "hand"}, s.quotes # {} => s.usable,
           s.polling => \E i \in DOMAIN s.flying : s.flying[i].of = "poll"
    PROVE  WatchlistOK(AskWatchlist(s, by))
<1> DEFINE new == [what |-> "quotes", of |-> by, current |-> TRUE]
           g == Append(s.flying, new)
           polling == s.polling \/ by = "poll"
<1>1. new \in WatchlistRequests /\ s.flying \in Seq(WatchlistRequests) /\ new.of = by /\ new.current
  BY DEF WatchlistRequests, Requests, WatchlistType
<1>2. polling \in BOOLEAN
  BY DEF WatchlistType
<1>3. AskWatchlist(s, by) = [s EXCEPT !.state = "loading", !.polling = polling, !.flying = g]
  BY DEF AskWatchlist
<1> HIDE DEF new
<1>4. /\ g \in Seq(WatchlistRequests) /\ g[Len(s.flying) + 1] = new /\ Len(s.flying) + 1 \in DOMAIN g
      /\ \A i \in DOMAIN s.flying : i \in DOMAIN g /\ g[i] = s.flying[i]
  BY <1>1, OneMore
<1> HIDE DEF g
<1>5. polling => \E i \in DOMAIN g : g[i].of = "poll"
  BY <1>1, <1>4
<1>6. DOMAIN g # {}
  BY <1>4
<1> DEFINE t == AskWatchlist(s, by)
<1> HIDE DEF polling, t
<1>7. /\ t \in WatchlistType /\ t.flying = g /\ t.polling = polling /\ t.state = "loading"
      /\ t.quotes = s.quotes /\ t.usable = s.usable
  BY <1>2, <1>3, <1>4 DEF WatchlistType, t
<1> QED
  BY <1>5, <1>6, <1>7 DEF WatchlistOK, t

LEMMA WatchlistStarts == WatchlistInit => WatchlistOK(ui)
<1> SUFFICES ASSUME WatchlistInit PROVE WatchlistOK(ui)
  OBVIOUS
<1> DEFINE new == [what |-> "quotes", of |-> "poll", current |-> TRUE]
<1>1. PICK hidden \in BOOLEAN :
        ui = [tab |-> "ALL", expanded |-> FALSE, pine |-> FALSE, copied |-> {}, state |-> "loading", quotes |-> {},
              usable |-> FALSE, hidden |-> hidden, polling |-> ~hidden,
              flying |-> IF hidden THEN <<>> ELSE <<new>>]
  BY DEF WatchlistInit
<1>2. new \in WatchlistRequests /\ new.of = "poll" /\ new.current
  BY DEF WatchlistRequests, Requests
<1> HIDE DEF new
<1> DEFINE f == IF hidden THEN <<>> ELSE <<new>>
<1>3. f \in Seq(WatchlistRequests)
  <2>1. <<>> \in Seq(WatchlistRequests)
    OBVIOUS
  <2>2. <<new>> \in Seq(WatchlistRequests)
    BY <1>2
  <2> QED
    BY <2>1, <2>2
<1>4. ~hidden => 1 \in DOMAIN f /\ f[1] = new
  OBVIOUS
<1> HIDE DEF f
<1>5. (~hidden) \in BOOLEAN
  OBVIOUS
<1>6. ui \in WatchlistType /\ ui.flying = f /\ (ui.polling <=> ~hidden) /\ ui.hidden = hidden /\ ui.quotes = {} /\ ui.state = "loading"
  BY <1>1, <1>3, <1>5 DEF WatchlistType, Tabs, f
<1> QED
  BY <1>2, <1>4, <1>6 DEF WatchlistOK

LEMMA WatchlistSteps ==
    ASSUME WatchlistOK(ui), WatchlistNext
    PROVE  WatchlistOK(ui')
<1> DEFINE f == ui.flying
<1>0. ui \in WatchlistType /\ f \in Seq(WatchlistRequests)
  BY DEF WatchlistOK, WatchlistType
\* A poll that is due, of a page whose state is as it should be.
<1>t. ASSUME WatchlistOK([ui EXCEPT !.hidden = TRUE]), NEW hidden \in BOOLEAN
      PROVE  WatchlistOK(Tick([ui EXCEPT !.hidden = hidden]))
  <2> DEFINE s == [ui EXCEPT !.hidden = hidden]
  <2>0. /\ s \in WatchlistType /\ s.hidden = hidden /\ s.flying = f /\ s.polling = ui.polling
        /\ s.quotes = ui.quotes /\ s.usable = ui.usable /\ s.state = ui.state
    BY <1>0 DEF WatchlistType
  <2>1. /\ ui.quotes # {} => ui.usable /\ ui.state \in {"live", "loading"}
        /\ ui.state = "live" => ui.quotes # {}
        /\ ui.polling => \E i \in DOMAIN f : f[i].of = "poll"
    BY <1>0, <1>t DEF WatchlistOK, WatchlistType
  <2> HIDE DEF s, f
  <2>4. WatchlistOK(Tick(s))
    <3>1. CASE s.hidden \/ s.polling
      <4>1. Tick(s) = s
        BY <3>1 DEF Tick
      <4>2. s.state = "loading" => s.hidden \/ DOMAIN s.flying # {}
        BY <2>0, <2>1, <3>1
      <4> QED
        BY <2>0, <2>1, <4>1, <4>2 DEF WatchlistOK
    <3>2. CASE ~(s.hidden \/ s.polling)
      <4>1. Tick(s) = AskWatchlist(s, "poll")
        BY <3>2 DEF Tick
      <4>2. WatchlistOK(AskWatchlist(s, "poll"))
        BY <2>0, <2>1, <3>2, AskWatchlistKeeps
      <4> QED
        BY <4>1, <4>2
    <3> QED
      BY <3>1, <3>2
  <2> QED
    BY <2>4 DEF s
<1>h. WatchlistOK([ui EXCEPT !.hidden = TRUE])
  BY <1>0 DEF WatchlistOK, WatchlistType
<1>1. ASSUME PollQuotes PROVE WatchlistOK(ui')
  <2>1. ui = [ui EXCEPT !.hidden = ui.hidden] /\ ui.hidden \in BOOLEAN
    BY <1>0 DEF WatchlistType
  <2> QED
    BY <1>1, <1>t, <1>h, <2>1 DEF PollQuotes
<1>2. ASSUME WatchlistShown PROVE WatchlistOK(ui')
  <2>1. (~ui.hidden) \in BOOLEAN
    OBVIOUS
  <2>2. ui' = Tick([ui EXCEPT !.hidden = ~ui.hidden])
    BY <1>2 DEF WatchlistShown
  <2> QED
    BY <1>t, <1>h, <2>1, <2>2
<1>3. ASSUME RetryQuotes PROVE WatchlistOK(ui')
  BY <1>0, <1>3, AskWatchlistKeeps DEF RetryQuotes, WatchlistOK
\* An answer, whatever it is worth.
<1>4. ASSUME NEW i \in DOMAIN f, NEW quotes \in SUBSET Filtered("ALL"), NEW usable \in BOOLEAN,
             NEW state \in {"live", "stale", "unavailable", "error"},
             ui' = [[PollEnded(i) EXCEPT !.quotes = quotes, !.usable = usable, !.state = state] EXCEPT
                       !.flying = Answered(f, i)],
             quotes # {} => usable /\ state = "live", state = "live" => quotes # {}
      PROVE  WatchlistOK(ui')
  <2> DEFINE g == Answered(f, i)
             polling == ui.polling /\ f[i].of # "poll"
  <2>1. g \in Seq(WatchlistRequests) /\ \A k \in DOMAIN f \ {i} : \E j \in DOMAIN g : g[j] = f[k]
    <3>1. i \in DOMAIN f
      OBVIOUS
    <3> HIDE DEF f
    <3> QED
      BY <1>0, <3>1, AnsweredIn, OthersStay
  <2>2. polling => \E j \in DOMAIN g : g[j].of = "poll"
    <3> SUFFICES ASSUME polling PROVE \E j \in DOMAIN g : g[j].of = "poll"
      OBVIOUS
    <3>1. PICK k \in DOMAIN f : f[k].of = "poll"
      BY DEF WatchlistOK
    <3>2. k \in DOMAIN f \ {i}
      BY <3>1
    <3> QED
      BY <2>1, <3>1, <3>2
  <2>3. polling \in BOOLEAN
    BY <1>0 DEF WatchlistType
  <2>4. ui' = [ui EXCEPT !.polling = polling, !.quotes = quotes, !.usable = usable, !.state = state, !.flying = g]
    BY <1>0, <1>4 DEF PollEnded, WatchlistType
  <2> HIDE DEF g, polling
  <2>5. /\ ui' \in WatchlistType /\ ui'.flying = g /\ ui'.polling = polling /\ ui'.quotes = quotes
        /\ ui'.usable = usable /\ ui'.state = state
    BY <1>0, <2>1, <2>3, <2>4 DEF WatchlistType
  <2> QED
    BY <1>4, <2>2, <2>5 DEF WatchlistOK
<1>5. ASSUME NEW i \in DOMAIN ui.flying, QuotesFailed(i) PROVE WatchlistOK(ui')
  <2>1. [PollEnded(i) EXCEPT !.quotes = {}, !.usable = FALSE, !.state = "error"].flying = f
    BY <1>0 DEF PollEnded, WatchlistType
  <2>2. ui' = [[PollEnded(i) EXCEPT !.quotes = {}, !.usable = FALSE, !.state = "error"] EXCEPT !.flying = Answered(f, i)]
    BY <1>5, <2>1 DEF QuotesFailed, Taken
  <2>3. {} \in SUBSET Filtered("ALL")
    OBVIOUS
  <2> QED
    BY <1>4, <2>2, <2>3
<1>6. ASSUME NEW i \in DOMAIN ui.flying, NEW result \in QuoteResults, QuoteResult(i, result) PROVE WatchlistOK(ui')
  <2> DEFINE quotes == IF Usable(result) THEN result.quotes ELSE {}
             usable == Usable(result)
             state == IF result.stale THEN "stale" ELSE IF Usable(result) THEN "live" ELSE "unavailable"
             s == [PollEnded(i) EXCEPT !.quotes = quotes, !.usable = usable, !.state = state]
  <2>1. /\ quotes \in SUBSET Filtered("ALL") /\ usable \in BOOLEAN
        /\ state \in {"live", "stale", "unavailable", "error"}
        /\ quotes # {} => usable /\ state = "live"
        /\ state = "live" => quotes # {}
    BY DEF QuoteResults, Usable
  <2>2. Taken(i, s)
    BY <1>6 DEF QuoteResult
  <2> HIDE DEF quotes, usable, state
  <2>3. s.flying = f
    BY <1>0 DEF PollEnded, WatchlistType
  <2>4. ui' = [s EXCEPT !.flying = Answered(f, i)]
    BY <2>2, <2>3 DEF Taken
  <2> QED
    BY <1>4, <2>1, <2>4
\* What is only looked at.
<1>7. ASSUME NEW tab \in Tabs, NEW copied \in SUBSET Filtered("ALL"), NEW expanded \in BOOLEAN, NEW pine \in BOOLEAN,
             ui' = [ui EXCEPT !.tab = tab, !.copied = copied, !.expanded = expanded, !.pine = pine]
      PROVE  WatchlistOK(ui')
  BY <1>0, <1>7 DEF WatchlistOK, WatchlistType
<1>8. /\ ui.tab \in Tabs /\ ui.copied \in SUBSET Filtered("ALL") /\ ui.expanded \in BOOLEAN /\ ui.pine \in BOOLEAN
      /\ (~ui.expanded) \in BOOLEAN /\ (~ui.pine) \in BOOLEAN /\ {} \in SUBSET Filtered("ALL")
  BY <1>0 DEF WatchlistType
<1>9. ASSUME NEW tab \in Tabs, SetTab(tab) PROVE WatchlistOK(ui')
  <2>1. ui' = [ui EXCEPT !.tab = tab, !.copied = ui.copied, !.expanded = ui.expanded, !.pine = ui.pine]
    BY <1>0, <1>9 DEF SetTab, WatchlistType
  <2> QED
    BY <1>7, <1>8, <2>1
<1>10. ASSUME CopyList PROVE WatchlistOK(ui')
  <2>1. Filtered(ui.tab) \in SUBSET Filtered("ALL")
    BY DEF Filtered
  <2> DEFINE copied == Filtered(ui.tab)
  <2>2. ui' = [ui EXCEPT !.tab = ui.tab, !.copied = copied, !.expanded = ui.expanded, !.pine = ui.pine]
    BY <1>0, <1>10 DEF CopyList, WatchlistType
  <2> HIDE DEF copied
  <2>3. copied \in SUBSET Filtered("ALL")
    BY <2>1 DEF copied
  <2> QED
    BY <1>7, <1>8, <2>2, <2>3
<1>11. ASSUME CopyShown PROVE WatchlistOK(ui')
  <2>1. ui' = [ui EXCEPT !.tab = ui.tab, !.copied = {}, !.expanded = ui.expanded, !.pine = ui.pine]
    BY <1>0, <1>11 DEF CopyShown, WatchlistType
  <2> QED
    BY <1>7, <1>8, <2>1
<1>12. ASSUME ToggleExpanded PROVE WatchlistOK(ui')
  <2>1. ui' = [ui EXCEPT !.tab = ui.tab, !.copied = ui.copied, !.expanded = ~ui.expanded, !.pine = ui.pine]
    BY <1>0, <1>12 DEF ToggleExpanded, WatchlistType
  <2> QED
    BY <1>7, <1>8, <2>1
<1>13. ASSUME TogglePine PROVE WatchlistOK(ui')
  <2>1. ui' = [ui EXCEPT !.tab = ui.tab, !.copied = ui.copied, !.expanded = ui.expanded, !.pine = ~ui.pine]
    BY <1>0, <1>13 DEF TogglePine, WatchlistType
  <2> QED
    BY <1>7, <1>8, <2>1
<1> QED
  BY <1>1, <1>2, <1>3, <1>5, <1>6, <1>9, <1>10, <1>11, <1>12, <1>13 DEF WatchlistNext

LEMMA WatchlistTold == ASSUME WatchlistOK(ui) PROVE WatchlistPricesUsable /\ WatchlistNeverStuck
<1>1. WatchlistPricesUsable
  BY DEF WatchlistOK, WatchlistPricesUsable, Cards, StatusLine
<1>2. WatchlistNeverStuck
  <2>1. DOMAIN ui.flying # {} => ui.flying # <<>>
    <3> DEFINE f == <<>>
    <3>1. DOMAIN f = {}
      OBVIOUS
    <3> QED
      BY <3>1
  <2> QED
    BY <2>1 DEF WatchlistOK, WatchlistNeverStuck
<1> QED
  BY <1>1, <1>2

-----------------------------------------------------------------------------
(* The page of one symbol *)

StockWhats == {"owners", "snapshot", "details", "tick"}
StockRequests == Requests(StockWhats, Tickers)

StocksOf == [of : Tickers \cup {None, Similar}, priced : Tickers \cup {None, Similar},
             current : BOOLEAN, scored : BOOLEAN, late : BOOLEAN]
EvidenceOf == [of : Tickers \cup {None}, fundamentals : Tickers \cup {None}, holders : Tickers \cup {None}]

StockType ==
    [ticker : Tickers, loading : BOOLEAN, stock : StocksOf, evidence : EvidenceOf, owners : Tickers \cup {None},
     quote : {"loading", "live", "stale"}, score : {"loading", "live", "unavailable"}, snapshot : BOOLEAN, failed : BOOLEAN,
     flying : Seq(StockRequests)]

\* What is on the page is of its symbol, and what it still waits for asks for it.
StockOwn(s) ==
    /\ s.evidence.of \in {None, s.ticker} /\ s.evidence.holders \in {None, s.ticker}
    /\ s.stock.of \in {None, Similar, s.ticker}
    /\ ~s.stock.late => s.stock.priced \in {None, Similar, s.ticker}
    /\ s.score = "live" => s.evidence.of = s.ticker
    /\ s.quote = "live" /\ s.stock # NoStock => s.stock.current

StockAsks(ticker, f) == \A what \in {"snapshot", "details", "tick"} : Owned(f, what, ticker)

StockWaits(loading, f) == loading => Waiting(f, "snapshot") \/ Waiting(f, "details")

StockOK(s) ==
    /\ s \in StockType
    /\ StockOwn(s)
    /\ StockAsks(s.ticker, s.flying)
    /\ StockWaits(s.loading, s.flying)

LEMMA NoStockIs == NoStock \in StocksOf /\ NoEvidence \in EvidenceOf /\ NoStock.of = None /\ NoStock.priced = None
                   /\ NoEvidence.of = None /\ NoEvidence.holders = None
  BY DEF NoStock, NoEvidence, StocksOf, EvidenceOf

\* Both effects on the symbol: all that is on the page goes, whatever it was of.
LEMMA FetchedKeeps ==
    ASSUME NEW s \in StockType, Owned(s.flying, "tick", s.ticker)
    PROVE  StockOK(FetchData(s)) /\ StockOK(FetchOwners(FetchData(s)))
<1> DEFINE f1 == Superseded(s.flying, "details")
           f2 == Ask(f1, "snapshot", s.ticker)
           f3 == Ask(f2, "owners", s.ticker)
           u == FetchData(s)
           t == FetchOwners(u)
<1>1. s.flying \in Seq(StockRequests) /\ s.ticker \in Tickers
  BY DEF StockType
<1>2. f1 \in Seq(StockRequests) /\ Owned(f1, "details", s.ticker) /\ Owned(f1, "tick", s.ticker)
  BY <1>1, Gate DEF StockRequests
<1> HIDE DEF f1
<1>3. /\ f2 \in Seq(StockRequests) /\ Waiting(f2, "snapshot") /\ Owned(f2, "snapshot", s.ticker)
      /\ Owned(f2, "details", s.ticker) /\ Owned(f2, "tick", s.ticker)
  <2>1. "snapshot" \in StockWhats
    BY DEF StockWhats
  <2> QED
    BY <1>1, <1>2, <2>1, GateAsk DEF StockRequests
<1> HIDE DEF f2
<1>4. /\ f3 \in Seq(StockRequests) /\ Waiting(f3, "snapshot") /\ Owned(f3, "snapshot", s.ticker)
      /\ Owned(f3, "details", s.ticker) /\ Owned(f3, "tick", s.ticker)
  <2>1. "owners" \in StockWhats
    BY DEF StockWhats
  <2> QED
    BY <1>1, <1>3, <2>1, GateAsk DEF StockRequests
<1> HIDE DEF f3
<1>5. ASSUME NEW w, NEW g, g \in Seq(StockRequests), Waiting(g, "snapshot"), StockAsks(s.ticker, g),
             w = [s EXCEPT !.loading = TRUE, !.failed = FALSE, !.stock = NoStock, !.evidence = NoEvidence,
                           !.quote = "loading", !.score = "loading", !.flying = g]
      PROVE  StockOK(w)
  <2>1. /\ w \in StockType /\ w.flying = g /\ w.ticker = s.ticker /\ w.loading = TRUE /\ w.stock = NoStock
        /\ w.evidence = NoEvidence /\ w.quote = "loading" /\ w.score = "loading"
    BY <1>5, NoStockIs DEF StockType
  <2> QED
    BY <1>5, <2>1, NoStockIs DEF StockOK, StockOwn, StockWaits
<1>6. u = [s EXCEPT !.loading = TRUE, !.failed = FALSE, !.stock = NoStock, !.evidence = NoEvidence,
                    !.quote = "loading", !.score = "loading", !.flying = f2]
  BY DEF FetchData, f1, f2, StockType
<1> HIDE DEF u
<1>7. t = [s EXCEPT !.loading = TRUE, !.failed = FALSE, !.stock = NoStock, !.evidence = NoEvidence,
                    !.quote = "loading", !.score = "loading", !.flying = f3]
  BY <1>6 DEF FetchOwners, f3, StockType
<1> HIDE DEF t
<1>8. StockAsks(s.ticker, f2) /\ StockAsks(s.ticker, f3)
  BY <1>3, <1>4 DEF StockAsks
<1>9. StockOK(u) /\ StockOK(t)
  BY <1>3, <1>4, <1>5, <1>6, <1>7, <1>8
<1> QED
  BY <1>9 DEF u, t

LEMMA StockStarts == StockInit => StockOK(ui)
<1> SUFFICES ASSUME StockInit PROVE StockOK(ui)
  OBVIOUS
<1> DEFINE f == <<>>
<1>1. PICK ticker \in Tickers :
        ui = FetchOwners(FetchData([ticker |-> ticker, loading |-> TRUE, stock |-> NoStock,
                                    evidence |-> NoEvidence, owners |-> None, quote |-> "loading",
                                    score |-> "loading", failed |-> FALSE, snapshot |-> FALSE, flying |-> f]))
  BY DEF StockInit
<1> DEFINE s == [ticker |-> ticker, loading |-> TRUE, stock |-> NoStock,
                 evidence |-> NoEvidence, owners |-> None, quote |-> "loading",
                 score |-> "loading", failed |-> FALSE, snapshot |-> FALSE, flying |-> f]
<1>2. f \in Seq(StockRequests)
  OBVIOUS
<1>5. s.flying = f /\ Owned(f, "tick", s.ticker)
  BY DEF Owned
<1> HIDE DEF f
<1>3. s \in StockType
  BY <1>2, NoStockIs DEF StockType
<1> HIDE DEF s
<1>4. ui = FetchOwners(FetchData(s))
  BY <1>1 DEF s
<1> QED
  BY <1>3, <1>4, <1>5, FetchedKeeps

LEMMA StockSteps ==
    ASSUME StockOK(ui), StockNext
    PROVE  StockOK(ui')
<1> DEFINE f == ui.flying
           h(i) == Answered(f, i)
<1>0. /\ ui \in StockType /\ f \in Seq(StockRequests) /\ ui.ticker \in Tickers /\ StockOwn(ui)
      /\ StockAsks(ui.ticker, f) /\ StockWaits(ui.loading, f)
  BY DEF StockOK, StockType
<1>h. ASSUME NEW i \in DOMAIN f
      PROVE  /\ h(i) \in Seq(StockRequests) /\ f[i] \in StockRequests /\ StockAsks(ui.ticker, h(i))
             /\ \A other : Waiting(f, other) /\ (~f[i].current \/ f[i].what # other) => Waiting(h(i), other)
             /\ ~f[i].current \/ f[i].what \in {"owners", "tick"} => StockWaits(ui.loading, h(i))
             /\ f[i].what \in {"snapshot", "details", "tick"} /\ f[i].current => f[i].of = ui.ticker
  <2>1. /\ h(i) \in Seq(StockRequests)
        /\ \A other, of : Owned(f, other, of) => Owned(h(i), other, of)
        /\ \A other : Waiting(f, other) /\ (~f[i].current \/ f[i].what # other) => Waiting(h(i), other)
    BY <1>0, GateAnswered
  <2>2. f[i] \in StockRequests
    BY <1>0
  <2>3. f[i].what \in {"snapshot", "details", "tick"} /\ f[i].current => f[i].of = ui.ticker
    BY <1>0 DEF StockAsks, Owned
  <2> HIDE DEF h
  <2> QED
    BY <1>0, <2>1, <2>2, <2>3 DEF StockAsks, StockWaits
\* An answer that is not heard.
<1>u. ASSUME NEW i \in DOMAIN f, ~f[i].current, ui' = [ui EXCEPT !.flying = h(i)]
      PROVE  StockOK(ui')
  <2>1. h(i) \in Seq(StockRequests) /\ StockAsks(ui.ticker, h(i)) /\ StockWaits(ui.loading, h(i))
    BY <1>h, <1>u
  <2> HIDE DEF h
  <2> QED
    BY <1>0, <1>u, <2>1 DEF StockOK, StockOwn, StockType
<1>1. ASSUME NEW i \in DOMAIN ui.flying, NEW found \in {"fresh", "stale", "missing"}, SnapshotAnswer(i, found)
      PROVE  StockOK(ui')
  <2> DEFINE g == Ask(h(i), "details", ui.ticker)
             r == [ui EXCEPT !.flying = h(i)]
  <2>1. f[i].what = "snapshot"
    BY <1>1 DEF SnapshotAnswer
  <2>2. CASE ~f[i].current
    BY <1>1, <1>u, <2>2 DEF SnapshotAnswer
  <2>3. CASE f[i].current
    <3>1. f[i].of = ui.ticker
      BY <1>h, <2>1, <2>3
    <3>2. ui' = WithSnapshot(r, ui.ticker, found)
      BY <1>1, <2>3, <3>1 DEF SnapshotAnswer
    <3>3. /\ g \in Seq(StockRequests) /\ Waiting(g, "details") /\ StockAsks(ui.ticker, g)
      <4>1. "details" \in StockWhats
        BY DEF StockWhats
      <4>2. h(i) \in Seq(StockRequests) /\ Owned(h(i), "snapshot", ui.ticker) /\ Owned(h(i), "tick", ui.ticker)
        BY <1>h DEF StockAsks
      <4> HIDE DEF h
      <4> QED
        BY <1>0, <4>1, <4>2, GateAsk DEF StockRequests, StockAsks
    <3> HIDE DEF h
    <3>4. CASE found = "missing"
      <4>1. ui' = [ui EXCEPT !.snapshot = FALSE, !.flying = g]
        BY <1>0, <3>2, <3>4 DEF WithSnapshot, StockType
      <4> HIDE DEF g
      <4> QED
        BY <1>0, <3>3, <4>1 DEF StockOK, StockOwn, StockWaits, StockType
    <3>5. CASE found # "missing"
      <4> DEFINE fresh == found = "fresh"
                 stock == [NoStock EXCEPT !.of = ui.ticker, !.priced = ui.ticker, !.current = fresh]
                 quote == IF found = "fresh" THEN "live" ELSE "stale"
      <4>1. ui' = [ui EXCEPT !.snapshot = TRUE, !.stock = stock, !.quote = quote, !.loading = FALSE, !.flying = g]
        <5> DEFINE asked == [ui EXCEPT !.snapshot = TRUE, !.flying = g]
        <5>1. [r EXCEPT !.snapshot = found # "missing", !.flying = Ask(@, "details", ui.ticker)] = asked
          BY <1>0, <3>5 DEF StockType
        <5> HIDE DEF g, stock, quote, r
        <5>3. ui' = [asked EXCEPT !.stock = stock, !.quote = quote, !.loading = FALSE]
          BY <3>2, <3>5, <5>1 DEF WithSnapshot, quote, stock, fresh
        <5> QED
          BY <1>0, <5>3 DEF StockType
      <4>2. stock \in StocksOf /\ stock.of = ui.ticker /\ stock.priced = ui.ticker /\ (quote = "live" => stock.current) /\ quote \in {"live", "stale"}
        <5>1. fresh \in BOOLEAN /\ (quote = "live" => fresh)
          OBVIOUS
        <5>2. quote \in {"live", "stale"}
          OBVIOUS
        <5> HIDE DEF fresh, quote
        <5> QED
          BY <1>0, <5>1, <5>2, NoStockIs DEF StocksOf
      <4> HIDE DEF g, stock, quote
      <4>3. /\ ui' \in StockType /\ ui'.ticker = ui.ticker /\ ui'.loading = FALSE /\ ui'.stock = stock
            /\ ui'.quote = quote /\ ui'.flying = g /\ ui'.evidence = ui.evidence /\ ui'.score = ui.score
        BY <1>0, <3>3, <4>1, <4>2 DEF StockType
      <4> QED
        BY <1>0, <3>3, <4>2, <4>3 DEF StockOK, StockOwn, StockWaits
    <3> QED
      BY <3>4, <3>5
  <2> QED
    BY <2>2, <2>3
<1>2. ASSUME NEW i \in DOMAIN ui.flying, NEW quote \in {"live", "stale"}, NEW score \in {"live", "unavailable"},
             NEW known \in {"search", Similar, "fundamentals", "unknown"}, DetailsAnswer(i, quote, score, known)
      PROVE  StockOK(ui')
  <2> DEFINE s == WithDetails(ui, f[i].of, quote, score, known)
  <2>1. f[i].what = "details" /\ Heard(i, s)
    BY <1>2 DEF DetailsAnswer
  <2>2. CASE ~f[i].current
    <3>1. ui' = [ui EXCEPT !.flying = h(i)]
      <4> HIDE DEF s
      <4> QED
        BY <2>1, <2>2 DEF Heard
    <3> QED
      BY <1>u, <2>2, <3>1
  <2>3. CASE f[i].current
    <3>1. f[i].of = ui.ticker
      BY <1>h, <2>1, <2>3
    <3> DEFINE exact == ui.snapshot \/ known \in {"search", Similar}
               of1 == IF ~ui.snapshot /\ known = Similar THEN Similar ELSE ui.ticker
               priced == IF quote = "live" THEN ui.ticker ELSE IF exact THEN of1 ELSE None
               full == [of |-> of1, priced |-> priced, current |-> quote = "live",
                        scored |-> exact /\ score = "live", late |-> FALSE]
               stock == IF exact \/ known = "fundamentals" THEN full ELSE NoStock
               evidence == [of |-> ui.ticker, fundamentals |-> ui.ticker, holders |-> ui.ticker]
    <3>2. s = [ui EXCEPT !.evidence = evidence, !.quote = quote, !.score = score, !.loading = FALSE, !.stock = stock]
      BY <3>1 DEF WithDetails
    <3>3. /\ of1 \in {Similar, ui.ticker} /\ of1 \in Tickers \cup {None, Similar}
          /\ priced \in {None, Similar, ui.ticker} /\ priced \in Tickers \cup {None, Similar}
      BY <1>0
    <3>4. (quote = "live") \in BOOLEAN /\ (exact /\ score = "live") \in BOOLEAN
      OBVIOUS
    <3> HIDE DEF priced
    <3>5. full \in StocksOf /\ full.of \in {Similar, ui.ticker} /\ full.priced \in {None, Similar, ui.ticker} /\ (quote = "live" => full.current)
      BY <3>3, <3>4 DEF StocksOf
    <3> HIDE DEF full
    <3>6. stock \in StocksOf /\ stock.of \in {None, Similar, ui.ticker} /\ stock.priced \in {None, Similar, ui.ticker}
          /\ (quote = "live" /\ stock # NoStock => stock.current)
      BY <3>5, NoStockIs
    <3>7. evidence \in EvidenceOf /\ evidence.of = ui.ticker /\ evidence.holders = ui.ticker
      BY <1>0 DEF EvidenceOf
    <3> HIDE DEF stock, evidence, s
    <3>8. s.flying = f
      BY <1>0, <3>2 DEF StockType
    <3>9. ui' = [s EXCEPT !.flying = h(i)]
      BY <2>1, <2>3, <3>8 DEF Heard
    <3>10. h(i) \in Seq(StockRequests) /\ StockAsks(ui.ticker, h(i))
      BY <1>h
    <3> HIDE DEF h
    <3>11. /\ ui' \in StockType /\ ui'.ticker = ui.ticker /\ ui'.loading = FALSE /\ ui'.stock = stock
           /\ ui'.quote = quote /\ ui'.flying = h(i) /\ ui'.evidence = evidence /\ ui'.score = score
      BY <1>0, <3>2, <3>6, <3>7, <3>9, <3>10 DEF StockType
    <3> QED
      BY <3>6, <3>7, <3>10, <3>11 DEF StockOK, StockOwn, StockWaits
  <2> QED
    BY <2>2, <2>3
<1>3. ASSUME NEW i \in DOMAIN ui.flying, NEW found \in BOOLEAN, OwnersAnswer(i, found)
      PROVE  StockOK(ui')
  <2> DEFINE owners == IF found THEN f[i].of ELSE None
             s == [ui EXCEPT !.owners = owners]
  <2>1. f[i].what = "owners" /\ Heard(i, s)
    BY <1>3 DEF OwnersAnswer
  <2>2. CASE ~f[i].current
    <3>1. ui' = [ui EXCEPT !.flying = h(i)]
      <4> HIDE DEF s
      <4> QED
        BY <2>1, <2>2 DEF Heard
    <3> QED
      BY <1>u, <2>2, <3>1
  <2>3. CASE f[i].current
    <3>1. owners \in Tickers \cup {None}
      BY <1>h DEF StockRequests, Requests
    <3> HIDE DEF owners
    <3>2. s.flying = f
      BY <1>0 DEF StockType
    <3>3. ui' = [ui EXCEPT !.owners = owners, !.flying = h(i)]
      <4>1. ui' = [s EXCEPT !.flying = h(i)]
        <5> HIDE DEF s
        <5> QED
          BY <2>1, <2>3, <3>2 DEF Heard
      <4> QED
        BY <1>0, <4>1 DEF StockType
    <3>4. h(i) \in Seq(StockRequests) /\ StockAsks(ui.ticker, h(i)) /\ StockWaits(ui.loading, h(i))
      BY <1>h, <2>1
    <3> HIDE DEF h
    <3> QED
      BY <1>0, <3>1, <3>3, <3>4 DEF StockOK, StockOwn, StockType
  <2> QED
    BY <2>2, <2>3
<1>4. ASSUME NEW i \in DOMAIN ui.flying, NEW quote \in {"live", "stale"}, QuoteTick(i, quote)
      PROVE  StockOK(ui')
  <2> DEFINE late == ~f[i].current
             current == [ui.stock EXCEPT !.current = TRUE, !.priced = f[i].of, !.late = late]
             stock == IF quote # "live" \/ ui.stock = NoStock THEN ui.stock ELSE current
             s == [ui EXCEPT !.quote = quote, !.stock = stock]
  <2>1. f[i].what = "tick" /\ ui' = [s EXCEPT !.flying = h(i)]
    <3>1. CASE quote # "live"
      <4>1. s = [ui EXCEPT !.quote = quote]
        BY <1>0, <3>1 DEF StockType
      <4>2. s.flying = f
        BY <1>0 DEF StockType
      <4> HIDE DEF s
      <4>3. Taken(i, s)
        BY <1>4, <3>1, <4>1 DEF QuoteTick
      <4> QED
        BY <1>4, <4>2, <4>3 DEF QuoteTick, Taken
    <3>2. CASE quote = "live"
      <4>1. s = [ui EXCEPT !.quote = "live", !.stock = IF @ = NoStock THEN @ ELSE current]
        BY <1>0, <3>2 DEF StockType
      <4>2. s.flying = f
        BY <1>0 DEF StockType
      <4> HIDE DEF s
      <4>3. Taken(i, s)
        BY <1>4, <3>2, <4>1 DEF QuoteTick
      <4> QED
        BY <1>4, <4>2, <4>3 DEF QuoteTick, Taken
    <3> QED
      BY <3>1, <3>2
  <2>2. /\ stock \in StocksOf /\ stock.of = ui.stock.of
        /\ quote = "live" /\ stock # NoStock => stock.current
        /\ ~stock.late => stock.priced \in {None, Similar, ui.ticker}
    <3>1. f[i].of \in Tickers /\ late \in BOOLEAN /\ (~late => f[i].of = ui.ticker)
      BY <1>h, <2>1 DEF StockRequests, Requests
    <3> HIDE DEF late
    <3>2. ui.stock \in StocksOf /\ (~ui.stock.late => ui.stock.priced \in {None, Similar, ui.ticker})
      BY <1>0 DEF StockType, StockOwn
    <3>3. current \in StocksOf /\ current.of = ui.stock.of /\ current.current /\ current.late = late /\ current.priced = f[i].of
      BY <3>1, <3>2 DEF StocksOf
    <3> HIDE DEF current
    <3> QED
      BY <3>1, <3>2, <3>3
  <2> HIDE DEF stock
  <2>3. h(i) \in Seq(StockRequests) /\ StockAsks(ui.ticker, h(i)) /\ StockWaits(ui.loading, h(i))
    BY <1>h, <2>1
  <2> HIDE DEF h
  <2>4. /\ ui' \in StockType /\ ui'.ticker = ui.ticker /\ ui'.loading = ui.loading /\ ui'.stock = stock
        /\ ui'.quote = quote /\ ui'.flying = h(i) /\ ui'.evidence = ui.evidence /\ ui'.score = ui.score
    BY <1>0, <2>1, <2>2, <2>3 DEF StockType
  <2> QED
    BY <1>0, <2>2, <2>3, <2>4 DEF StockOK, StockOwn
<1>5. ASSUME NEW ticker \in Tickers, OpenTicker(ticker)
      PROVE  StockOK(ui')
  <2> DEFINE g == Superseded(f, "tick")
             s == [ui EXCEPT !.ticker = ticker, !.flying = g]
  <2>1. g \in Seq(StockRequests) /\ Owned(g, "tick", ticker)
    BY <1>0, Gate DEF StockRequests
  <2>2. ui' = FetchOwners(FetchData(s))
    BY <1>5 DEF OpenTicker
  <2> HIDE DEF g
  <2>3. s \in StockType /\ s.flying = g /\ s.ticker = ticker
    BY <1>0, <2>1 DEF StockType
  <2> HIDE DEF s
  <2> QED
    BY <2>1, <2>2, <2>3, FetchedKeeps
<1>6. ASSUME QuoteTimer
      PROVE  StockOK(ui')
  <2> DEFINE g == Ask(f, "tick", ui.ticker)
  <2>1. /\ g \in Seq(StockRequests) /\ StockAsks(ui.ticker, g) /\ StockWaits(ui.loading, g)
    <3>1. "tick" \in StockWhats
      BY DEF StockWhats
    <3> QED
      BY <1>0, <3>1, GateAsk DEF StockRequests, StockAsks, StockWaits
  <2>2. ui' = [ui EXCEPT !.flying = g]
    BY <1>6 DEF QuoteTimer
  <2> HIDE DEF g
  <2> QED
    BY <1>0, <2>1, <2>2 DEF StockOK, StockOwn, StockType
<1>7. ASSUME RetryStock
      PROVE  StockOK(ui')
  BY <1>0, <1>7, FetchedKeeps DEF RetryStock, StockAsks
<1>8. ASSUME NEW i \in DOMAIN ui.flying, NEW score \in {"live", "unavailable"}, DetailsFail(i, score)
      PROVE  StockOK(ui')
  <2> DEFINE s == WithoutResults(ui, f[i].of, score)
  <2>1. f[i].what = "details" /\ Heard(i, s)
    BY <1>8 DEF DetailsFail
  <2>2. CASE ~f[i].current
    <3>1. ui' = [ui EXCEPT !.flying = h(i)]
      <4> HIDE DEF s
      <4> QED
        BY <2>1, <2>2 DEF Heard
    <3> QED
      BY <1>u, <2>2, <3>1
  <2>3. CASE f[i].current
    <3> DEFINE evidence == [of |-> ui.ticker, fundamentals |-> ui.ticker, holders |-> ui.ticker]
    <3>1. s = [ui EXCEPT !.evidence = evidence, !.score = score, !.loading = FALSE, !.failed = TRUE]
      BY <1>h, <2>1, <2>3 DEF WithoutResults
    <3>2. evidence \in EvidenceOf /\ evidence.of = ui.ticker /\ evidence.holders = ui.ticker
      BY <1>0 DEF EvidenceOf
    <3> HIDE DEF evidence, s
    <3>3. s.flying = f
      BY <1>0, <3>1 DEF StockType
    <3>4. ui' = [s EXCEPT !.flying = h(i)]
      BY <2>1, <2>3, <3>3 DEF Heard
    <3>5. h(i) \in Seq(StockRequests) /\ StockAsks(ui.ticker, h(i))
      BY <1>h
    <3> HIDE DEF h
    <3>6. /\ ui' \in StockType /\ ui'.ticker = ui.ticker /\ ui'.loading = FALSE /\ ui'.stock = ui.stock
          /\ ui'.quote = ui.quote /\ ui'.flying = h(i) /\ ui'.evidence = evidence /\ ui'.score = score
      BY <1>0, <3>1, <3>2, <3>4, <3>5 DEF StockType
    <3> QED
      BY <1>0, <3>2, <3>5, <3>6 DEF StockOK, StockOwn, StockWaits
  <2> QED
    BY <2>2, <2>3
<1> QED
  BY <1>1, <1>2, <1>3, <1>4, <1>5, <1>6, <1>7, <1>8 DEF StockNext

LEMMA StockTold == ASSUME StockOK(ui) PROVE StockShowsOwn /\ StockPriceCurrent /\ StockNeverStuck
<1>1. StockShowsOwn
  BY DEF StockOK, StockOwn, StockShowsOwn, HoldersBlock, LedgerBlock, ScoresBlock, Shown, PriceLine
<1>2. StockPriceCurrent /\ StockNeverStuck
  BY DEF StockOK, StockOwn, StockWaits, StockPriceCurrent, StockNeverStuck, PriceLine
<1> QED
  BY <1>1, <1>2

-----------------------------------------------------------------------------
(* The home page, its heat map and the panels around it *)

HomeRequests == Requests({"overview", "pulse"}, Regions \cup {"US", None})

CompaniesOf == [of : Regions \cup {"US", None}, historical : BOOLEAN, scored : BOOLEAN]

HomeType ==
    [region : Regions \cup {"US"}, mode : {"pulse", "chain", "sector"}, evidence : BOOLEAN,
     panelNote : {None, "validating", "hidden"}, macro : BOOLEAN, macroNote : BOOLEAN, companies : CompaniesOf,
     historicalNote : BOOLEAN, loading : BOOLEAN, error : BOOLEAN, flying : Seq(HomeRequests)]

\* Scores are shown of evidence that is held, and while it is, none is waited for.
ScoresHeld(s) ==
    /\ s.evidence => s.panelNote = None /\ ~Waiting(s.flying, "overview")
    /\ ~s.loading /\ s.companies.scored => s.evidence

CompaniesFit(s) ==
    /\ s.companies.historical => s.historicalNote
    /\ s.loading => ~s.error
    /\ ~s.loading /\ ~s.error => s.companies.of = s.region

HomeOK(s) ==
    /\ s \in HomeType
    /\ ScoresHeld(s)
    /\ CompaniesFit(s)
    /\ Owned(s.flying, "pulse", s.region)
    /\ AtMostOne(s.flying, "overview") /\ AtMostOne(s.flying, "pulse")

LEMMA NoCompaniesIs == NoCompanies \in CompaniesOf /\ NoCompanies.of = None /\ ~NoCompanies.historical /\ ~NoCompanies.scored
  BY DEF NoCompanies, CompaniesOf

LEMMA AskedHome ==
    ASSUME NEW f \in Seq(HomeRequests), NEW of \in Regions \cup {"US", None}
    PROVE  /\ Ask(f, "pulse", of) \in Seq(HomeRequests) /\ Owned(Ask(f, "pulse", of), "pulse", of)
           /\ Waiting(Ask(f, "pulse", of), "overview") => Waiting(f, "overview")
           /\ AtMostOne(Ask(f, "pulse", of), "pulse")
           /\ AtMostOne(f, "overview") => AtMostOne(Ask(f, "pulse", of), "overview")
           /\ Ask(f, "overview", None) \in Seq(HomeRequests)
           /\ AtMostOne(Ask(f, "overview", None), "overview")
<1>1. "pulse" \in {"overview", "pulse"} /\ "overview" \in {"overview", "pulse"} /\ "overview" # "pulse"
      /\ None \in Regions \cup {"US", None}
  OBVIOUS
<1>2. /\ Ask(f, "pulse", of) \in Seq(HomeRequests) /\ Owned(Ask(f, "pulse", of), "pulse", of)
      /\ Waiting(Ask(f, "pulse", of), "overview") => Waiting(f, "overview")
      /\ Ask(f, "overview", None) \in Seq(HomeRequests)
  BY <1>1, GateAsk DEF HomeRequests
<1>3. /\ AtMostOne(Ask(f, "pulse", of), "pulse")
      /\ AtMostOne(f, "overview") => AtMostOne(Ask(f, "pulse", of), "overview")
      /\ AtMostOne(Ask(f, "overview", None), "overview")
  BY <1>1, OneAsked DEF HomeRequests
<1> QED
  BY <1>2, <1>3

LEMMA PulseStartKeeps ==
    ASSUME NEW s \in HomeType, s.evidence => s.panelNote = None /\ ~Waiting(s.flying, "overview"),
           s.companies.historical => s.historicalNote, AtMostOne(s.flying, "overview")
    PROVE  HomeOK(PulseStart(s))
<1> DEFINE g == s.flying
           f == Ask(g, "pulse", s.region)
           t == PulseStart(s)
<1>1. g \in Seq(HomeRequests) /\ s.region \in Regions \cup {"US", None}
  BY DEF HomeType
<1>2. t = [s EXCEPT !.loading = TRUE, !.error = FALSE, !.flying = f]
  BY DEF PulseStart
<1> HIDE DEF g
<1>3. /\ f \in Seq(HomeRequests) /\ Owned(f, "pulse", s.region) /\ (Waiting(f, "overview") => Waiting(g, "overview"))
      /\ AtMostOne(f, "pulse") /\ (AtMostOne(g, "overview") => AtMostOne(f, "overview"))
  BY <1>1, AskedHome
<1> HIDE DEF f, t
<1>4. /\ t \in HomeType /\ t.flying = f /\ t.region = s.region /\ t.loading = TRUE /\ t.error = FALSE
      /\ t.evidence = s.evidence /\ t.panelNote = s.panelNote /\ t.companies = s.companies
      /\ t.historicalNote = s.historicalNote
  BY <1>2, <1>3 DEF HomeType
<1>5. HomeOK(t)
  BY <1>3, <1>4 DEF HomeOK, ScoresHeld, CompaniesFit, g
<1> QED
  BY <1>5 DEF t

LEMMA HomeStarts == HomeInit => HomeOK(ui)
<1> SUFFICES ASSUME HomeInit PROVE HomeOK(ui)
  OBVIOUS
<1> DEFINE f == <<>>
           g == Ask(f, "overview", None)
           h == Ask(g, "pulse", "US")
<1>1. f \in Seq(HomeRequests)
  OBVIOUS
<1>2. ui = [region |-> "US", mode |-> "pulse", evidence |-> FALSE, panelNote |-> "validating",
            macro |-> FALSE, macroNote |-> FALSE, companies |-> NoCompanies,
            historicalNote |-> FALSE, loading |-> TRUE, error |-> FALSE, flying |-> h]
  BY DEF HomeInit
<1> HIDE DEF f
<1>3. "US" \in Regions \cup {"US", None}
  OBVIOUS
<1>4. g \in Seq(HomeRequests) /\ AtMostOne(g, "overview")
  BY <1>1, <1>3, AskedHome
<1> HIDE DEF g
<1>5. /\ h \in Seq(HomeRequests) /\ Owned(h, "pulse", "US") /\ AtMostOne(h, "pulse")
      /\ AtMostOne(h, "overview")
  BY <1>3, <1>4, AskedHome
<1> HIDE DEF h
<1>6. /\ ui \in HomeType /\ ui.flying = h /\ ui.region = "US" /\ ui.evidence = FALSE /\ ui.loading = TRUE
      /\ ui.error = FALSE /\ ui.companies = NoCompanies
  BY <1>2, <1>5, NoCompaniesIs DEF HomeType
<1> QED
  BY <1>5, <1>6, NoCompaniesIs DEF HomeOK, ScoresHeld, CompaniesFit

LEMMA HomeSteps ==
    ASSUME HomeOK(ui), HomeNext
    PROVE  HomeOK(ui')
<1> DEFINE f == ui.flying
           h(i) == Answered(f, i)
<1>0. /\ ui \in HomeType /\ f \in Seq(HomeRequests) /\ ScoresHeld(ui) /\ CompaniesFit(ui)
      /\ Owned(f, "pulse", ui.region) /\ ui.region \in Regions \cup {"US"}
      /\ AtMostOne(f, "overview") /\ AtMostOne(f, "pulse")
  BY DEF HomeOK, HomeType
<1>h. ASSUME NEW i \in DOMAIN f
      PROVE  /\ h(i) \in Seq(HomeRequests) /\ Owned(h(i), "pulse", ui.region) /\ f[i] \in HomeRequests
             /\ Waiting(h(i), "overview") => Waiting(f, "overview")
             /\ AtMostOne(h(i), "overview") /\ AtMostOne(h(i), "pulse")
             /\ f[i].what = "overview" /\ f[i].current => ~Waiting(h(i), "overview")
  <2>1. f[i] \in HomeRequests
    BY <1>0
  <2> HIDE DEF f
  <2>2. h(i) \in Seq(HomeRequests) /\ Owned(h(i), "pulse", ui.region) /\ (Waiting(h(i), "overview") => Waiting(f, "overview"))
    BY <1>0, GateAnswered
  <2>3. /\ AtMostOne(h(i), "overview") /\ AtMostOne(h(i), "pulse")
        /\ f[i].what = "overview" /\ f[i].current => ~Waiting(h(i), "overview")
    BY <1>0, OneAnswered
  <2> QED
    BY <2>1, <2>2, <2>3
<1>u. ASSUME NEW i \in DOMAIN f, ui' = [ui EXCEPT !.flying = h(i)]
      PROVE  HomeOK(ui')
  <2>1. /\ h(i) \in Seq(HomeRequests) /\ Owned(h(i), "pulse", ui.region)
        /\ Waiting(h(i), "overview") => Waiting(f, "overview")
        /\ AtMostOne(h(i), "overview") /\ AtMostOne(h(i), "pulse")
    BY <1>h
  <2> HIDE DEF h
  <2>2. /\ ui' \in HomeType /\ ui'.flying = h(i) /\ ui'.evidence = ui.evidence /\ ui'.panelNote = ui.panelNote
        /\ ui'.companies = ui.companies /\ ui'.loading = ui.loading /\ ui'.error = ui.error
        /\ ui'.historicalNote = ui.historicalNote /\ ui'.region = ui.region
    BY <1>0, <1>u, <2>1 DEF HomeType
  <2> QED
    BY <1>0, <2>1, <2>2 DEF HomeOK, ScoresHeld, CompaniesFit
<1>1. ASSUME NEW i \in DOMAIN ui.flying, NEW evidence \in BOOLEAN, NEW macro \in BOOLEAN, OverviewAnswer(i, evidence, macro)
      PROVE  HomeOK(ui')
  <2> DEFINE note == IF evidence THEN None ELSE "hidden"
             s == [ui EXCEPT !.evidence = evidence, !.panelNote = note, !.macro = macro, !.macroNote = ~macro]
  <2>1. f[i].what = "overview" /\ Heard(i, s)
    BY <1>1 DEF OverviewAnswer
  <2>2. (~macro) \in BOOLEAN /\ note \in {None, "validating", "hidden"} /\ (evidence => note = None)
    OBVIOUS
  <2> HIDE DEF note
  <2>3. /\ s \in HomeType /\ s.flying = f /\ s.evidence = evidence /\ s.panelNote = note /\ s.region = ui.region
        /\ s.companies = ui.companies /\ s.loading = ui.loading /\ s.error = ui.error
        /\ s.historicalNote = ui.historicalNote
    BY <1>0, <2>2 DEF HomeType
  <2> HIDE DEF s
  <2>4. CASE ~f[i].current
    <3>1. ui' = [ui EXCEPT !.flying = h(i)]
      BY <2>1, <2>4 DEF Heard
    <3> QED
      BY <1>u, <3>1
  <2>5. CASE f[i].current
    <3>1. ui' = [s EXCEPT !.flying = h(i)]
      BY <2>1, <2>3, <2>5 DEF Heard
    <3>2. Waiting(f, "overview") /\ ~ui.evidence
      BY <1>0, <2>1, <2>5 DEF Waiting, Flying, ScoresHeld
    <3>3. /\ h(i) \in Seq(HomeRequests) /\ Owned(h(i), "pulse", ui.region) /\ ~Waiting(h(i), "overview")
          /\ AtMostOne(h(i), "overview") /\ AtMostOne(h(i), "pulse")
      BY <1>h, <2>1, <2>5
    <3>4. ~ui.loading => ~ui.companies.scored
      BY <1>0, <3>2 DEF ScoresHeld
    <3> HIDE DEF h, f
    <3>5. /\ ui' \in HomeType /\ ui'.flying = h(i) /\ ui'.evidence = evidence /\ ui'.panelNote = note
          /\ ui'.companies = ui.companies /\ ui'.loading = ui.loading /\ ui'.error = ui.error
          /\ ui'.historicalNote = ui.historicalNote /\ ui'.region = ui.region
      BY <2>3, <3>1, <3>3 DEF HomeType
    <3> QED
      BY <1>0, <2>2, <3>3, <3>4, <3>5 DEF HomeOK, ScoresHeld, CompaniesFit
  <2> QED
    BY <2>4, <2>5
<1>2. ASSUME NEW i \in DOMAIN ui.flying, NEW outcome \in {"live", "historical", "failed"}, PulseAnswer(i, outcome)
      PROVE  HomeOK(ui')
  <2> DEFINE failed == outcome = "failed"
             historical == outcome = "historical"
             companies == IF failed THEN NoCompanies
                          ELSE [of |-> f[i].of, historical |-> historical, scored |-> ui.evidence]
             s == [ui EXCEPT !.companies = companies, !.historicalNote = historical, !.error = failed, !.loading = FALSE]
  <2>1. f[i].what = "pulse" /\ Heard(i, s)
    BY <1>2 DEF PulseAnswer, WithPulse
  <2>2. f[i].of \in Regions \cup {"US", None} /\ ui.evidence \in BOOLEAN
    <3>1. f[i] \in HomeRequests
      BY <1>h
    <3> HIDE DEF f
    <3> QED
      BY <1>0, <3>1 DEF HomeRequests, Requests, HomeType
  <2>3. failed \in BOOLEAN /\ historical \in BOOLEAN /\ ~(failed /\ historical)
    OBVIOUS
  <2> HIDE DEF failed, historical
  <2>4. /\ companies \in CompaniesOf /\ (companies.historical => historical)
        /\ (companies.scored => ui.evidence) /\ (~failed => companies.of = f[i].of)
    BY <2>2, <2>3, NoCompaniesIs DEF CompaniesOf
  <2> HIDE DEF companies
  <2>5. /\ s \in HomeType /\ s.flying = f /\ s.evidence = ui.evidence /\ s.panelNote = ui.panelNote /\ s.region = ui.region
        /\ s.companies = companies /\ s.loading = FALSE /\ s.error = failed /\ s.historicalNote = historical
    BY <1>0, <2>3, <2>4 DEF HomeType
  <2> HIDE DEF s
  <2>6. CASE ~f[i].current
    <3>1. ui' = [ui EXCEPT !.flying = h(i)]
      BY <2>1, <2>6 DEF Heard
    <3> QED
      BY <1>u, <3>1
  <2>7. CASE f[i].current
    <3>1. ui' = [s EXCEPT !.flying = h(i)]
      BY <2>1, <2>5, <2>7 DEF Heard
    <3>2. f[i].of = ui.region
      BY <1>0, <2>1, <2>7 DEF Owned
    <3>3. /\ h(i) \in Seq(HomeRequests) /\ Owned(h(i), "pulse", ui.region)
          /\ (Waiting(h(i), "overview") => Waiting(f, "overview"))
          /\ AtMostOne(h(i), "overview") /\ AtMostOne(h(i), "pulse")
      BY <1>h
    <3>4. ui.evidence => ui.panelNote = None /\ ~Waiting(f, "overview")
      BY <1>0 DEF ScoresHeld
    <3> HIDE DEF h, f
    <3>5. /\ ui' \in HomeType /\ ui'.flying = h(i) /\ ui'.evidence = ui.evidence /\ ui'.panelNote = ui.panelNote
          /\ ui'.companies = companies /\ ui'.loading = FALSE /\ ui'.error = failed
          /\ ui'.historicalNote = historical /\ ui'.region = ui.region
      BY <2>5, <3>1, <3>3 DEF HomeType
    <3> QED
      BY <2>4, <3>2, <3>3, <3>4, <3>5 DEF HomeOK, ScoresHeld, CompaniesFit
  <2> QED
    BY <2>6, <2>7
<1>3. ASSUME NEW region \in Regions, SelectRegion(region)
      PROVE  HomeOK(ui')
  <2> DEFINE s == [ui EXCEPT !.region = region]
  <2>1. ui' = PulseStart(s)
    BY <1>3 DEF SelectRegion
  <2>2. /\ s \in HomeType /\ s.flying = f /\ s.evidence = ui.evidence /\ s.panelNote = ui.panelNote
        /\ s.companies = ui.companies /\ s.historicalNote = ui.historicalNote
    BY <1>0 DEF HomeType
  <2>3. /\ s.evidence => s.panelNote = None /\ ~Waiting(s.flying, "overview")
        /\ s.companies.historical => s.historicalNote
        /\ AtMostOne(s.flying, "overview")
    BY <1>0, <2>2 DEF ScoresHeld, CompaniesFit
  <2> HIDE DEF s
  <2> QED
    BY <2>1, <2>2, <2>3, PulseStartKeeps
<1>4. ASSUME RetryHome
      PROVE  HomeOK(ui')
  <2> DEFINE g == Ask(f, "overview", None)
             s == [ui EXCEPT !.evidence = FALSE, !.panelNote = "validating", !.flying = g]
  <2>1. ui' = PulseStart(s)
    BY <1>4 DEF RetryHome, OverviewStart
  <2>2. "US" \in Regions \cup {"US", None}
    OBVIOUS
  <2>3. g \in Seq(HomeRequests) /\ AtMostOne(g, "overview")
    <3> HIDE DEF f
    <3> QED
      BY <1>0, <2>2, AskedHome
  <2> HIDE DEF g
  <2>4. /\ s \in HomeType /\ s.flying = g /\ s.evidence = FALSE /\ s.panelNote = "validating"
        /\ s.companies = ui.companies /\ s.historicalNote = ui.historicalNote
    BY <1>0, <2>3 DEF HomeType
  <2> HIDE DEF s, f
  <2> QED
    BY <1>0, <2>1, <2>3, <2>4, PulseStartKeeps DEF CompaniesFit
<1>5. ASSUME NEW mode \in {"pulse", "chain", "sector"}, SelectMode(mode)
      PROVE  HomeOK(ui')
  <2>1. ui' = [ui EXCEPT !.mode = mode]
    BY <1>5 DEF SelectMode
  <2>2. /\ ui' \in HomeType /\ ui'.flying = f /\ ui'.evidence = ui.evidence /\ ui'.panelNote = ui.panelNote
        /\ ui'.companies = ui.companies /\ ui'.loading = ui.loading /\ ui'.error = ui.error
        /\ ui'.historicalNote = ui.historicalNote /\ ui'.region = ui.region
    BY <1>0, <2>1 DEF HomeType
  <2> QED
    BY <1>0, <2>2 DEF HomeOK, ScoresHeld, CompaniesFit
<1> QED
  BY <1>1, <1>2, <1>3, <1>4, <1>5 DEF HomeNext

LEMMA HomeTold ==
    ASSUME HomeOK(ui)
    PROVE  HomeScoresValidated /\ HomeHistoryMarked /\ HomeShowsSelection
<1>1. /\ ~ui.loading /\ ui.companies.scored => ui.panelNote = None
      /\ ui.companies.historical => ui.historicalNote
      /\ ui.loading => ~ui.error
      /\ ~ui.loading /\ ~ui.error => ui.companies.of = ui.region
  BY DEF HomeOK, ScoresHeld, CompaniesFit
<1>2. Listed(ui).scored => ui.companies.scored
  BY NoCompaniesIs DEF Listed
<1>3. HomeRankings(ui).historical => ui.companies.historical
  BY NoCompaniesIs DEF HomeRankings, Listed
<1>4. "map" \in HomeMap(ui) => ~ui.loading
  BY DEF HomeMap
<1>5. "scores" \in HomeNotices(ui) => ui.panelNote # None
  BY DEF HomeNotices
<1>6. ui.historicalNote => "historical" \in HomeNotices(ui)
  BY DEF HomeNotices
<1>7. ~ui.loading /\ ~ui.error => Listed(ui) # NoCompanies
  <2>1. ui.region # None
    BY HomeConstants DEF HomeOK, HomeType, None
  <2> QED
    BY <1>1, <2>1, NoCompaniesIs DEF Listed
<1>8. ASSUME ui.mode = "pulse" PROVE HomeMap(ui) \in {{"spinner"}, {"error"}, {"map"}}
  <2> DEFINE shown(w) == \/ w = "spinner" /\ ui.loading
                         \/ w = "error" /\ ui.error
                         \/ w = "map" /\ ~ui.loading /\ ~ui.error /\ Listed(ui) # NoCompanies
                         \/ w = "nothing" /\ ~ui.loading /\ ~ui.error /\ Listed(ui) = NoCompanies
  <2>1. HomeMap(ui) = {w \in {"spinner", "error", "map", "nothing"} : shown(w)}
    BY <1>8 DEF HomeMap
  <2>2. ui.loading \in BOOLEAN /\ ui.error \in BOOLEAN
    BY DEF HomeOK, HomeType
  <2>3. CASE ui.loading
    <3>1. \A w : shown(w) <=> w = "spinner"
      BY <1>1, <2>3
    <3> QED
      BY <2>1, <3>1
  <2>4. CASE ~ui.loading /\ ui.error
    <3>1. \A w : shown(w) <=> w = "error"
      BY <1>1, <2>4
    <3> QED
      BY <2>1, <3>1
  <2>5. CASE ~ui.loading /\ ~ui.error
    <3>1. \A w : shown(w) <=> w = "map"
      BY <1>7, <2>5
    <3> QED
      BY <2>1, <3>1
  <2> QED
    BY <2>2, <2>3, <2>4, <2>5
<1> QED
  BY <1>1, <1>2, <1>3, <1>4, <1>5, <1>6, <1>8 DEF HomeScoresValidated, HomeHistoryMarked, HomeShowsSelection

-----------------------------------------------------------------------------
(* The canvas of the heat map *)

Pointed == HeatSymbols \cup {None}

HeatType ==
    [nodes : Nat, layout : {"layer-scatter", "force"}, sims : SUBSET Nat, running : BOOLEAN,
     hovered : [symbol : Pointed, of : Nat], painted : [of : Nat, highlight : Pointed]]

\* Only the nodes given last are simulated.
SimsCurrent(s) == s.sims = (IF s.running THEN {s.nodes} ELSE {})

PaintedCurrent(s) == ~s.running => s.painted = [of |-> s.nodes, highlight |-> s.hovered.symbol]

HeatOK(s) == s \in HeatType /\ SimsCurrent(s) /\ PaintedCurrent(s)

LEMMA DrawnIs ==
    ASSUME NEW s \in HeatType, NEW of \in Nat
    PROVE  /\ NodesDrawn(s, of) \in HeatType
           /\ NodesDrawn(s, of) = [s EXCEPT !.painted = [of |-> of, highlight |-> s.hovered.symbol]]
<1> DEFINE p == [of |-> of, highlight |-> s.hovered.symbol]
<1>1. p \in [of : Nat, highlight : Pointed]
  BY DEF HeatType
<1>2. NodesDrawn(s, of) = [s EXCEPT !.painted = p]
  BY DEF NodesDrawn
<1> HIDE DEF p
<1>3. [s EXCEPT !.painted = p] \in HeatType
  BY <1>1 DEF HeatType
<1> QED
  BY <1>2, <1>3 DEF p

LEMMA RepaintedKeeps ==
    ASSUME NEW s \in HeatType, SimsCurrent(s)
    PROVE  HeatOK(Repainted(s))
<1>1. CASE s.running
  BY <1>1 DEF Repainted, HeatOK, PaintedCurrent
<1>2. CASE ~s.running
  <2> DEFINE t == NodesDrawn(s, s.nodes)
  <2>1. Repainted(s) = t
    BY <1>2 DEF Repainted
  <2>2. s.nodes \in Nat
    BY DEF HeatType
  <2>3. t \in HeatType /\ t = [s EXCEPT !.painted = [of |-> s.nodes, highlight |-> s.hovered.symbol]]
    BY <2>2, DrawnIs
  <2> HIDE DEF t
  <2>4. /\ t.sims = s.sims /\ t.running = s.running /\ t.nodes = s.nodes /\ t.hovered = s.hovered
        /\ t.painted = [of |-> s.nodes, highlight |-> s.hovered.symbol]
    BY <2>3 DEF HeatType
  <2> QED
    BY <2>1, <2>3, <2>4 DEF HeatOK, SimsCurrent, PaintedCurrent
<1> QED
  BY <1>1, <1>2

\* The nodes are the only ones that move from then on.
LEMMA SimulatedKeeps ==
    ASSUME NEW s \in HeatType, s.sims = {}
    PROVE  HeatOK(Simulated(s))
<1> DEFINE sims == s.sims \cup {s.nodes}
           t == Simulated(s)
<1>1. sims \in SUBSET Nat /\ sims = {s.nodes}
  BY DEF HeatType
<1>2. t = [s EXCEPT !.sims = sims, !.running = TRUE]
  BY DEF Simulated
<1> HIDE DEF sims, t
<1>3. t \in HeatType /\ t.sims = sims /\ t.running = TRUE /\ t.nodes = s.nodes
  BY <1>1, <1>2 DEF HeatType
<1>4. HeatOK(t)
  BY <1>1, <1>3 DEF HeatOK, SimsCurrent, PaintedCurrent
<1> QED
  BY <1>4 DEF t

LEMMA HeatStarts == HeatInit => HeatOK(ui)
<1> SUFFICES ASSUME HeatInit PROVE HeatOK(ui)
  OBVIOUS
<1>1. PICK layout \in {"layer-scatter", "force"} :
        ui = Simulated([nodes |-> 1, layout |-> layout, sims |-> {}, running |-> TRUE,
                        hovered |-> NotHovered, painted |-> Unpainted])
  BY DEF HeatInit
<1>2. [nodes |-> 1, layout |-> layout, sims |-> {}, running |-> TRUE,
       hovered |-> NotHovered, painted |-> Unpainted] \in HeatType
  BY DEF HeatType, NotHovered, Unpainted, Pointed
<1> QED
  BY <1>1, <1>2, SimulatedKeeps

LEMMA HeatSteps ==
    ASSUME HeatOK(ui), HeatNext
    PROVE  HeatOK(ui')
<1>0. /\ ui \in HeatType /\ SimsCurrent(ui) /\ PaintedCurrent(ui)
      /\ ui.nodes \in Nat /\ ui.sims \in SUBSET Nat /\ ui.running \in BOOLEAN
  BY DEF HeatOK, HeatType
<1>1. ASSUME NEW layout \in {"layer-scatter", "force"}, NewNodes(layout)
      PROVE  HeatOK(ui')
  <2> DEFINE n == ui.nodes + 1
             sims == ui.sims \ {ui.nodes}
             stopped == [ui EXCEPT !.sims = sims]
             s == Prepared(stopped, layout)
             r == Repainted(s)
             u == Simulated(r)
  <2>1. ui' = u
    BY <1>1 DEF NewNodes
  <2>2. n \in Nat /\ sims \in SUBSET Nat /\ sims = {}
    BY <1>0 DEF SimsCurrent
  <2> HIDE DEF n, sims
  <2>3. stopped \in HeatType /\ stopped.nodes = ui.nodes /\ stopped.sims = {}
    BY <1>0, <2>2 DEF HeatType
  <2> HIDE DEF stopped
  <2>4. s = [stopped EXCEPT !.nodes = n, !.layout = layout]
    BY <2>3 DEF Prepared, n
  <2> HIDE DEF s
  <2>5. s \in HeatType /\ s.sims = {}
    BY <2>2, <2>3, <2>4 DEF HeatType
  <2>6. r \in HeatType /\ r.sims = {}
    <3>1. CASE s.running
      BY <2>5, <3>1 DEF Repainted
    <3>2. CASE ~s.running
      <4>1. r = NodesDrawn(s, s.nodes)
        BY <3>2 DEF Repainted
      <4>2. s.nodes \in Nat
        BY <2>5 DEF HeatType
      <4>3. r \in HeatType /\ r = [s EXCEPT !.painted = [of |-> s.nodes, highlight |-> s.hovered.symbol]]
        BY <2>5, <4>1, <4>2, DrawnIs
      <4> HIDE DEF r
      <4> QED
        BY <2>5, <4>3 DEF HeatType
    <3> QED
      BY <3>1, <3>2
  <2> HIDE DEF r
  <2>7. HeatOK(u)
    BY <2>6, SimulatedKeeps
  <2> HIDE DEF u
  <2> QED
    BY <2>1, <2>7
<1>2. ASSUME NEW of \in ui.sims, HeatTick(of)
      PROVE  HeatOK(ui')
  <2>1. of \in Nat /\ ui.running
    BY <1>0 DEF SimsCurrent
  <2>2. ui' = NodesDrawn(ui, of)
    BY <1>2 DEF HeatTick
  <2>3. ui' \in HeatType /\ ui' = [ui EXCEPT !.painted = [of |-> of, highlight |-> ui.hovered.symbol]]
    BY <1>0, <2>1, <2>2, DrawnIs
  <2>4. ui'.sims = ui.sims /\ ui'.running = ui.running /\ ui'.nodes = ui.nodes
    BY <1>0, <2>3 DEF HeatType
  <2> QED
    BY <1>0, <2>1, <2>3, <2>4 DEF HeatOK, SimsCurrent, PaintedCurrent
<1>3. ASSUME NEW of \in ui.sims, HeatEnd(of)
      PROVE  HeatOK(ui')
  <2> DEFINE d == NodesDrawn(ui, of)
             sims == ui.sims \ {of}
             s == [d EXCEPT !.sims = sims, !.running = FALSE]
  <2>1. of \in Nat /\ sims = {}
    BY <1>0 DEF SimsCurrent
  <2>2. d \in HeatType /\ d = [ui EXCEPT !.painted = [of |-> of, highlight |-> ui.hovered.symbol]]
    BY <1>0, <2>1, DrawnIs
  <2>3. d.sims = ui.sims
    BY <1>0, <2>2 DEF HeatType
  <2>4. ui' = Repainted(s)
    BY <1>3, <2>3 DEF HeatEnd
  <2> HIDE DEF d, sims
  <2>5. s \in HeatType /\ s.sims = {} /\ s.running = FALSE
    BY <2>1, <2>2 DEF HeatType
  <2> HIDE DEF s
  <2> QED
    BY <2>4, <2>5, RepaintedKeeps DEF SimsCurrent
<1>4. ASSUME NEW hovered \in [symbol : Pointed, of : Nat], ui' = Repainted([ui EXCEPT !.hovered = hovered])
      PROVE  HeatOK(ui')
  <2> DEFINE s == [ui EXCEPT !.hovered = hovered]
  <2>1. s \in HeatType /\ s.sims = ui.sims /\ s.running = ui.running /\ s.nodes = ui.nodes
    BY <1>0 DEF HeatType
  <2> HIDE DEF s
  <2>2. SimsCurrent(s)
    BY <1>0, <2>1 DEF SimsCurrent
  <2> QED
    BY <1>4, <2>1, <2>2, RepaintedKeeps DEF s
<1>5. ASSUME NEW symbol \in HeatSymbols, HeatMove(symbol)
      PROVE  HeatOK(ui')
  <2>1. [symbol |-> symbol, of |-> ui.nodes] \in [symbol : Pointed, of : Nat]
    BY <1>0 DEF Pointed
  <2> QED
    BY <1>4, <1>5, <2>1 DEF HeatMove
<1>6. ASSUME HeatLeave
      PROVE  HeatOK(ui')
  <2>1. NotHovered \in [symbol : Pointed, of : Nat]
    BY DEF NotHovered, Pointed
  <2> QED
    BY <1>4, <1>6, <2>1 DEF HeatLeave
<1>7. ASSUME HeatRestart
      PROVE  HeatOK(ui')
  <2>1. ui.sims = {}
    BY <1>0, <1>7 DEF HeatRestart, SimsCurrent
  <2> QED
    BY <1>0, <1>7, <2>1, SimulatedKeeps DEF HeatRestart
<1> QED
  BY <1>1, <1>2, <1>3, <1>5, <1>6, <1>7 DEF HeatNext

LEMMA HeatTold == ASSUME HeatOK(ui) PROVE HeatDrawsCurrent
  BY DEF HeatOK, SimsCurrent, PaintedCurrent, HeatDrawsCurrent

-----------------------------------------------------------------------------
(* The panels around the home page *)

PanelRequests == Requests(PanelsOfHome, {None})

PanelsType ==
    [panel : PanelsOfHome, data : {None, "rows"}, trust : TrustStates \cup {None}, loading : BOOLEAN, error : BOOLEAN,
     flying : Seq(PanelRequests)]

\* One request at a time, and the panel is loading while it is waited for.
OnePanelRequest(s) ==
    /\ \A i \in DOMAIN s.flying : s.flying[i].what = s.panel
    /\ AtMostOne(s.flying, s.panel)
    /\ s.loading <=> Waiting(s.flying, s.panel)
    /\ s.loading => ~s.error /\ s.data = None

\* What is held beside the rows, by panel.
RowsTrusted(s) ==
    /\ s.panel = "sentiment" /\ s.data # None => s.trust \in TrustStates /\ ~s.error
    /\ s.panel = "movers" /\ s.data # None => s.trust \in {"live", "stale"}
    /\ s.panel = "events" /\ ~s.loading /\ ~s.error => s.trust \in TrustStates

PanelsOK(s) == s \in PanelsType /\ OnePanelRequest(s) /\ RowsTrusted(s)

\* A request of the one kind a panel has.
LEMMA PanelAsks ==
    ASSUME NEW panel \in PanelsOfHome, NEW f \in Seq(PanelRequests), \A i \in DOMAIN f : f[i].what = panel
    PROVE  /\ Ask(f, panel, None) \in Seq(PanelRequests) /\ Waiting(Ask(f, panel, None), panel)
           /\ AtMostOne(Ask(f, panel, None), panel)
           /\ \A i \in DOMAIN Ask(f, panel, None) : Ask(f, panel, None)[i].what = panel
<1> DEFINE g == Ask(f, panel, None)
<1>1. None \in {None}
  OBVIOUS
<1>2. g \in Seq(PanelRequests) /\ Waiting(g, panel)
  BY <1>1, GateAsk DEF PanelRequests
<1>3. AtMostOne(g, panel)
  BY <1>1, OneAsked DEF PanelRequests
<1>4. /\ Len(g) = Len(f) + 1 /\ DOMAIN g = 1 .. Len(f) + 1
      /\ g[Len(f) + 1] = [what |-> panel, of |-> None, current |-> TRUE]
      /\ \A i \in DOMAIN f : g[i] = Outdated(f[i], panel)
  BY AskIs
<1>5. \A i \in DOMAIN f : Outdated(f[i], panel).what = panel
  <2> TAKE i \in DOMAIN f
  <2>1. f[i] \in PanelRequests
    OBVIOUS
  <2> QED
    BY <2>1, OutdatedIs DEF PanelRequests
<1>6. DOMAIN f = 1 .. Len(f) /\ Len(f) \in Nat
  OBVIOUS
<1> HIDE DEF g
<1>7. \A i \in DOMAIN g : g[i].what = panel
  BY <1>4, <1>5, <1>6
<1> QED
  BY <1>2, <1>3, <1>7 DEF g

LEMMA FreshPanelIs ==
    ASSUME NEW panel \in PanelsOfHome
    PROVE  /\ PanelsOK(FreshPanel(panel)) /\ FreshPanel(panel).panel = panel
           /\ FreshPanel(panel).loading = TRUE /\ FreshPanel(panel).error = FALSE /\ FreshPanel(panel).data = None
           /\ FreshPanel(panel).trust = None
<1> DEFINE f == <<>>
           g == Ask(f, panel, None)
           s == FreshPanel(panel)
<1>1. f \in Seq(PanelRequests) /\ \A i \in DOMAIN f : f[i].what = panel
  OBVIOUS
<1>2. s = [panel |-> panel, data |-> None, trust |-> None, loading |-> TRUE, error |-> FALSE, flying |-> g]
  BY DEF FreshPanel
<1> HIDE DEF f
<1>3. /\ g \in Seq(PanelRequests) /\ Waiting(g, panel) /\ AtMostOne(g, panel)
      /\ \A i \in DOMAIN g : g[i].what = panel
  BY <1>1, PanelAsks
<1> HIDE DEF g
<1>4. /\ s \in PanelsType /\ s.panel = panel /\ s.loading = TRUE /\ s.error = FALSE /\ s.data = None /\ s.trust = None
      /\ s.flying = g
  BY <1>2, <1>3 DEF PanelsType
<1> HIDE DEF s
<1>5. PanelsOK(s)
  BY <1>3, <1>4 DEF PanelsOK, OnePanelRequest, RowsTrusted
<1> QED
  BY <1>4, <1>5 DEF s

LEMMA PanelsStart == PanelsInit => PanelsOK(ui)
  BY FreshPanelIs DEF PanelsInit

LEMMA PanelsStep ==
    ASSUME PanelsOK(ui), PanelsNext
    PROVE  PanelsOK(ui')
<1> DEFINE f == ui.flying
           h(i) == Answered(f, i)
<1>0. /\ ui \in PanelsType /\ OnePanelRequest(ui) /\ RowsTrusted(ui) /\ f \in Seq(PanelRequests)
      /\ ui.panel \in PanelsOfHome /\ (\A i \in DOMAIN f : f[i].what = ui.panel) /\ AtMostOne(f, ui.panel)
  BY DEF PanelsOK, PanelsType, OnePanelRequest
<1>h. ASSUME NEW i \in DOMAIN f
      PROVE  /\ h(i) \in Seq(PanelRequests) /\ (\A j \in DOMAIN h(i) : h(i)[j].what = ui.panel)
             /\ AtMostOne(h(i), ui.panel)
             /\ f[i].current => ~Waiting(h(i), ui.panel)
             /\ ~f[i].current => (Waiting(h(i), ui.panel) <=> Waiting(f, ui.panel))
  <2>0. f[i].what = ui.panel
    BY <1>0
  <2> HIDE DEF f
  <2>1. /\ h(i) \in Seq(PanelRequests)
        /\ ~f[i].current => (Waiting(h(i), ui.panel) <=> Waiting(f, ui.panel))
    BY <1>0, GateAnswered
  <2>2. AtMostOne(h(i), ui.panel) /\ (f[i].current => ~Waiting(h(i), ui.panel))
    BY <1>0, <2>0, OneAnswered
  <2>3. \A j \in DOMAIN h(i) : \E k \in DOMAIN f \ {i} : h(i)[j] = f[k]
    BY <1>0, OthersStay
  <2> HIDE DEF h
  <2>4. \A j \in DOMAIN h(i) : h(i)[j].what = ui.panel
    BY <1>0, <2>3
  <2> QED
    BY <2>1, <2>2, <2>4
\* Every answer that is taken ends the loading.
<1>a. ASSUME NEW i \in DOMAIN f, NEW data \in {None, "rows"}, NEW trust \in TrustStates \cup {None}, NEW error \in BOOLEAN,
             NEW s, s = [ui EXCEPT !.data = data, !.trust = trust, !.error = error, !.loading = FALSE],
             Heard(i, s),
             f[i].current => RowsTrusted(s)
      PROVE  PanelsOK(ui')
  <2>1. /\ s \in PanelsType /\ s.panel = ui.panel /\ s.flying = f /\ s.loading = FALSE /\ s.data = data
        /\ s.trust = trust /\ s.error = error
    BY <1>0, <1>a DEF PanelsType
  <2>2. /\ h(i) \in Seq(PanelRequests) /\ (\A j \in DOMAIN h(i) : h(i)[j].what = ui.panel)
        /\ AtMostOne(h(i), ui.panel)
        /\ f[i].current => ~Waiting(h(i), ui.panel)
        /\ ~f[i].current => (Waiting(h(i), ui.panel) <=> Waiting(f, ui.panel))
    BY <1>h
  <2>3. CASE f[i].current
    <3>1. ui' = [s EXCEPT !.flying = h(i)]
      BY <1>a, <2>1, <2>3 DEF Heard
    <3> HIDE DEF h
    <3>2. /\ ui' \in PanelsType /\ ui'.panel = s.panel /\ ui'.flying = h(i) /\ ui'.loading = FALSE
          /\ ui'.data = s.data /\ ui'.trust = s.trust /\ ui'.error = s.error
      BY <2>1, <2>2, <3>1 DEF PanelsType
    <3>3. RowsTrusted(ui')
      BY <1>a, <2>1, <2>3, <3>2 DEF RowsTrusted
    <3> QED
      BY <2>1, <2>2, <2>3, <3>2, <3>3 DEF PanelsOK, OnePanelRequest
  <2>4. CASE ~f[i].current
    <3>1. ui' = [ui EXCEPT !.flying = h(i)]
      BY <1>a, <2>4 DEF Heard
    <3> HIDE DEF h
    <3>2. /\ ui' \in PanelsType /\ ui'.panel = ui.panel /\ ui'.flying = h(i) /\ ui'.loading = ui.loading
          /\ ui'.data = ui.data /\ ui'.trust = ui.trust /\ ui'.error = ui.error
      BY <1>0, <2>2, <3>1 DEF PanelsType
    <3>3. RowsTrusted(ui')
      BY <1>0, <3>2 DEF RowsTrusted
    <3> QED
      BY <1>0, <2>2, <2>4, <3>2, <3>3 DEF PanelsOK, OnePanelRequest
  <2> QED
    BY <2>3, <2>4
<1>n. None \in {None, "rows"} /\ None \notin TrustStates /\ "unavailable" \in TrustStates
  BY DEF None, TrustStates
<1>w. ASSUME NEW i \in DOMAIN f, f[i].current PROVE ui.loading /\ ~ui.error /\ ui.data = None
  BY <1>0, <1>w DEF OnePanelRequest, Waiting, Flying
<1>1. ASSUME RemountPanel PROVE PanelsOK(ui')
  <2> DEFINE s == FreshPanel(ui.panel)
             g == Ask(f, ui.panel, None)
  <2>1. ui' = [s EXCEPT !.flying = g]
    BY <1>1 DEF RemountPanel
  <2>2. /\ PanelsOK(s) /\ s.panel = ui.panel /\ s.loading = TRUE /\ s.error = FALSE /\ s.data = None /\ s.trust = None
    BY <1>0, FreshPanelIs
  <2>3. /\ g \in Seq(PanelRequests) /\ Waiting(g, ui.panel) /\ AtMostOne(g, ui.panel)
        /\ \A i \in DOMAIN g : g[i].what = ui.panel
    <3> HIDE DEF f
    <3> QED
      BY <1>0, PanelAsks
  <2> HIDE DEF s, g
  <2>4. /\ ui' \in PanelsType /\ ui'.panel = ui.panel /\ ui'.loading = TRUE /\ ui'.error = FALSE /\ ui'.data = None
        /\ ui'.trust = None /\ ui'.flying = g
    BY <2>1, <2>2, <2>3 DEF PanelsOK, PanelsType
  <2> QED
    BY <2>3, <2>4 DEF PanelsOK, OnePanelRequest, RowsTrusted
<1>2. ASSUME RetryPanel PROVE PanelsOK(ui')
  <2> DEFINE g == Ask(f, ui.panel, None)
  <2>1. /\ ui' = [ui EXCEPT !.loading = TRUE, !.error = FALSE, !.flying = g] /\ ui.data = None
        /\ ui.panel \in {"anomalies", "movers"}
    BY <1>2 DEF RetryPanel
  <2>2. /\ g \in Seq(PanelRequests) /\ Waiting(g, ui.panel) /\ AtMostOne(g, ui.panel)
        /\ \A i \in DOMAIN g : g[i].what = ui.panel
    <3> HIDE DEF f
    <3> QED
      BY <1>0, PanelAsks
  <2> HIDE DEF g
  <2>3. /\ ui' \in PanelsType /\ ui'.panel = ui.panel /\ ui'.loading = TRUE /\ ui'.error = FALSE
        /\ ui'.data = ui.data /\ ui'.trust = ui.trust /\ ui'.flying = g
    BY <1>0, <2>1, <2>2 DEF PanelsType
  <2> QED
    BY <2>1, <2>2, <2>3 DEF PanelsOK, OnePanelRequest, RowsTrusted
<1>3. ASSUME NEW i \in DOMAIN ui.flying, PanelRefused(i) PROVE PanelsOK(ui')
  <2> DEFINE trust == IF ui.panel = "movers" THEN "unavailable" ELSE None
             s == [ui EXCEPT !.data = None, !.trust = trust, !.error = TRUE, !.loading = FALSE]
  <2>1. Heard(i, s)
    BY <1>3 DEF PanelRefused
  <2>2. trust \in TrustStates \cup {None} /\ TRUE \in BOOLEAN
    BY <1>n
  <2> HIDE DEF trust
  <2>3. RowsTrusted(s)
    BY <1>0 DEF RowsTrusted, PanelsType
  <2>4. s = [ui EXCEPT !.data = None, !.trust = trust, !.error = TRUE, !.loading = FALSE]
    OBVIOUS
  <2> HIDE DEF s
  <2> QED
    BY <1>a, <1>n, <2>1, <2>2, <2>3, <2>4
<1>4. ASSUME NEW i \in DOMAIN ui.flying, NEW body \in BOOLEAN, AnomaliesAnswer(i, body) PROVE PanelsOK(ui')
  <2> DEFINE data == IF body THEN "rows" ELSE ui.data
             s == [ui EXCEPT !.data = data, !.loading = FALSE]
  <2>1. Heard(i, s) /\ ui.panel = "anomalies"
    BY <1>4 DEF AnomaliesAnswer
  <2>2. data \in {None, "rows"} /\ ui.trust \in TrustStates \cup {None} /\ ui.error \in BOOLEAN
    BY <1>0 DEF PanelsType
  <2> HIDE DEF data
  <2>3. RowsTrusted(s)
    BY <1>0, <2>1 DEF RowsTrusted, PanelsType
  <2>4. s = [ui EXCEPT !.data = data, !.trust = ui.trust, !.error = ui.error, !.loading = FALSE]
    BY <1>0 DEF PanelsType
  <2> HIDE DEF s
  <2> QED
    BY <1>a, <2>1, <2>2, <2>3, <2>4
<1>5. ASSUME NEW i \in DOMAIN ui.flying, NEW trust \in TrustStates, TrustedAnswer(i, trust) PROVE PanelsOK(ui')
  <2> DEFINE s == [ui EXCEPT !.data = "rows", !.trust = trust, !.loading = FALSE]
  <2>1. Heard(i, s) /\ ui.panel \in {"sentiment", "events"}
    BY <1>5 DEF TrustedAnswer
  <2>2. "rows" \in {None, "rows"} /\ trust \in TrustStates \cup {None} /\ ui.error \in BOOLEAN
    BY <1>0 DEF PanelsType
  <2>3. f[i].current => RowsTrusted(s)
    BY <1>0, <1>w, <2>1 DEF RowsTrusted, PanelsType
  <2>4. s = [ui EXCEPT !.data = "rows", !.trust = trust, !.error = ui.error, !.loading = FALSE]
    BY <1>0 DEF PanelsType
  <2> HIDE DEF s
  <2> QED
    BY <1>a, <2>1, <2>2, <2>3, <2>4
<1>6. ASSUME NEW i \in DOMAIN ui.flying, NEW trust \in TrustStates, MoversAnswer(i, trust) PROVE PanelsOK(ui')
  <2> DEFINE data == IF trust = "unavailable" THEN None ELSE "rows"
             error == trust # "live"
             s == [ui EXCEPT !.data = data, !.trust = trust, !.error = error, !.loading = FALSE]
  <2>1. Heard(i, s) /\ ui.panel = "movers"
    BY <1>6 DEF MoversAnswer
  <2>2. data \in {None, "rows"} /\ trust \in TrustStates \cup {None} /\ (data # None => trust \in {"live", "stale"})
    BY DEF TrustStates
  <2>3. error \in BOOLEAN
    OBVIOUS
  <2> HIDE DEF data, error
  <2>4. RowsTrusted(s)
    BY <1>0, <2>1, <2>2 DEF RowsTrusted, PanelsType
  <2>5. s = [ui EXCEPT !.data = data, !.trust = trust, !.error = error, !.loading = FALSE]
    OBVIOUS
  <2> HIDE DEF s
  <2> QED
    BY <1>a, <2>1, <2>2, <2>3, <2>4, <2>5
<1> QED
  BY <1>1, <1>2, <1>3, <1>4, <1>5, <1>6 DEF PanelsNext

LEMMA PanelsTold ==
    ASSUME PanelsOK(ui)
    PROVE  PanelsTrusted /\ PanelsNeverStuck
<1>0. ui \in PanelsType /\ OnePanelRequest(ui) /\ RowsTrusted(ui)
  BY DEF PanelsOK
<1>1. PanelsNeverStuck
  BY <1>0 DEF PanelsNeverStuck, OnePanelRequest
<1> DEFINE shown == PanelShows(ui)
           Labelled == {"rows", "badges"} \cap shown # {} =>
                          /\ ui.trust \in {"live", "stale"}
                          /\ ui.trust = "stale" => "stale" \in shown
                          /\ {"loading", "unavailable"} \cap shown = {}
<1>2. CASE ui.panel = "anomalies"
  <2>1. shown = AnomaliesShow(ui)
    BY <1>2 DEF PanelShows
  <2> QED
    BY <1>1, <2>1 DEF AnomaliesShow, PanelsTrusted
<1>3. CASE ui.panel = "sentiment"
  <2>1. shown = SentimentShows(ui)
    BY <1>3 DEF PanelShows
  <2> HIDE DEF shown
  <2>2. ui.data # None => ui.trust \in TrustStates /\ ~ui.error /\ ~ui.loading
    BY <1>0, <1>3 DEF RowsTrusted, OnePanelRequest
  <2>3. CASE ui.data # None
    <3>1. Labelled
      BY <2>1, <2>2, <2>3 DEF SentimentShows, TrustStates
    <3> QED
      BY <1>1, <3>1 DEF PanelsTrusted, shown
  <2>4. CASE ui.data = None
    <3>1. {"rows", "badges"} \cap shown = {}
      BY <1>0, <2>1, <2>4 DEF SentimentShows, PanelsType, TrustStates, None
    <3> QED
      BY <1>1, <3>1 DEF PanelsTrusted, shown
  <2> QED
    BY <2>3, <2>4
<1>4. CASE ui.panel = "movers"
  <2>1. shown = MoversShow(ui)
    BY <1>4 DEF PanelShows
  <2> HIDE DEF shown
  <2>2. Labelled
    BY <1>0, <1>4, <2>1 DEF MoversShow, RowsTrusted
  <2> QED
    BY <1>1, <2>2 DEF PanelsTrusted, shown
<1>5. CASE ui.panel = "events"
  <2>1. shown = EventsShow(ui)
    BY <1>5 DEF PanelShows
  <2> HIDE DEF shown
  <2>2. Labelled
    BY <1>0, <1>5, <2>1 DEF EventsShow, RowsTrusted, TrustStates
  <2> QED
    BY <1>1, <2>2 DEF PanelsTrusted, shown
<1>6. ui.panel \in {"anomalies", "sentiment", "movers", "events"}
  BY <1>0 DEF PanelsType, PanelsOfHome
<1> QED
  BY <1>2, <1>3, <1>4, <1>5, <1>6

-----------------------------------------------------------------------------
(* The flash news *)

Importances == {"all", "important"}
KindsAsked == Kinds \cup {"all"}

FlashFilter == [importance : Importances, kind : KindsAsked]

FlashRequests == Requests({"flash", "calendar"}, FlashFilter \cup {None})

FlashNews == [importance : Importances, kind : KindsAsked, stale : BOOLEAN]

FlashType ==
    [importance : Importances, kind : KindsAsked, items : SUBSET FlashNews, loading : BOOLEAN, error : BOOLEAN,
     degraded : BOOLEAN, paused : BOOLEAN, calendar : {None, "stale", "live"}, calendarError : BOOLEAN,
     flying : Seq(FlashRequests)]

\* A call for the news asks with filters there are, and is taken when it is answered.
FlashAsked(f) == \A i \in DOMAIN f : f[i].current /\ (f[i].what = "flash" => f[i].of \in FlashFilter)

\* News stay until another answer or a failure, which says what became of them.
NewsTold(s) ==
    /\ s.error => s.items = {}
    /\ \A news \in s.items : news.stale => s.degraded

FlashOK(s) ==
    /\ s \in FlashType
    /\ FlashAsked(s.flying)
    /\ NewsTold(s)
    /\ s.loading => Waiting(s.flying, "flash")

\* A call with the filters of now leaves the news as they are.
LEMMA FetchFlashKeeps ==
    ASSUME NEW s \in FlashType, FlashAsked(s.flying), NewsTold(s), NEW silent \in BOOLEAN,
           s.loading => Waiting(s.flying, "flash")
    PROVE  FlashOK(FetchFlash(s, silent))
<1> DEFINE of == [importance |-> s.importance, kind |-> s.kind]
           new == [what |-> "flash", of |-> of, current |-> TRUE]
           f == s.flying
           g == Append(f, new)
           loading == s.loading \/ ~silent
           t == FetchFlash(s, silent)
<1>1. t = [s EXCEPT !.loading = loading, !.flying = g]
  BY DEF FetchFlash
<1>2. f \in Seq(FlashRequests) /\ s.loading \in BOOLEAN
  BY DEF FlashType
<1>3. loading \in BOOLEAN
  OBVIOUS
<1>4. of \in FlashFilter
  BY DEF FlashType, FlashFilter
<1> HIDE DEF of, f
<1>5. new \in FlashRequests /\ new.what = "flash" /\ new.of \in FlashFilter /\ new.current
  BY <1>4 DEF FlashRequests, Requests
<1> HIDE DEF new
<1>6. g \in Seq(FlashRequests) /\ Waiting(g, "flash")
  BY <1>2, <1>5, GateMore
<1>7. \A i \in DOMAIN g : (i = Len(f) + 1 /\ g[i] = new) \/ (i \in DOMAIN f /\ g[i] = f[i])
  BY <1>2, OneMore
<1> HIDE DEF g, loading
<1>8. FlashAsked(g)
  BY <1>5, <1>7 DEF FlashAsked, f
<1> HIDE DEF t
<1>9. /\ t \in FlashType /\ t.flying = g /\ t.items = s.items /\ t.error = s.error /\ t.degraded = s.degraded
  BY <1>1, <1>3, <1>6 DEF FlashType
<1>10. FlashOK(t)
  BY <1>6, <1>8, <1>9 DEF FlashOK, NewsTold
<1> QED
  BY <1>10 DEF t

LEMMA FetchCalendarKeeps ==
    ASSUME NEW s, FlashOK(s)
    PROVE  FlashOK(FetchCalendar(s))
<1> DEFINE new == [what |-> "calendar", of |-> None, current |-> TRUE]
           f == s.flying
           g == AskOnce(f, "calendar")
           t == FetchCalendar(s)
<1>1. t = [s EXCEPT !.calendarError = FALSE, !.flying = g]
  BY DEF FetchCalendar
<1>2. f \in Seq(FlashRequests) /\ s \in FlashType /\ FlashAsked(f)
  BY DEF FlashType, FlashOK
<1>3. new \in FlashRequests /\ new.what = "calendar" /\ new.current
  BY DEF FlashRequests, Requests
<1> HIDE DEF f
<1>4. /\ g \in Seq(FlashRequests)
      /\ \A k \in DOMAIN f : k \in DOMAIN g /\ g[k] = f[k]
      /\ \A j \in DOMAIN g : (j \in DOMAIN f /\ g[j] = f[j]) \/ g[j] = new
  BY <1>2, <1>3, AskOnceIs
<1> HIDE DEF g, new
<1>5. FlashAsked(g) /\ (Waiting(f, "flash") => Waiting(g, "flash"))
  BY <1>2, <1>3, <1>4 DEF FlashAsked, Waiting, Flying
<1> HIDE DEF t
<1>6. /\ t \in FlashType /\ t.flying = g /\ t.items = s.items /\ t.error = s.error /\ t.degraded = s.degraded
      /\ t.loading = s.loading
  BY <1>1, <1>2, <1>4 DEF FlashType
<1>7. FlashOK(t)
  BY <1>5, <1>6 DEF FlashOK, NewsTold, f
<1> QED
  BY <1>7 DEF t

\* While the calendar is said to load there is a call to wait for.
CalendarWaits(s) == CalendarStatus(s) = "loading" => Waiting(s.flying, "calendar")

LEMMA FetchCalendarWaits ==
    ASSUME NEW s, FlashOK(s)
    PROVE  CalendarWaits(FetchCalendar(s))
<1> DEFINE new == [what |-> "calendar", of |-> None, current |-> TRUE]
           f == s.flying
           g == AskOnce(f, "calendar")
           t == FetchCalendar(s)
<1>1. t = [s EXCEPT !.calendarError = FALSE, !.flying = g]
  BY DEF FetchCalendar
<1>2. f \in Seq(FlashRequests) /\ s \in FlashType /\ FlashAsked(f)
  BY DEF FlashType, FlashOK
<1>3. new \in FlashRequests /\ new.current
  BY DEF FlashRequests, Requests
<1> HIDE DEF f
<1>4. /\ \E i \in DOMAIN g : g[i].what = "calendar"
      /\ \A j \in DOMAIN g : (j \in DOMAIN f /\ g[j] = f[j]) \/ g[j] = new
  BY <1>2, <1>3, AskOnceIs
<1> HIDE DEF g, new
<1>5. Waiting(g, "calendar")
  BY <1>2, <1>3, <1>4 DEF FlashAsked, Waiting, Flying
<1> HIDE DEF t
<1>6. t.flying = g
  BY <1>1, <1>2 DEF FlashType
<1>7. CalendarWaits(t)
  BY <1>5, <1>6 DEF CalendarWaits
<1> QED
  BY <1>7 DEF t

LEMMA FlashStarts == FlashInit => FlashOK(ui) /\ CalendarWaits(ui)
<1> SUFFICES ASSUME FlashInit PROVE FlashOK(ui) /\ CalendarWaits(ui)
  OBVIOUS
<1> DEFINE f == <<>>
           s == [importance |-> "all", kind |-> "all", items |-> {}, loading |-> FALSE,
                 error |-> FALSE, degraded |-> FALSE, paused |-> FALSE,
                 calendar |-> None, calendarError |-> FALSE, flying |-> f]
<1>1. ui = FetchCalendar(FetchFlash(s, FALSE))
  BY DEF FlashInit
<1>2. f \in Seq(FlashRequests) /\ DOMAIN f = {}
  OBVIOUS
<1> HIDE DEF f
<1>3. s \in FlashType /\ s.flying = f /\ s.items = {} /\ s.loading = FALSE
  BY <1>2 DEF FlashType, Importances, KindsAsked
<1>4. FlashAsked(f)
  BY <1>2 DEF FlashAsked
<1> HIDE DEF s
<1>5. FALSE \in BOOLEAN
  OBVIOUS
<1>6. FlashOK(FetchFlash(s, FALSE))
  BY <1>3, <1>4, <1>5, FetchFlashKeeps DEF NewsTold
<1> QED
  BY <1>1, <1>6, FetchCalendarKeeps, FetchCalendarWaits

LEMMA FlashSteps ==
    ASSUME FlashOK(ui), FlashNext
    PROVE  FlashOK(ui')
<1> DEFINE f == ui.flying
           h(i) == Answered(f, i)
<1>0. /\ ui \in FlashType /\ f \in Seq(FlashRequests) /\ FlashAsked(f) /\ NewsTold(ui)
      /\ ui.loading => Waiting(f, "flash")
  BY DEF FlashOK, FlashType
<1>1. ASSUME NEW importance \in {"all", "important"}, SetImportance(importance) PROVE FlashOK(ui')
  <2> DEFINE s == [ui EXCEPT !.importance = importance]
  <2>1. ui' = FetchFlash(s, TRUE) /\ TRUE \in BOOLEAN
    BY <1>1 DEF SetImportance
  <2>2. /\ s \in FlashType /\ s.flying = f /\ s.items = ui.items /\ s.error = ui.error /\ s.degraded = ui.degraded
        /\ s.loading = ui.loading
    BY <1>0 DEF FlashType, Importances
  <2> HIDE DEF s
  <2>3. FlashAsked(s.flying) /\ NewsTold(s) /\ (s.loading => Waiting(s.flying, "flash"))
    BY <1>0, <2>2 DEF NewsTold
  <2> QED
    BY <2>1, <2>2, <2>3, FetchFlashKeeps
<1>2. ASSUME NEW kind \in Kinds \cup {"all"}, SetKind(kind) PROVE FlashOK(ui')
  <2> DEFINE s == [ui EXCEPT !.kind = kind]
  <2>1. ui' = FetchFlash(s, TRUE) /\ TRUE \in BOOLEAN
    BY <1>2 DEF SetKind
  <2>2. /\ s \in FlashType /\ s.flying = f /\ s.items = ui.items /\ s.error = ui.error /\ s.degraded = ui.degraded
        /\ s.loading = ui.loading
    BY <1>0 DEF FlashType, KindsAsked
  <2> HIDE DEF s
  <2>3. FlashAsked(s.flying) /\ NewsTold(s) /\ (s.loading => Waiting(s.flying, "flash"))
    BY <1>0, <2>2 DEF NewsTold
  <2> QED
    BY <2>1, <2>2, <2>3, FetchFlashKeeps
<1>p. ASSUME NEW paused \in BOOLEAN
      PROVE  LET s == [ui EXCEPT !.paused = paused]
             IN  s \in FlashType /\ FlashOK(s)
  <2> DEFINE s == [ui EXCEPT !.paused = paused]
  <2>2. /\ s \in FlashType /\ s.flying = f /\ s.items = ui.items /\ s.error = ui.error /\ s.degraded = ui.degraded
        /\ s.loading = ui.loading
    BY <1>0 DEF FlashType
  <2> HIDE DEF s
  <2>3. FlashOK(s)
    BY <1>0, <2>2 DEF NewsTold, FlashOK
  <2> QED
    BY <2>2, <2>3 DEF s
<1>3. ASSUME SetPaused PROVE FlashOK(ui')
  <2>1. CASE ui.paused
    <3> DEFINE s == [ui EXCEPT !.paused = FALSE]
    <3>1. ui' = FetchFlash(s, TRUE) /\ TRUE \in BOOLEAN
      BY <1>3, <2>1 DEF SetPaused
    <3>2. s \in FlashType /\ FlashOK(s)
      BY <1>p
    <3> HIDE DEF s
    <3> QED
      BY <3>1, <3>2, FetchFlashKeeps DEF FlashOK
  <2>2. CASE ~ui.paused
    <3>1. ui' = [ui EXCEPT !.paused = TRUE]
      BY <1>3, <2>2 DEF SetPaused
    <3> QED
      BY <1>p, <3>1
  <2> QED
    BY <2>1, <2>2
<1>4. ASSUME FlashPoll \/ RefreshFlash PROVE FlashOK(ui')
  <2>1. PICK silent \in BOOLEAN : ui' = FetchFlash(ui, silent)
    BY <1>4 DEF FlashPoll, RefreshFlash
  <2> QED
    BY <1>0, <2>1, FetchFlashKeeps
<1>5. ASSUME RefreshCalendar PROVE FlashOK(ui')
  BY <1>5, FetchCalendarKeeps DEF RefreshCalendar
<1>h. ASSUME NEW i \in DOMAIN f
      PROVE  /\ h(i) \in Seq(FlashRequests) /\ FlashAsked(h(i)) /\ f[i] \in FlashRequests
             /\ f[i].what # "flash" /\ Waiting(f, "flash") => Waiting(h(i), "flash")
  <2>1. f[i] \in FlashRequests
    BY <1>0
  <2> HIDE DEF f
  <2>2. /\ h(i) \in Seq(FlashRequests)
        /\ f[i].what # "flash" /\ Waiting(f, "flash") => Waiting(h(i), "flash")
    BY <1>0, GateAnswered
  <2>3. \A j \in DOMAIN h(i) : \E k \in DOMAIN f \ {i} : h(i)[j] = f[k]
    BY <1>0, OthersStay
  <2> HIDE DEF h
  <2>4. FlashAsked(h(i))
    BY <1>0, <2>3 DEF FlashAsked
  <2> QED
    BY <2>1, <2>2, <2>4
<1>6. ASSUME NEW i \in DOMAIN ui.flying, NEW stale \in BOOLEAN, FlashAnswer(i, stale) PROVE FlashOK(ui')
  <2> DEFINE of == f[i].of
             items == {[importance |-> of.importance, kind |-> of.kind, stale |-> stale]}
             s == [ui EXCEPT !.items = items, !.degraded = stale, !.loading = FALSE, !.error = FALSE]
  <2>1. f[i].what = "flash" /\ Taken(i, s)
    BY <1>6 DEF FlashAnswer
  <2>2. of \in FlashFilter
    BY <1>0, <2>1 DEF FlashAsked
  <2> HIDE DEF of
  <2>3. items \subseteq FlashNews /\ \A news \in items : news.stale = stale
    BY <2>2 DEF FlashFilter, FlashNews
  <2> HIDE DEF items
  <2>4. s \in FlashType /\ s.flying = f /\ s.items = items /\ s.degraded = stale /\ s.loading = FALSE /\ s.error = FALSE
    BY <1>0, <2>3 DEF FlashType
  <2>5. h(i) \in Seq(FlashRequests) /\ FlashAsked(h(i))
    BY <1>h
  <2> HIDE DEF s
  <2>6. ui' = [s EXCEPT !.flying = h(i)]
    BY <2>1, <2>4 DEF Taken
  <2> HIDE DEF h
  <2>7. /\ ui' \in FlashType /\ ui'.flying = h(i) /\ ui'.items = items /\ ui'.degraded = stale
        /\ ui'.loading = FALSE /\ ui'.error = FALSE
    BY <2>4, <2>5, <2>6 DEF FlashType
  <2> QED
    BY <2>3, <2>5, <2>7 DEF FlashOK, NewsTold
<1>7. ASSUME NEW i \in DOMAIN ui.flying, FlashFailed(i) PROVE FlashOK(ui')
  <2> DEFINE s == [ui EXCEPT !.items = {}, !.degraded = TRUE, !.loading = FALSE, !.error = TRUE]
  <2>1. Taken(i, s)
    BY <1>7 DEF FlashFailed
  <2>2. s \in FlashType /\ s.flying = f /\ s.items = {} /\ s.loading = FALSE
    BY <1>0 DEF FlashType
  <2>3. h(i) \in Seq(FlashRequests) /\ FlashAsked(h(i))
    BY <1>h
  <2> HIDE DEF s
  <2>4. ui' = [s EXCEPT !.flying = h(i)]
    BY <2>1, <2>2 DEF Taken
  <2> HIDE DEF h
  <2>5. ui' \in FlashType /\ ui'.flying = h(i) /\ ui'.items = {} /\ ui'.loading = FALSE
    BY <2>2, <2>3, <2>4 DEF FlashType
  <2> QED
    BY <2>3, <2>5 DEF FlashOK, NewsTold
<1>c. ASSUME NEW i \in DOMAIN f, NEW calendar \in {None, "stale", "live"}, NEW error \in BOOLEAN,
             f[i].what = "calendar", Taken(i, [ui EXCEPT !.calendar = calendar, !.calendarError = error])
      PROVE  FlashOK(ui')
  <2> DEFINE s == [ui EXCEPT !.calendar = calendar, !.calendarError = error]
  <2>1. Taken(i, s)
    BY <1>c
  <2>2. /\ s \in FlashType /\ s.flying = f /\ s.items = ui.items /\ s.loading = ui.loading /\ s.error = ui.error
        /\ s.degraded = ui.degraded
    BY <1>0 DEF FlashType
  <2>3. h(i) \in Seq(FlashRequests) /\ FlashAsked(h(i)) /\ (Waiting(f, "flash") => Waiting(h(i), "flash"))
    BY <1>h, <1>c
  <2> HIDE DEF s
  <2>4. ui' = [s EXCEPT !.flying = h(i)]
    BY <2>1, <2>2 DEF Taken
  <2> HIDE DEF h
  <2>5. /\ ui' \in FlashType /\ ui'.flying = h(i) /\ ui'.items = ui.items /\ ui'.loading = ui.loading
        /\ ui'.error = ui.error /\ ui'.degraded = ui.degraded
    BY <2>2, <2>3, <2>4 DEF FlashType
  <2> QED
    BY <1>0, <2>3, <2>5 DEF FlashOK, NewsTold
<1>8. ASSUME NEW i \in DOMAIN ui.flying, NEW stale \in BOOLEAN, CalendarAnswer(i, stale) PROVE FlashOK(ui')
  <2> DEFINE calendar == IF stale THEN "stale" ELSE "live"
  <2>1. f[i].what = "calendar" /\ Taken(i, [ui EXCEPT !.calendar = calendar, !.calendarError = FALSE])
    BY <1>8 DEF CalendarAnswer
  <2>2. calendar \in {None, "stale", "live"} /\ FALSE \in BOOLEAN
    OBVIOUS
  <2> HIDE DEF calendar
  <2> QED
    BY <1>c, <2>1, <2>2
<1>9. ASSUME NEW i \in DOMAIN ui.flying, CalendarFailed(i) PROVE FlashOK(ui')
  <2>1. f[i].what = "calendar" /\ Taken(i, [ui EXCEPT !.calendar = None, !.calendarError = TRUE])
    BY <1>9 DEF CalendarFailed
  <2>2. None \in {None, "stale", "live"} /\ TRUE \in BOOLEAN
    OBVIOUS
  <2> QED
    BY <1>c, <2>1, <2>2
<1> QED
  BY <1>1, <1>2, <1>3, <1>4, <1>5, <1>6, <1>7, <1>8, <1>9 DEF FlashNext

LEMMA FetchFlashWaits ==
    ASSUME NEW s \in FlashType, CalendarWaits(s), NEW silent
    PROVE  CalendarWaits(FetchFlash(s, silent))
<1> DEFINE of == [importance |-> s.importance, kind |-> s.kind]
           new == [what |-> "flash", of |-> of, current |-> TRUE]
           f == s.flying
           g == Append(f, new)
           loading == s.loading \/ ~silent
           t == FetchFlash(s, silent)
<1>1. t = [s EXCEPT !.loading = loading, !.flying = g]
  BY DEF FetchFlash
<1>2. f \in Seq(FlashRequests) /\ of \in FlashFilter
  BY DEF FlashType, FlashFilter
<1> HIDE DEF of, f
<1>3. new \in FlashRequests
  BY <1>2 DEF FlashRequests, Requests
<1> HIDE DEF new
<1>4. \A other : Waiting(f, other) \/ (new.what = other /\ new.current) => Waiting(g, other)
  BY <1>2, <1>3, GateMore
<1>5. Waiting(f, "calendar") => Waiting(g, "calendar")
  BY <1>4
<1> HIDE DEF g, loading, t
<1>6. t.flying = g /\ t.calendar = s.calendar /\ t.calendarError = s.calendarError
  BY <1>1 DEF FlashType
<1>7. CalendarWaits(t)
  BY <1>5, <1>6 DEF CalendarWaits, CalendarStatus, f
<1> QED
  BY <1>7 DEF t

LEMMA CalendarSteps ==
    ASSUME FlashOK(ui), CalendarWaits(ui), FlashNext
    PROVE  CalendarWaits(ui')
<1> DEFINE f == ui.flying
           h(i) == Answered(f, i)
<1>0. ui \in FlashType /\ f \in Seq(FlashRequests)
  BY DEF FlashOK, FlashType
<1>1. ASSUME NEW s \in FlashType, NEW silent, ui' = FetchFlash(s, silent), s.flying = f, s.calendar = ui.calendar,
             s.calendarError = ui.calendarError
      PROVE  CalendarWaits(ui')
  <2>1. CalendarWaits(s)
    BY <1>1 DEF CalendarWaits, CalendarStatus
  <2> QED
    BY <1>1, <2>1, FetchFlashWaits
<1>2. ASSUME NEW importance \in {"all", "important"}, SetImportance(importance) PROVE CalendarWaits(ui')
  <2> DEFINE s == [ui EXCEPT !.importance = importance]
  <2>1. ui' = FetchFlash(s, TRUE)
    BY <1>2 DEF SetImportance
  <2>2. s \in FlashType /\ s.flying = f /\ s.calendar = ui.calendar /\ s.calendarError = ui.calendarError
    BY <1>0 DEF FlashType, Importances
  <2> HIDE DEF s
  <2> QED
    BY <1>1, <2>1, <2>2
<1>3. ASSUME NEW kind \in Kinds \cup {"all"}, SetKind(kind) PROVE CalendarWaits(ui')
  <2> DEFINE s == [ui EXCEPT !.kind = kind]
  <2>1. ui' = FetchFlash(s, TRUE)
    BY <1>3 DEF SetKind
  <2>2. s \in FlashType /\ s.flying = f /\ s.calendar = ui.calendar /\ s.calendarError = ui.calendarError
    BY <1>0 DEF FlashType, KindsAsked
  <2> HIDE DEF s
  <2> QED
    BY <1>1, <2>1, <2>2
<1>4. ASSUME SetPaused PROVE CalendarWaits(ui')
  <2>1. CASE ui.paused
    <3> DEFINE s == [ui EXCEPT !.paused = FALSE]
    <3>1. ui' = FetchFlash(s, TRUE)
      BY <1>4, <2>1 DEF SetPaused
    <3>2. s \in FlashType /\ s.flying = f /\ s.calendar = ui.calendar /\ s.calendarError = ui.calendarError
      BY <1>0 DEF FlashType
    <3> HIDE DEF s
    <3> QED
      BY <1>1, <3>1, <3>2
  <2>2. CASE ~ui.paused
    <3>1. ui' = [ui EXCEPT !.paused = TRUE]
      BY <1>4, <2>2 DEF SetPaused
    <3>2. ui'.flying = f /\ ui'.calendar = ui.calendar /\ ui'.calendarError = ui.calendarError
      BY <1>0, <3>1 DEF FlashType
    <3> QED
      BY <3>2 DEF CalendarWaits, CalendarStatus
  <2> QED
    BY <2>1, <2>2
<1>5. ASSUME FlashPoll \/ RefreshFlash PROVE CalendarWaits(ui')
  <2>1. PICK silent \in BOOLEAN : ui' = FetchFlash(ui, silent)
    BY <1>5 DEF FlashPoll, RefreshFlash
  <2> QED
    BY <1>0, <1>1, <2>1
<1>6. ASSUME RefreshCalendar PROVE CalendarWaits(ui')
  BY <1>6, FetchCalendarWaits DEF RefreshCalendar
<1>7. ASSUME NEW i \in DOMAIN f, NEW s \in FlashType, s.flying = f, Taken(i, s),
             \/ f[i].what # "calendar" /\ s.calendar = ui.calendar /\ s.calendarError = ui.calendarError
             \/ s.calendarError \/ s.calendar # None
      PROVE  CalendarWaits(ui')
  <2>1. Waiting(f, "calendar") /\ f[i].what # "calendar" => Waiting(h(i), "calendar")
    BY <1>0, GateAnswered
  <2>2. ui' = [s EXCEPT !.flying = h(i)]
    BY <1>7 DEF Taken
  <2> HIDE DEF h
  <2>3. ui'.flying = h(i) /\ ui'.calendar = s.calendar /\ ui'.calendarError = s.calendarError
    BY <1>7, <2>2 DEF FlashType
  <2>4. CASE f[i].what # "calendar" /\ s.calendar = ui.calendar /\ s.calendarError = ui.calendarError
    <3>1. CalendarStatus(ui') = CalendarStatus(ui)
      BY <2>3, <2>4 DEF CalendarStatus
    <3> QED
      BY <2>1, <2>3, <2>4, <3>1 DEF CalendarWaits
  <2>5. CASE s.calendarError \/ s.calendar # None
    <3>1. ui'.calendar \in {None, "stale", "live"} /\ (ui'.calendarError \/ ui'.calendar # None)
      BY <1>7, <2>3, <2>5 DEF FlashType
    <3>2. CalendarStatus(ui') # "loading"
      BY <3>1 DEF CalendarStatus
    <3> QED
      BY <3>2 DEF CalendarWaits
  <2> QED
    BY <1>7, <2>4, <2>5
<1>8. ASSUME NEW i \in DOMAIN ui.flying, NEW stale \in BOOLEAN, FlashAnswer(i, stale) PROVE CalendarWaits(ui')
  <2> DEFINE of == f[i].of
             items == {[importance |-> of.importance, kind |-> of.kind, stale |-> stale]}
             s == [ui EXCEPT !.items = items, !.degraded = stale, !.loading = FALSE, !.error = FALSE]
  <2>1. f[i].what = "flash" /\ Taken(i, s)
    BY <1>8 DEF FlashAnswer
  <2>2. of \in FlashFilter
    BY <2>1 DEF FlashOK, FlashAsked
  <2> HIDE DEF of
  <2>3. items \subseteq FlashNews
    BY <2>2 DEF FlashFilter, FlashNews
  <2> HIDE DEF items
  <2>4. s \in FlashType /\ s.flying = f /\ s.calendar = ui.calendar /\ s.calendarError = ui.calendarError
    BY <1>0, <2>3 DEF FlashType
  <2> HIDE DEF s
  <2>5. f[i].what # "calendar"
    BY <2>1
  <2> QED
    BY <1>7, <2>1, <2>4, <2>5
<1>9. ASSUME NEW i \in DOMAIN ui.flying, FlashFailed(i) PROVE CalendarWaits(ui')
  <2> DEFINE s == [ui EXCEPT !.items = {}, !.degraded = TRUE, !.loading = FALSE, !.error = TRUE]
  <2>1. Taken(i, s) /\ f[i].what = "flash"
    BY <1>9 DEF FlashFailed
  <2>2. s \in FlashType /\ s.flying = f /\ s.calendar = ui.calendar /\ s.calendarError = ui.calendarError
    BY <1>0 DEF FlashType
  <2> HIDE DEF s
  <2>3. f[i].what # "calendar"
    BY <2>1
  <2> QED
    BY <1>7, <2>1, <2>2, <2>3
<1>10. ASSUME NEW i \in DOMAIN ui.flying, NEW stale \in BOOLEAN, CalendarAnswer(i, stale) PROVE CalendarWaits(ui')
  <2> DEFINE calendar == IF stale THEN "stale" ELSE "live"
             s == [ui EXCEPT !.calendar = calendar, !.calendarError = FALSE]
  <2>1. Taken(i, s)
    BY <1>10 DEF CalendarAnswer
  <2>2. calendar \in {"stale", "live"}
    OBVIOUS
  <2> HIDE DEF calendar
  <2>3. s \in FlashType /\ s.flying = f /\ s.calendar \in {"stale", "live"}
    BY <1>0, <2>2 DEF FlashType
  <2> HIDE DEF s
  <2>4. s.calendar # None
    BY <2>3 DEF None
  <2> QED
    BY <1>7, <2>1, <2>3, <2>4
<1>11. ASSUME NEW i \in DOMAIN ui.flying, CalendarFailed(i) PROVE CalendarWaits(ui')
  <2> DEFINE s == [ui EXCEPT !.calendar = None, !.calendarError = TRUE]
  <2>1. Taken(i, s)
    BY <1>11 DEF CalendarFailed
  <2>2. s \in FlashType /\ s.flying = f /\ s.calendarError
    BY <1>0 DEF FlashType
  <2> HIDE DEF s
  <2> QED
    BY <1>7, <2>1, <2>2
<1> QED
  BY <1>2, <1>3, <1>4, <1>5, <1>6, <1>8, <1>9, <1>10, <1>11 DEF FlashNext

LEMMA FlashTold ==
    ASSUME FlashOK(ui), CalendarWaits(ui)
    PROVE  /\ FlashLiveTold
           /\ ui.loading => Waiting(ui.flying, "flash")
           /\ CalendarStatus(ui) = "loading" => Waiting(ui.flying, "calendar")
<1>1. ui \in FlashType /\ NewsTold(ui)
  BY DEF FlashOK
<1>2. FlashStatus(ui) = "live" => ~ui.degraded
  BY DEF FlashStatus
<1>3. FlashShows(ui) # {} => ui.items # {}
  BY DEF FlashShows
<1>4. ui.items # {} => FlashStatus(ui) \in {"live", "paused", "snapshot"}
  BY <1>1 DEF FlashStatus, NewsTold
<1> QED
  BY <1>1, <1>2, <1>3, <1>4 DEF FlashLiveTold, NewsTold, FlashOK, CalendarWaits

-----------------------------------------------------------------------------
(* The tools of the Chinese market *)

CnTrusts == {"live", "stale", "unavailable"}

CnRequests == Requests(Panels, {None})

CnAnswer ==
    [edition : Editions \cup {"any", None}, trust : CnTrusts \cup {None}, failed : BOOLEAN, loading : BOOLEAN,
     last : CnTrusts \cup {"failed", None}]

CnType ==
    [tab : Panels, panels : [Panels -> CnAnswer], open : Routines \cup {None}, toast : BOOLEAN, passed : BOOLEAN,
     alerts : SUBSET [level : Grid \cup DipLines, edition : Editions \cup {"any", None}], flying : Seq(CnRequests)]

\* What is shown with an edition is the last answer.
OfLastAnswer(answer) == answer.edition # None => answer.last = answer.trust

CnOK(s) ==
    /\ s \in CnType
    /\ \A panel \in Panels : OfLastAnswer(s.panels[panel])
    /\ \A panel \in Panels : s.panels[panel].loading => Waiting(s.flying, panel)

LEMMA CnAnswers ==
    /\ NoAnswer \in CnAnswer /\ OfLastAnswer(NoAnswer) /\ NoAnswer.loading = TRUE /\ NoAnswer.edition = None
    /\ \A edition \in Editions \cup {"any"}, trust \in CnTrusts :
          /\ Answer(edition, trust) \in CnAnswer /\ OfLastAnswer(Answer(edition, trust))
          /\ Answer(edition, trust).loading = FALSE
  BY DEF NoAnswer, Answer, CnAnswer, OfLastAnswer

LEMMA CnToolsStart == CnToolsInit => CnOK(ui)
<1> SUFFICES ASSUME CnToolsInit PROVE CnOK(ui)
  OBVIOUS
<1> DEFINE f == <<>>
           g == Ask(f, "routines", None)
           h == Ask(g, "picks", None)
           panels == [panel \in Panels |-> NoAnswer]
<1>1. ui = [tab |-> "routines", panels |-> panels, open |-> None, toast |-> FALSE,
            passed |-> FALSE, alerts |-> {}, flying |-> h]
  BY DEF CnToolsInit
<1>2. f \in Seq(CnRequests)
  OBVIOUS
<1>3. "routines" \in Panels /\ "picks" \in Panels /\ None \in {None} /\ "routines" # "picks"
  BY DEF Panels
<1> HIDE DEF f
<1>4. g \in Seq(CnRequests) /\ Waiting(g, "routines")
  BY <1>2, <1>3, GateAsk DEF CnRequests
<1> HIDE DEF g
<1>5. h \in Seq(CnRequests) /\ Waiting(h, "routines") /\ Waiting(h, "picks")
  BY <1>3, <1>4, GateAsk DEF CnRequests
<1> HIDE DEF h
<1>6. panels \in [Panels -> CnAnswer] /\ \A panel \in Panels : OfLastAnswer(panels[panel])
  BY CnAnswers
<1> HIDE DEF panels
<1>7. ui \in CnType /\ ui.panels = panels /\ ui.flying = h
  BY <1>1, <1>3, <1>5, <1>6 DEF CnType
<1>8. \A panel \in Panels : Waiting(h, panel)
  BY <1>5 DEF Panels
<1> QED
  BY <1>6, <1>7, <1>8 DEF CnOK

LEMMA CnToolsStep ==
    ASSUME CnOK(ui), CnToolsNext
    PROVE  CnOK(ui')
<1> DEFINE f == ui.flying
           h(i) == Answered(f, i)
<1>0. /\ ui \in CnType /\ f \in Seq(CnRequests) /\ ui.panels \in [Panels -> CnAnswer]
      /\ \A panel \in Panels : OfLastAnswer(ui.panels[panel])
      /\ \A panel \in Panels : ui.panels[panel].loading => Waiting(f, panel)
  BY DEF CnOK, CnType
<1>s. ASSUME ui' \in CnType, ui'.panels = ui.panels, ui'.flying = ui.flying PROVE CnOK(ui')
  BY <1>0, <1>s DEF CnOK
<1>1. ASSUME NEW panel \in Panels, Reload(panel) PROVE CnOK(ui')
  <2> DEFINE answer == [ui.panels[panel] EXCEPT !.loading = TRUE, !.failed = FALSE]
             panels == [ui.panels EXCEPT ![panel] = answer]
             g == Ask(f, panel, None)
  <2>1. ui' = [ui EXCEPT !.panels = panels, !.flying = g]
    <3>1. ui' = [ui EXCEPT !.panels[panel].loading = TRUE, !.panels[panel].failed = FALSE, !.flying = g]
      BY <1>1 DEF Reload
    <3> HIDE DEF g
    <3> QED
      BY <1>0, <3>1 DEF CnType
  <2>2. ui.panels[panel] \in CnAnswer /\ OfLastAnswer(ui.panels[panel])
    BY <1>0
  <2>3. answer \in CnAnswer /\ OfLastAnswer(answer)
    BY <2>2 DEF CnAnswer, OfLastAnswer
  <2> HIDE DEF answer
  <2>4. panels \in [Panels -> CnAnswer] /\ panels[panel] = answer /\ \A other \in Panels \ {panel} : panels[other] = ui.panels[other]
    BY <1>0, <2>3
  <2> HIDE DEF panels
  <2>5. /\ g \in Seq(CnRequests) /\ Waiting(g, panel)
        /\ \A other \in Panels : other # panel => (Waiting(g, other) <=> Waiting(f, other))
    <3>1. None \in {None}
      OBVIOUS
    <3> HIDE DEF f
    <3> QED
      BY <1>0, <3>1, GateAsk DEF CnRequests
  <2> HIDE DEF g
  <2>6. ui' \in CnType /\ ui'.panels = panels /\ ui'.flying = g
    BY <1>0, <2>1, <2>4, <2>5 DEF CnType
  <2>7. \A other \in Panels : OfLastAnswer(panels[other]) /\ (panels[other].loading => Waiting(g, other))
    BY <1>0, <2>3, <2>4, <2>5
  <2> QED
    BY <2>6, <2>7 DEF CnOK
\* An answer, or a failure, of one panel is taken.
<1>a. ASSUME NEW i \in DOMAIN f, NEW panel \in Panels, f[i].what = panel, NEW answer \in CnAnswer,
             OfLastAnswer(answer), answer.loading = FALSE, NEW open \in Routines \cup {None}, NEW passed \in BOOLEAN,
             Taken(i, [ui EXCEPT !.panels = [ui.panels EXCEPT ![panel] = answer], !.open = open, !.passed = passed])
      PROVE  CnOK(ui')
  <2> DEFINE panels == [ui.panels EXCEPT ![panel] = answer]
             s == [ui EXCEPT !.panels = panels, !.open = open, !.passed = passed]
  <2>1. Taken(i, s)
    BY <1>a
  <2>2. panels \in [Panels -> CnAnswer] /\ panels[panel] = answer /\ \A other \in Panels \ {panel} : panels[other] = ui.panels[other]
    BY <1>0, <1>a
  <2> HIDE DEF panels
  <2>3. s \in CnType /\ s.flying = f /\ s.panels = panels
    BY <1>0, <2>2 DEF CnType
  <2> HIDE DEF s
  <2>4. ui' = [s EXCEPT !.flying = h(i)]
    BY <2>1, <2>3 DEF Taken
  <2>5. h(i) \in Seq(CnRequests) /\ \A other \in Panels : other # panel /\ Waiting(f, other) => Waiting(h(i), other)
    <3>1. f[i].what = panel
      BY <1>a
    <3> HIDE DEF f
    <3> QED
      BY <1>0, <3>1, GateAnswered
  <2> HIDE DEF h
  <2>6. ui' \in CnType /\ ui'.panels = panels /\ ui'.flying = h(i)
    BY <2>3, <2>4, <2>5 DEF CnType
  <2>7. \A other \in Panels : OfLastAnswer(panels[other]) /\ (panels[other].loading => Waiting(h(i), other))
    BY <1>0, <1>a, <2>2, <2>5
  <2> QED
    BY <2>6, <2>7 DEF CnOK
<1>2. ASSUME NEW i \in DOMAIN ui.flying, NEW panel \in Panels, PanelFails(i, panel) PROVE CnOK(ui')
  <2> DEFINE answer == [NoAnswer EXCEPT !.failed = TRUE, !.loading = FALSE, !.last = "failed"]
  <2>1. f[i].what = panel /\ Taken(i, [ui EXCEPT !.panels[panel] = answer])
    BY <1>2 DEF PanelFails, PanelFailed
  <2>2. answer \in CnAnswer /\ OfLastAnswer(answer) /\ answer.loading = FALSE
    BY CnAnswers DEF CnAnswer, OfLastAnswer
  <2> HIDE DEF answer
  <2>3. [ui EXCEPT !.panels[panel] = answer] =
        [ui EXCEPT !.panels = [ui.panels EXCEPT ![panel] = answer], !.open = ui.open, !.passed = ui.passed]
    BY <1>0 DEF CnType
  <2>4. Taken(i, [ui EXCEPT !.panels = [ui.panels EXCEPT ![panel] = answer], !.open = ui.open, !.passed = ui.passed])
    BY <2>1, <2>3
  <2>5. ui.open \in Routines \cup {None} /\ ui.passed \in BOOLEAN
    BY <1>0 DEF CnType
  <2> QED
    BY <1>a, <2>1, <2>2, <2>4, <2>5
<1>3. ASSUME NEW i \in DOMAIN ui.flying, NEW trust \in {"live", "stale", "unavailable"}, PicksAnswer(i, trust) PROVE CnOK(ui')
  <2> DEFINE answer == Answer("any", trust)
  <2>1. f[i].what = "picks" /\ Taken(i, [ui EXCEPT !.panels["picks"] = answer])
    BY <1>3 DEF PicksAnswer
  <2>2. answer \in CnAnswer /\ OfLastAnswer(answer) /\ answer.loading = FALSE
    BY CnAnswers DEF CnTrusts
  <2> HIDE DEF answer
  <2>3. [ui EXCEPT !.panels["picks"] = answer] =
        [ui EXCEPT !.panels = [ui.panels EXCEPT !["picks"] = answer], !.open = ui.open, !.passed = ui.passed]
    BY <1>0 DEF CnType
  <2>4. Taken(i, [ui EXCEPT !.panels = [ui.panels EXCEPT !["picks"] = answer], !.open = ui.open, !.passed = ui.passed])
    BY <2>1, <2>3
  <2>5. ui.open \in Routines \cup {None} /\ ui.passed \in BOOLEAN
    BY <1>0 DEF CnType
  <2>6. "picks" \in Panels
    BY DEF Panels
  <2> QED
    BY <1>a, <2>1, <2>2, <2>4, <2>5, <2>6
<1>4. ASSUME NEW i \in DOMAIN ui.flying, NEW trust \in {"live", "stale", "unavailable"}, NEW edition \in Editions,
             NEW first \in Routines, NEW passed \in BOOLEAN, RoutinesAnswer(i, edition, trust, first, passed)
      PROVE  CnOK(ui')
  <2> DEFINE answer == Answer(edition, trust)
             open == IF ui.open # None THEN ui.open ELSE first
  <2>1. f[i].what = "routines" /\ Taken(i, [ui EXCEPT !.panels["routines"] = answer, !.open = open, !.passed = passed])
    BY <1>4 DEF RoutinesAnswer
  <2>2. answer \in CnAnswer /\ OfLastAnswer(answer) /\ answer.loading = FALSE
    BY CnAnswers DEF CnTrusts
  <2>3. open \in Routines \cup {None}
    BY <1>0 DEF CnType
  <2> HIDE DEF answer, open
  <2>4. [ui EXCEPT !.panels["routines"] = answer, !.open = open, !.passed = passed] =
        [ui EXCEPT !.panels = [ui.panels EXCEPT !["routines"] = answer], !.open = open, !.passed = passed]
    BY <1>0 DEF CnType
  <2>5. Taken(i, [ui EXCEPT !.panels = [ui.panels EXCEPT !["routines"] = answer], !.open = open, !.passed = passed])
    BY <2>1, <2>4
  <2>6. "routines" \in Panels
    BY DEF Panels
  <2> QED
    BY <1>a, <2>1, <2>2, <2>3, <2>5, <2>6
<1>5. ASSUME NEW tab \in Panels, SwitchTab(tab) PROVE CnOK(ui')
  BY <1>0, <1>5, <1>s DEF SwitchTab, CnType
<1>6. ASSUME NEW routine \in Routines, OpenRoutine(routine) PROVE CnOK(ui')
  <2> DEFINE open == IF ui.open = routine THEN None ELSE routine
  <2>1. ui' = [ui EXCEPT !.open = open] /\ open \in Routines \cup {None}
    BY <1>6 DEF OpenRoutine
  <2> HIDE DEF open
  <2> QED
    BY <1>0, <1>s, <2>1 DEF CnType
<1>7. ASSUME NEW levels \in SUBSET (Grid \cup DipLines)
      PROVE  Armed(ui, levels) \in CnType /\ Armed(ui, levels).panels = ui.panels /\ Armed(ui, levels).flying = f
  <2> DEFINE edition == ui.panels["routines"].edition
             alerts == ui.alerts \cup {[level |-> level, edition |-> edition] : level \in levels}
  <2>1. edition \in Editions \cup {"any", None}
    BY <1>0 DEF CnAnswer, Panels
  <2>2. Armed(ui, levels) = [ui EXCEPT !.alerts = alerts]
    BY DEF Armed
  <2> HIDE DEF edition
  <2>3. alerts \in SUBSET [level : Grid \cup DipLines, edition : Editions \cup {"any", None}]
    BY <1>0, <2>1 DEF CnType
  <2> HIDE DEF alerts
  <2> QED
    BY <1>0, <2>2, <2>3 DEF CnType
<1>8. ASSUME NEW level \in Grid \cup DipLines, ArmLevel(level) PROVE CnOK(ui')
  <2>1. ui' = Armed(ui, {level}) /\ {level} \in SUBSET (Grid \cup DipLines)
    BY <1>8 DEF ArmLevel
  <2> QED
    BY <1>7, <1>s, <2>1
<1>9. ASSUME ArmLevels \/ ArmDipAlerts PROVE CnOK(ui')
  <2>1. PICK levels \in SUBSET (Grid \cup DipLines) : ui' = [Armed(ui, levels) EXCEPT !.toast = TRUE]
    BY <1>9 DEF ArmLevels, ArmDipAlerts
  <2> DEFINE s == Armed(ui, levels)
  <2>2. s \in CnType /\ s.panels = ui.panels /\ s.flying = f
    BY <1>7
  <2>3. ui' = [s EXCEPT !.toast = TRUE]
    BY <2>1
  <2> HIDE DEF s
  <2> QED
    BY <1>s, <2>2, <2>3 DEF CnType
<1>10. ASSUME ToastTimer PROVE CnOK(ui')
  BY <1>0, <1>10, <1>s DEF ToastTimer, CnType
<1> QED
  BY <1>1, <1>2, <1>3, <1>4, <1>5, <1>6, <1>8, <1>9, <1>10 DEF CnToolsNext

LEMMA CnToolsTold ==
    ASSUME CnOK(ui)
    PROVE  CnNothingKept /\ CnToolsNeverStuck
<1>1. \A panel \in Panels : OfLastAnswer(ui.panels[panel]) /\ (ui.panels[panel].loading => Waiting(ui.flying, panel))
  BY DEF CnOK
<1>2. RoutinesShow(ui) = "live" => ui.panels["routines"].edition # None /\ ui.panels["routines"].trust = "live"
  BY DEF RoutinesShow
<1>3. PicksShow(ui) = "live" => ui.panels["picks"].edition # None /\ ui.panels["picks"].trust = "live"
  BY DEF PicksShow
<1>4. "routines" \in Panels /\ "picks" \in Panels
  BY DEF Panels
<1> QED
  BY <1>1, <1>2, <1>3, <1>4 DEF CnNothingKept, CnToolsNeverStuck, OfLastAnswer

-----------------------------------------------------------------------------
(* The page of the funds *)

Modes == {"current", "historical"}
Addresses == Funds \cup {"sector", None}
SectorQuestions == [mode : Modes, category : Categories \cup {"all"}]

ETFRequests ==
    Requests({"sectors"}, SectorQuestions) \cup Requests({"detail", "holdings"}, Addresses)

ETFType ==
    [id : Addresses, sectors : SectorQuestions \cup {NoSectors}, fresh : BOOLEAN, loading : BOOLEAN, error : BOOLEAN,
     dataMode : Modes, category : Categories \cup {"all"},
     lookup : [id : Addresses, status : {"idle", "loading", "ready", "error"}], asked : Addresses, holdings : Addresses,
     holdingsLoading : BOOLEAN, holdingsError : BOOLEAN, flying : Seq(ETFRequests)]

\* The sectors of a list that has settled, and the young ones that may be filtered
\* again, are of the mode that is told.
SectorsOfMode(s) ==
    /\ s.fresh => s.sectors.mode = s.dataMode
    /\ ~s.loading /\ ~s.error => s.sectors.mode = s.dataMode

ETFOK(s) == s \in ETFType /\ SectorsOfMode(s)

LEMMA ETFConstants ==
    /\ NoSectors.mode = None /\ NoLookup \in [id : Addresses, status : {"idle", "loading", "ready", "error"}]
    /\ \A sectors \in SectorQuestions : sectors.mode \in Modes
  BY DEF NoSectors, NoLookup, Addresses, SectorQuestions

LEMMA ETFRequestsStay ==
    ASSUME NEW f \in Seq(ETFRequests), NEW what \in {"detail", "holdings"}, NEW of \in Addresses
    PROVE  Superseded(f, what) \in Seq(ETFRequests) /\ Ask(f, what, of) \in Seq(ETFRequests)
<1>1. \A r \in ETFRequests : Outdated(r, what) \in ETFRequests
  <2> TAKE r \in ETFRequests
  <2>1. CASE r \in Requests({"sectors"}, SectorQuestions)
    BY <2>1, OutdatedIs DEF ETFRequests
  <2>2. CASE r \in Requests({"detail", "holdings"}, Addresses)
    BY <2>2, OutdatedIs DEF ETFRequests
  <2> QED
    BY <2>1, <2>2 DEF ETFRequests
<1>2. [what |-> what, of |-> of, current |-> TRUE] \in ETFRequests
  BY DEF ETFRequests, Requests
<1>3. Superseded(f, what) \in Seq(ETFRequests)
  BY <1>1, SupersededIn
<1>4. Ask(f, what, of) \in Seq(ETFRequests)
  BY <1>1, <1>2, AskIn
<1> QED
  BY <1>3, <1>4

\* The effect of the address asks for a lookup, or takes back the last.
LEMMA DetailEffectKeeps ==
    ASSUME NEW s, ETFOK(s)
    PROVE  ETFOK(DetailEffect(s))
<1> DEFINE f == s.flying
           g == Superseded(f, "detail")
           t == [s EXCEPT !.flying = g]
<1>1. s \in ETFType /\ SectorsOfMode(s) /\ f \in Seq(ETFRequests) /\ s.id \in Addresses
  BY DEF ETFOK, ETFType
<1>2. "detail" \in {"detail", "holdings"}
  OBVIOUS
<1>3. g \in Seq(ETFRequests)
  <2> HIDE DEF f
  <2> QED
    BY <1>1, <1>2, ETFRequestsStay
<1>4. CASE s.id = None \/ s.loading \/ ActiveSector(s)
  <2>1. DetailEffect(s) = t
    BY <1>4 DEF DetailEffect
  <2> HIDE DEF g
  <2>2. /\ t \in ETFType /\ t.fresh = s.fresh /\ t.sectors = s.sectors /\ t.dataMode = s.dataMode
        /\ t.loading = s.loading /\ t.error = s.error
    BY <1>1, <1>3 DEF ETFType
  <2> QED
    BY <1>1, <2>1, <2>2 DEF ETFOK, SectorsOfMode
<1>5. CASE ~(s.id = None \/ s.loading \/ ActiveSector(s))
  <2> DEFINE lookup == [id |-> s.id, status |-> "loading"]
             a == Ask(g, "detail", s.id)
             u == [t EXCEPT !.lookup = lookup, !.flying = a]
  <2> HIDE DEF g
  <2>1. t \in ETFType /\ t.flying = g /\ t.fresh = s.fresh /\ t.sectors = s.sectors /\ t.dataMode = s.dataMode
        /\ t.loading = s.loading /\ t.error = s.error
    BY <1>1, <1>3 DEF ETFType
  <2>2. DetailEffect(s) = u
    BY <1>5, <2>1 DEF DetailEffect, g
  <2>3. lookup \in [id : Addresses, status : {"idle", "loading", "ready", "error"}]
    BY <1>1
  <2>4. a \in Seq(ETFRequests)
    BY <1>1, <1>2, <1>3, ETFRequestsStay
  <2> HIDE DEF t, a, lookup
  <2>5. /\ u \in ETFType /\ u.fresh = s.fresh /\ u.sectors = s.sectors /\ u.dataMode = s.dataMode
        /\ u.loading = s.loading /\ u.error = s.error
    BY <2>1, <2>3, <2>4 DEF ETFType
  <2> HIDE DEF u
  <2> QED
    BY <1>1, <2>2, <2>5 DEF ETFOK, SectorsOfMode
<1> QED
  BY <1>4, <1>5

LEMMA EffectsKeep ==
    ASSUME NEW s, NEW t, ETFOK(t)
    PROVE  ETFOK(Effects(s, t))
  BY DetailEffectKeeps DEF Effects

LEMMA FetchSectorsKeeps ==
    ASSUME NEW s \in ETFType, NEW force \in BOOLEAN, s.fresh => s.sectors.mode = s.dataMode
    PROVE  ETFOK(FetchSectors(s, force))
<1> DEFINE f == s.flying
           t == FetchSectors(s, force)
<1>1. CASE ~force /\ s.sectors # NoSectors /\ s.fresh
  <2> DEFINE sectors == [s.sectors EXCEPT !.category = s.category]
  <2>1. t = [s EXCEPT !.sectors = sectors, !.loading = FALSE, !.error = FALSE]
    <3>1. t = [s EXCEPT !.sectors.category = s.category, !.loading = FALSE, !.error = FALSE]
      BY <1>1 DEF FetchSectors
    <3> HIDE DEF t
    <3> QED
      BY <3>1 DEF ETFType
  <2>2. s.sectors \in SectorQuestions /\ s.category \in Categories \cup {"all"}
    BY <1>1 DEF ETFType
  <2>3. sectors \in SectorQuestions /\ sectors.mode = s.sectors.mode
    BY <2>2 DEF SectorQuestions
  <2> HIDE DEF sectors, t
  <2>4. /\ t \in ETFType /\ t.fresh = s.fresh /\ t.sectors = sectors /\ t.dataMode = s.dataMode
    BY <2>1, <2>3 DEF ETFType
  <2>5. ETFOK(t)
    BY <1>1, <2>3, <2>4 DEF ETFOK, SectorsOfMode
  <2> QED
    BY <2>5 DEF t
<1>2. CASE ~(~force /\ s.sectors # NoSectors /\ s.fresh)
  <2> DEFINE of == [mode |-> s.dataMode, category |-> s.category]
             new == [what |-> "sectors", current |-> TRUE, of |-> of]
             g == Append(f, new)
  <2>1. t = [s EXCEPT !.loading = TRUE, !.error = FALSE, !.flying = g]
    BY <1>2 DEF FetchSectors
  <2>2. of \in SectorQuestions
    BY DEF ETFType, SectorQuestions
  <2> HIDE DEF of
  <2>3. new \in ETFRequests
    BY <2>2 DEF ETFRequests, Requests
  <2> HIDE DEF new
  <2>4. g \in Seq(ETFRequests)
    BY <2>3 DEF ETFType
  <2> HIDE DEF g, t
  <2>5. t \in ETFType /\ t.fresh = s.fresh /\ t.sectors = s.sectors /\ t.dataMode = s.dataMode /\ t.loading = TRUE
    BY <2>1, <2>4 DEF ETFType
  <2>6. ETFOK(t)
    BY <2>5 DEF ETFOK, SectorsOfMode
  <2> QED
    BY <2>6 DEF t
<1> QED
  BY <1>1, <1>2

LEMMA ETFStarts == ETFInit => ETFOK(ui)
<1> SUFFICES ASSUME ETFInit PROVE ETFOK(ui)
  OBVIOUS
<1>1. PICK id \in Funds \cup {"sector", None} :
        ui = FetchSectors([id |-> id, sectors |-> NoSectors, fresh |-> FALSE, loading |-> FALSE,
                           error |-> FALSE, dataMode |-> "current", category |-> "all",
                           lookup |-> NoLookup, asked |-> None, holdings |-> None,
                           holdingsLoading |-> FALSE, holdingsError |-> FALSE, flying |-> <<>>], FALSE)
  BY DEF ETFInit
<1> DEFINE f == <<>>
           s == [id |-> id, sectors |-> NoSectors, fresh |-> FALSE, loading |-> FALSE,
                 error |-> FALSE, dataMode |-> "current", category |-> "all",
                 lookup |-> NoLookup, asked |-> None, holdings |-> None,
                 holdingsLoading |-> FALSE, holdingsError |-> FALSE, flying |-> f]
<1>2. f \in Seq(ETFRequests)
  OBVIOUS
<1>3. ui = FetchSectors(s, FALSE)
  BY <1>1
<1> HIDE DEF f
<1>4. s \in ETFType /\ s.fresh = FALSE
  BY <1>2, ETFConstants DEF ETFType, Addresses, Modes
<1> HIDE DEF s
<1>5. FALSE \in BOOLEAN
  OBVIOUS
<1> QED
  BY <1>3, <1>4, <1>5, FetchSectorsKeeps

LEMMA ETFSteps ==
    ASSUME ETFOK(ui), ETFNext
    PROVE  ETFOK(ui')
<1> DEFINE f == ui.flying
           h(i) == Answered(f, i)
<1>0. ui \in ETFType /\ f \in Seq(ETFRequests) /\ SectorsOfMode(ui)
  BY DEF ETFOK, ETFType
<1>h. ASSUME NEW i \in DOMAIN f PROVE h(i) \in Seq(ETFRequests) /\ f[i] \in ETFRequests
  <2>1. f[i] \in ETFRequests
    BY <1>0
  <2> HIDE DEF f
  <2> QED
    BY <1>0, <2>1, AnsweredIn
<1>t. TRUE \in BOOLEAN /\ FALSE \in BOOLEAN
  OBVIOUS
\* What leaves the sectors alone.
<1>s. ASSUME NEW s \in ETFType, s.sectors = ui.sectors, s.fresh = ui.fresh, s.dataMode = ui.dataMode,
             s.loading = ui.loading, s.error = ui.error
      PROVE  ETFOK(s)
  BY <1>0, <1>s DEF ETFOK, SectorsOfMode
<1>a. ASSUME NEW i \in DOMAIN f, NEW s \in ETFType, s.flying = f, s.sectors = ui.sectors, s.fresh = ui.fresh,
             s.dataMode = ui.dataMode, s.loading = ui.loading, s.error = ui.error, Heard(i, s)
      PROVE  ETFOK(ui')
  <2>1. ui' = [s EXCEPT !.flying = h(i)] \/ ui' = [ui EXCEPT !.flying = h(i)]
    BY <1>a DEF Heard
  <2>2. h(i) \in Seq(ETFRequests)
    BY <1>h
  <2> HIDE DEF h
  <2>3. /\ ui' \in ETFType /\ ui'.sectors = ui.sectors /\ ui'.fresh = ui.fresh /\ ui'.dataMode = ui.dataMode
        /\ ui'.loading = ui.loading /\ ui'.error = ui.error
    BY <1>0, <1>a, <2>1, <2>2 DEF ETFType
  <2> QED
    BY <1>s, <2>3
<1>1. ASSUME NEW i \in DOMAIN ui.flying, NEW ok \in BOOLEAN, SectorsAnswer(i, ok) PROVE ETFOK(ui')
  <2> DEFINE asked == f[i].of
             s == WithSectors(ui, asked, ok)
             t == [s EXCEPT !.flying = h(i)]
  <2>0. h(i) \in Seq(ETFRequests) /\ f[i] \in ETFRequests
    BY <1>h
  <2>1. f[i].what = "sectors"
    BY <1>1 DEF SectorsAnswer
  <2>2. asked \in SectorQuestions
    <3> HIDE DEF f
    <3> QED
      BY <2>0, <2>1 DEF ETFRequests, Requests
  <2>3. s.flying = f
    BY <1>0 DEF WithSectors, ETFType
  <2>4. ui' = Effects(ui, t)
    BY <1>1, <2>3 DEF SectorsAnswer
  <2> HIDE DEF asked, f, h
  <2>5. asked.mode \in Modes /\ NoSectors \in SectorQuestions \cup {NoSectors}
    BY <2>2, ETFConstants
  <2>6. s \in ETFType /\ SectorsOfMode(s)
    <3>1. CASE ok
      <4>1. s = [ui EXCEPT !.dataMode = asked.mode, !.sectors = asked, !.fresh = TRUE, !.loading = FALSE, !.error = FALSE]
        BY <3>1 DEF WithSectors
      <4> HIDE DEF s
      <4>2. s \in ETFType /\ s.sectors = asked /\ s.dataMode = asked.mode
        BY <1>0, <2>2, <2>5, <4>1 DEF ETFType
      <4> QED
        BY <4>2 DEF SectorsOfMode
    <3>2. CASE ~ok
      <4>1. s = [ui EXCEPT !.sectors = NoSectors, !.fresh = FALSE, !.loading = FALSE, !.error = TRUE]
        BY <3>2 DEF WithSectors
      <4> HIDE DEF s
      <4>2. s \in ETFType /\ s.fresh = FALSE /\ s.error = TRUE
        BY <1>0, <2>5, <4>1 DEF ETFType
      <4> QED
        BY <4>2 DEF SectorsOfMode
    <3> QED
      BY <3>1, <3>2
  <2> HIDE DEF s
  <2>7. /\ t \in ETFType /\ t.sectors = s.sectors /\ t.fresh = s.fresh /\ t.dataMode = s.dataMode
        /\ t.loading = s.loading /\ t.error = s.error
    BY <2>0, <2>6 DEF ETFType
  <2> HIDE DEF t
  <2>8. ETFOK(t)
    BY <2>6, <2>7 DEF ETFOK, SectorsOfMode
  <2> QED
    BY <2>4, <2>8, EffectsKeep
<1>2. ASSUME NEW i \in DOMAIN ui.flying, NEW ok \in BOOLEAN, DetailAnswer(i, ok) PROVE ETFOK(ui')
  <2> DEFINE status == IF ok THEN "ready" ELSE "error"
             lookup == [id |-> f[i].of, status |-> status]
             s == [ui EXCEPT !.lookup = lookup]
  <2>0. f[i] \in ETFRequests
    BY <1>h
  <2>1. f[i].what = "detail" /\ Heard(i, s)
    BY <1>2 DEF DetailAnswer
  <2>2. f[i].of \in Addresses
    <3> HIDE DEF f
    <3> QED
      BY <2>0, <2>1 DEF ETFRequests, Requests
  <2>3. lookup \in [id : Addresses, status : {"idle", "loading", "ready", "error"}]
    BY <2>2
  <2> HIDE DEF lookup
  <2>4. /\ s \in ETFType /\ s.flying = f /\ s.sectors = ui.sectors /\ s.fresh = ui.fresh /\ s.dataMode = ui.dataMode
        /\ s.loading = ui.loading /\ s.error = ui.error
    BY <1>0, <2>3 DEF ETFType
  <2> HIDE DEF s
  <2> QED
    BY <1>a, <2>1, <2>4
<1>3. ASSUME NEW i \in DOMAIN ui.flying, NEW ok \in BOOLEAN, HoldingsAnswer(i, ok) PROVE ETFOK(ui')
  <2> DEFINE holdings == IF ok THEN f[i].of ELSE ui.holdings
             error == ~ok
             s == [ui EXCEPT !.holdings = holdings, !.holdingsError = error, !.holdingsLoading = FALSE]
  <2>0. f[i] \in ETFRequests
    BY <1>h
  <2>1. f[i].what = "holdings" /\ Heard(i, s)
    BY <1>3 DEF HoldingsAnswer
  <2>2. f[i].of \in Addresses
    <3> HIDE DEF f
    <3> QED
      BY <2>0, <2>1 DEF ETFRequests, Requests
  <2>3. holdings \in Addresses
    BY <1>0, <2>2 DEF ETFType
  <2>5. error \in BOOLEAN
    OBVIOUS
  <2> HIDE DEF holdings, error
  <2>4. /\ s \in ETFType /\ s.flying = f /\ s.sectors = ui.sectors /\ s.fresh = ui.fresh /\ s.dataMode = ui.dataMode
        /\ s.loading = ui.loading /\ s.error = ui.error
    BY <1>0, <2>3, <2>5 DEF ETFType
  <2> HIDE DEF s
  <2> QED
    BY <1>a, <2>1, <2>4
<1>4. ASSUME NEW mode \in {"current", "historical"}, SetDataMode(mode) PROVE ETFOK(ui')
  <2> DEFINE s == [ui EXCEPT !.dataMode = mode, !.fresh = FALSE, !.error = FALSE]
  <2>1. ui' = Effects(ui, FetchSectors(s, TRUE))
    BY <1>4 DEF SetDataMode
  <2>2. s \in ETFType /\ s.fresh = FALSE
    BY <1>0 DEF ETFType, Modes
  <2> HIDE DEF s
  <2> QED
    BY <1>t, <2>1, <2>2, FetchSectorsKeeps, EffectsKeep
<1>5. ASSUME NEW category \in Categories, SetCategory(category) PROVE ETFOK(ui')
  <2> DEFINE s == [ui EXCEPT !.category = category]
  <2>1. ui' = Effects(ui, FetchSectors(s, FALSE))
    BY <1>5 DEF SetCategory
  <2>2. s \in ETFType /\ s.fresh = ui.fresh /\ s.sectors = ui.sectors /\ s.dataMode = ui.dataMode
    BY <1>0 DEF ETFType
  <2> HIDE DEF s
  <2>3. s.fresh => s.sectors.mode = s.dataMode
    BY <1>0, <2>2 DEF SectorsOfMode
  <2> QED
    BY <1>t, <2>1, <2>2, <2>3, FetchSectorsKeeps, EffectsKeep
<1>6. ASSUME RetrySectors PROVE ETFOK(ui')
  BY <1>0, <1>6, <1>t, FetchSectorsKeeps, EffectsKeep DEF RetrySectors, SectorsOfMode
<1>7. ASSUME NEW id \in Funds \cup {"sector", None}, Visit(id) PROVE ETFOK(ui')
  <2> DEFINE s == [ui EXCEPT !.id = id]
  <2>1. ui' = Effects(ui, s)
    BY <1>7 DEF Visit
  <2>2. /\ s \in ETFType /\ s.sectors = ui.sectors /\ s.fresh = ui.fresh /\ s.dataMode = ui.dataMode
        /\ s.loading = ui.loading /\ s.error = ui.error
    BY <1>0 DEF ETFType, Addresses
  <2> HIDE DEF s
  <2> QED
    BY <1>s, <2>1, <2>2, EffectsKeep
<1>8. ASSUME NEW fund \in Funds, LoadHoldings(fund) PROVE ETFOK(ui')
  <2> DEFINE g == Ask(f, "holdings", fund)
  <2>1. ui' = [ui EXCEPT !.asked = fund, !.holdings = None, !.holdingsError = FALSE, !.holdingsLoading = TRUE, !.flying = g]
    BY <1>8 DEF LoadHoldings
  <2>2. fund \in Addresses /\ None \in Addresses /\ "holdings" \in {"detail", "holdings"}
    BY DEF Addresses
  <2>3. g \in Seq(ETFRequests)
    <3> HIDE DEF f
    <3> QED
      BY <1>0, <2>2, ETFRequestsStay
  <2> HIDE DEF g
  <2>4. /\ ui' \in ETFType /\ ui'.sectors = ui.sectors /\ ui'.fresh = ui.fresh /\ ui'.dataMode = ui.dataMode
        /\ ui'.loading = ui.loading /\ ui'.error = ui.error
    BY <1>0, <2>1, <2>2, <2>3 DEF ETFType
  <2> QED
    BY <1>s, <2>4
<1>9. ASSUME RetryDetail PROVE ETFOK(ui')
  BY <1>9, DetailEffectKeeps DEF RetryDetail
<1>10. ASSUME SectorsAge PROVE ETFOK(ui')
  <2>1. /\ ui' \in ETFType /\ ui'.sectors = ui.sectors /\ ui'.fresh = FALSE /\ ui'.dataMode = ui.dataMode
        /\ ui'.loading = ui.loading /\ ui'.error = ui.error
    BY <1>0, <1>10 DEF SectorsAge, ETFType
  <2> QED
    BY <1>0, <2>1 DEF ETFOK, SectorsOfMode
<1> QED
  BY <1>1, <1>2, <1>3, <1>4, <1>5, <1>6, <1>7, <1>8, <1>9, <1>10 DEF ETFNext

\* The holdings: one symbol is looked up, the one in the field, and while it is,
\* no rows are left of another.
HoldingsOwn(s) ==
    /\ AtMostOne(s.flying, "holdings") /\ Owned(s.flying, "holdings", s.asked)
    /\ Waiting(s.flying, "holdings") => s.holdings = None
    /\ s.holdings # None => s.holdings = s.asked /\ ~s.holdingsLoading /\ ~s.holdingsError

\* What a change of the requests, and a change of the page, leaves of them.
LookupKept(f, g) ==
    /\ AtMostOne(f, "holdings") => AtMostOne(g, "holdings")
    /\ \A of : Owned(f, "holdings", of) => Owned(g, "holdings", of)
    /\ Waiting(g, "holdings") => Waiting(f, "holdings")

HoldingsKept(s, t) ==
    /\ t.asked = s.asked /\ t.holdings = s.holdings
    /\ t.holdingsLoading = s.holdingsLoading /\ t.holdingsError = s.holdingsError
    /\ LookupKept(s.flying, t.flying)

LEMMA HoldingsStay ==
    /\ \A s : HoldingsKept(s, s)
    /\ \A s, t, u : HoldingsKept(s, t) /\ HoldingsKept(t, u) => HoldingsKept(s, u)
    /\ \A s, t : HoldingsOwn(s) /\ HoldingsKept(s, t) => HoldingsOwn(t)
<1>1. \A f : LookupKept(f, f)
  BY DEF LookupKept
<1>2. \A f, g, h : LookupKept(f, g) /\ LookupKept(g, h) => LookupKept(f, h)
  BY DEF LookupKept
<1>3. ASSUME NEW s, NEW t, HoldingsOwn(s), HoldingsKept(s, t) PROVE HoldingsOwn(t)
  BY <1>3 DEF HoldingsOwn, HoldingsKept, LookupKept
<1>4. \A s : HoldingsKept(s, s)
  BY <1>1 DEF HoldingsKept
<1>5. ASSUME NEW s, NEW t, NEW u, HoldingsKept(s, t), HoldingsKept(t, u) PROVE HoldingsKept(s, u)
  BY <1>2, <1>5 DEF HoldingsKept
<1> QED
  BY <1>3, <1>4, <1>5

LEMMA LookupStays ==
    ASSUME NEW f \in Seq(ETFRequests)
    PROVE  /\ LookupKept(f, Superseded(f, "detail"))
           /\ \A of \in Addresses : LookupKept(f, Ask(f, "detail", of))
           /\ \A r \in ETFRequests : r.what = "sectors" => LookupKept(f, Append(f, r))
           /\ \A i \in DOMAIN f : LookupKept(f, Answered(f, i))
<1> DEFINE W == {"sectors", "detail", "holdings"}
           O == SectorQuestions \cup Addresses
<1>1. \A r \in ETFRequests : r \in Requests(W, O)
  BY DEF ETFRequests, Requests
<1>2. f \in Seq(Requests(W, O))
  <2> HIDE DEF W, O
  <2> QED
    BY <1>1, SeqWider
<1>3. "detail" \in W /\ "holdings" \in W /\ "detail" # "holdings" /\ \A of \in Addresses : of \in O
  OBVIOUS
<1> HIDE DEF W, O
<1>4. LookupKept(f, Superseded(f, "detail"))
  <2>1. AtMostOne(f, "holdings") => AtMostOne(Superseded(f, "detail"), "holdings")
    BY <1>2, OneOutdated
  <2>2. /\ \A of : Owned(f, "holdings", of) => Owned(Superseded(f, "detail"), "holdings", of)
        /\ Waiting(Superseded(f, "detail"), "holdings") => Waiting(f, "holdings")
    BY <1>2, Gate
  <2> QED
    BY <2>1, <2>2 DEF LookupKept
<1>5. ASSUME NEW of \in Addresses PROVE LookupKept(f, Ask(f, "detail", of))
  <2> DEFINE g == Ask(f, "detail", of)
  <2>0. of \in O
    BY <1>3
  <2>1. \A other : other # "detail" /\ AtMostOne(f, other) => AtMostOne(g, other)
    BY <1>2, <1>3, <2>0, OneAsked
  <2>2. /\ \A other : other # "detail" => (Waiting(g, other) <=> Waiting(f, other))
        /\ \A other, o : other # "detail" /\ Owned(f, other, o) => Owned(g, other, o)
    BY <1>2, <1>3, <2>0, GateAsk
  <2> HIDE DEF g
  <2>3. LookupKept(f, g)
    BY <1>3, <2>1, <2>2 DEF LookupKept
  <2> QED
    BY <2>3 DEF g
<1>6. ASSUME NEW r \in ETFRequests, r.what = "sectors" PROVE LookupKept(f, Append(f, r))
  <2> DEFINE g == Append(f, r)
  <2>1. \A j \in DOMAIN g : j = Len(f) + 1 \/ (j \in DOMAIN f /\ g[j] = f[j])
    BY OneMore
  <2>2. g[Len(f) + 1] = r
    BY OneMore
  <2> HIDE DEF g
  <2>3. \A j \in DOMAIN g : g[j].what = "holdings" => j \in DOMAIN f /\ g[j] = f[j]
    BY <1>6, <2>1, <2>2
  <2>4. LookupKept(f, g)
    BY <2>3 DEF LookupKept, AtMostOne, Owned, Waiting, Flying
  <2> QED
    BY <2>4 DEF g
<1>7. ASSUME NEW i \in DOMAIN f PROVE LookupKept(f, Answered(f, i))
  <2>1. AtMostOne(f, "holdings") => AtMostOne(Answered(f, i), "holdings")
    BY OneAnswered
  <2>2. /\ \A other, of : Owned(f, other, of) => Owned(Answered(f, i), other, of)
        /\ \A other : Waiting(Answered(f, i), other) => Waiting(f, other)
    BY GateAnswered
  <2> QED
    BY <2>1, <2>2 DEF LookupKept
<1> QED
  BY <1>4, <1>5, <1>6, <1>7

LEMMA HoldingsOfDetail ==
    ASSUME NEW s \in ETFType
    PROVE  HoldingsKept(s, DetailEffect(s))
<1> DEFINE f == s.flying
           g == Superseded(f, "detail")
           t == [s EXCEPT !.flying = g]
<1>1. f \in Seq(ETFRequests) /\ s.id \in Addresses /\ "detail" \in {"detail", "holdings"}
  BY DEF ETFType
<1>2. LookupKept(f, g) /\ g \in Seq(ETFRequests)
  <2> HIDE DEF f
  <2> QED
    BY <1>1, LookupStays, ETFRequestsStay
<1> HIDE DEF g
<1>3. t \in ETFType /\ t.flying = g /\ HoldingsKept(s, t)
  BY <1>2 DEF HoldingsKept, ETFType
<1>4. CASE s.id = None \/ s.loading \/ ActiveSector(s)
  BY <1>3, <1>4 DEF DetailEffect, g
<1>5. CASE ~(s.id = None \/ s.loading \/ ActiveSector(s))
  <2> DEFINE lookup == [id |-> s.id, status |-> "loading"]
             a == Ask(g, "detail", s.id)
             u == [t EXCEPT !.lookup = lookup, !.flying = a]
  <2>1. DetailEffect(s) = u
    BY <1>3, <1>5 DEF DetailEffect, g
  <2>2. LookupKept(g, a)
    BY <1>1, <1>2, LookupStays
  <2> HIDE DEF a, t, lookup
  <2>3. HoldingsKept(t, u)
    BY <1>3, <2>2 DEF HoldingsKept, ETFType
  <2> HIDE DEF u
  <2> QED
    BY <1>3, <2>1, <2>3, HoldingsStay
<1> QED
  BY <1>4, <1>5

LEMMA HoldingsOfEffects ==
    ASSUME NEW s, NEW t \in ETFType
    PROVE  HoldingsKept(t, Effects(s, t))
  BY HoldingsOfDetail, HoldingsStay DEF Effects

LEMMA HoldingsOfFetch ==
    ASSUME NEW s \in ETFType, NEW force \in BOOLEAN
    PROVE  HoldingsKept(s, FetchSectors(s, force))
<1> DEFINE f == s.flying
           t == FetchSectors(s, force)
<1>1. CASE ~force /\ s.sectors # NoSectors /\ s.fresh
  <2>1. t = [s EXCEPT !.sectors.category = s.category, !.loading = FALSE, !.error = FALSE]
    BY <1>1 DEF FetchSectors
  <2> HIDE DEF t
  <2>2. HoldingsKept(s, t)
    BY <2>1, HoldingsStay DEF HoldingsKept, ETFType
  <2> QED
    BY <2>2 DEF t
<1>2. CASE ~(~force /\ s.sectors # NoSectors /\ s.fresh)
  <2> DEFINE of == [mode |-> s.dataMode, category |-> s.category]
             new == [what |-> "sectors", current |-> TRUE, of |-> of]
             g == Append(f, new)
  <2>1. t = [s EXCEPT !.loading = TRUE, !.error = FALSE, !.flying = g]
    BY <1>2 DEF FetchSectors
  <2>2. of \in SectorQuestions /\ f \in Seq(ETFRequests)
    BY DEF ETFType, SectorQuestions
  <2> HIDE DEF of
  <2>3. new \in ETFRequests /\ new.what = "sectors"
    BY <2>2 DEF ETFRequests, Requests
  <2> HIDE DEF new
  <2>4. LookupKept(f, g)
    <3> HIDE DEF f
    <3> QED
      BY <2>2, <2>3, LookupStays
  <2> HIDE DEF g, t
  <2>5. HoldingsKept(s, t)
    BY <2>1, <2>4 DEF HoldingsKept, ETFType
  <2> QED
    BY <2>5 DEF t
<1> QED
  BY <1>1, <1>2

LEMMA HoldingsStart == ETFInit => HoldingsOwn(ui)
<1> SUFFICES ASSUME ETFInit PROVE HoldingsOwn(ui)
  OBVIOUS
<1>1. PICK id \in Funds \cup {"sector", None} :
        ui = FetchSectors([id |-> id, sectors |-> NoSectors, fresh |-> FALSE, loading |-> FALSE,
                           error |-> FALSE, dataMode |-> "current", category |-> "all",
                           lookup |-> NoLookup, asked |-> None, holdings |-> None,
                           holdingsLoading |-> FALSE, holdingsError |-> FALSE, flying |-> <<>>], FALSE)
  BY DEF ETFInit
<1> DEFINE f == <<>>
           s == [id |-> id, sectors |-> NoSectors, fresh |-> FALSE, loading |-> FALSE,
                 error |-> FALSE, dataMode |-> "current", category |-> "all",
                 lookup |-> NoLookup, asked |-> None, holdings |-> None,
                 holdingsLoading |-> FALSE, holdingsError |-> FALSE, flying |-> f]
<1>2. f \in Seq(ETFRequests) /\ AtMostOne(f, "holdings") /\ Owned(f, "holdings", None) /\ ~Waiting(f, "holdings")
  BY DEF AtMostOne, Owned, Waiting, Flying
<1>3. ui = FetchSectors(s, FALSE)
  BY <1>1
<1> HIDE DEF f
<1>4. s \in ETFType /\ HoldingsOwn(s)
  BY <1>2, ETFConstants DEF ETFType, Addresses, Modes, HoldingsOwn
<1> HIDE DEF s
<1>5. FALSE \in BOOLEAN
  OBVIOUS
<1> QED
  BY <1>3, <1>4, <1>5, HoldingsOfFetch, HoldingsStay

LEMMA HoldingsSteps ==
    ASSUME ETFOK(ui), HoldingsOwn(ui), ETFNext
    PROVE  HoldingsOwn(ui')
<1> DEFINE f == ui.flying
           h(i) == Answered(f, i)
<1>0. ui \in ETFType /\ f \in Seq(ETFRequests) /\ SectorsOfMode(ui)
  BY DEF ETFOK, ETFType
<1>h. ASSUME NEW i \in DOMAIN f PROVE h(i) \in Seq(ETFRequests) /\ f[i] \in ETFRequests /\ LookupKept(f, h(i))
  <2>1. f[i] \in ETFRequests
    BY <1>0
  <2> HIDE DEF f
  <2> QED
    BY <1>0, <2>1, AnsweredIn, LookupStays
<1>t. TRUE \in BOOLEAN /\ FALSE \in BOOLEAN
  OBVIOUS
<1>k. ASSUME HoldingsKept(ui, ui') PROVE HoldingsOwn(ui')
  BY <1>k, HoldingsStay
<1>e. ASSUME NEW s \in ETFType, HoldingsKept(ui, s), ui' = Effects(ui, s) PROVE HoldingsOwn(ui')
  <2>1. HoldingsKept(s, ui')
    BY <1>e, HoldingsOfEffects
  <2> QED
    BY <1>e, <1>k, <2>1, HoldingsStay
<1>1. ASSUME NEW i \in DOMAIN ui.flying, NEW ok \in BOOLEAN, SectorsAnswer(i, ok) PROVE HoldingsOwn(ui')
  <2> DEFINE asked == f[i].of
             s == WithSectors(ui, asked, ok)
             t == [s EXCEPT !.flying = h(i)]
  <2>0. h(i) \in Seq(ETFRequests) /\ f[i] \in ETFRequests /\ LookupKept(f, h(i))
    BY <1>h
  <2>1. f[i].what = "sectors"
    BY <1>1 DEF SectorsAnswer
  <2>2. asked \in SectorQuestions
    <3> HIDE DEF f
    <3> QED
      BY <2>0, <2>1 DEF ETFRequests, Requests
  <2>3. s.flying = f
    BY <1>0 DEF WithSectors, ETFType
  <2>4. ui' = Effects(ui, t)
    BY <1>1, <2>3 DEF SectorsAnswer
  <2> HIDE DEF asked, f, h
  <2>5. asked.mode \in Modes /\ NoSectors \in SectorQuestions \cup {NoSectors}
    BY <2>2, ETFConstants
  <2>6. /\ s \in ETFType /\ s.asked = ui.asked /\ s.holdings = ui.holdings
        /\ s.holdingsLoading = ui.holdingsLoading /\ s.holdingsError = ui.holdingsError
    <3>1. CASE ok
      <4>1. s = [ui EXCEPT !.dataMode = asked.mode, !.sectors = asked, !.fresh = TRUE, !.loading = FALSE, !.error = FALSE]
        BY <3>1 DEF WithSectors
      <4> HIDE DEF s
      <4> QED
        BY <1>0, <2>2, <2>5, <4>1 DEF ETFType
    <3>2. CASE ~ok
      <4>1. s = [ui EXCEPT !.sectors = NoSectors, !.fresh = FALSE, !.loading = FALSE, !.error = TRUE]
        BY <3>2 DEF WithSectors
      <4> HIDE DEF s
      <4> QED
        BY <1>0, <2>5, <4>1 DEF ETFType
    <3> QED
      BY <3>1, <3>2
  <2> HIDE DEF s
  <2>7. t \in ETFType /\ HoldingsKept(ui, t)
    BY <2>0, <2>6 DEF ETFType, HoldingsKept, f
  <2> HIDE DEF t
  <2> QED
    BY <1>e, <2>4, <2>7
<1>2. ASSUME NEW i \in DOMAIN ui.flying, NEW ok \in BOOLEAN, DetailAnswer(i, ok) PROVE HoldingsOwn(ui')
  <2> DEFINE status == IF ok THEN "ready" ELSE "error"
             lookup == [id |-> f[i].of, status |-> status]
             s == [ui EXCEPT !.lookup = lookup]
  <2>0. LookupKept(f, h(i))
    BY <1>h
  <2>1. Heard(i, s) /\ s.flying = f
    BY <1>0, <1>2 DEF DetailAnswer, ETFType
  <2> HIDE DEF lookup
  <2>2. ui' = [s EXCEPT !.flying = h(i)] \/ ui' = [ui EXCEPT !.flying = h(i)]
    BY <2>1 DEF Heard
  <2> HIDE DEF h
  <2> QED
    BY <1>0, <1>k, <2>0, <2>2 DEF HoldingsKept, ETFType
<1>3. ASSUME NEW i \in DOMAIN ui.flying, NEW ok \in BOOLEAN, HoldingsAnswer(i, ok) PROVE HoldingsOwn(ui')
  <2> DEFINE holdings == IF ok THEN f[i].of ELSE ui.holdings
             error == ~ok
             s == [ui EXCEPT !.holdings = holdings, !.holdingsError = error, !.holdingsLoading = FALSE]
             k == h(i)
  <2>0. LookupKept(f, k) /\ f[i] \in ETFRequests
    BY <1>h
  <2>1. f[i].what = "holdings" /\ Heard(i, s) /\ s.flying = f
    BY <1>0, <1>3 DEF HoldingsAnswer, ETFType
  <2>2. CASE ~f[i].current
    <3>1. ui' = [ui EXCEPT !.flying = k]
      BY <2>1, <2>2 DEF Heard
    <3> HIDE DEF k
    <3> QED
      BY <1>0, <1>k, <2>0, <3>1 DEF HoldingsKept, ETFType
  <2>3. CASE f[i].current
    <3>1. ui' = [s EXCEPT !.flying = k]
      BY <2>1, <2>3 DEF Heard
    <3>2. AtMostOne(f, "holdings") /\ Owned(f, "holdings", ui.asked)
      BY DEF HoldingsOwn
    <3>3. ~Waiting(k, "holdings")
      <4> HIDE DEF f
      <4>1. AtMostOne(f, f[i].what) /\ f[i].current => ~Waiting(Answered(f, i), f[i].what)
        BY <1>0, OneAnswered DEF f
      <4> QED
        BY <2>1, <2>3, <3>2, <4>1
    <3>4. f[i].of = ui.asked
      BY <2>1, <2>3, <3>2 DEF Owned
    <3>5. Waiting(f, "holdings")
      BY <2>1, <2>3 DEF Waiting, Flying
    <3>6. ui.holdings = None
      BY <3>5 DEF HoldingsOwn
    <3> HIDE DEF k, holdings, error
    <3>7. /\ ui'.flying = k /\ ui'.asked = ui.asked /\ ui'.holdings = holdings
          /\ ui'.holdingsLoading = FALSE /\ ui'.holdingsError = error
      BY <1>0, <3>1 DEF ETFType
    <3>8. holdings # None => holdings = ui.asked /\ ~error
      BY <3>4, <3>6 DEF holdings, error
    <3> QED
      BY <2>0, <3>2, <3>3, <3>7, <3>8 DEF HoldingsOwn, LookupKept
  <2> QED
    BY <2>2, <2>3
<1>4. ASSUME NEW mode \in {"current", "historical"}, SetDataMode(mode) PROVE HoldingsOwn(ui')
  <2> DEFINE s == [ui EXCEPT !.dataMode = mode, !.fresh = FALSE, !.error = FALSE]
  <2>1. ui' = Effects(ui, FetchSectors(s, TRUE))
    BY <1>4 DEF SetDataMode
  <2>2. s \in ETFType /\ s.fresh = FALSE /\ HoldingsKept(ui, s)
    <3>1. LookupKept(ui.flying, ui.flying)
      BY DEF LookupKept
    <3> QED
      BY <1>0, <3>1 DEF ETFType, Modes, HoldingsKept
  <2> HIDE DEF s
  <2>3. HoldingsKept(ui, FetchSectors(s, TRUE)) /\ FetchSectors(s, TRUE) \in ETFType
    BY <1>t, <2>2, HoldingsOfFetch, HoldingsStay, FetchSectorsKeeps DEF ETFOK
  <2> QED
    BY <1>e, <2>1, <2>3
<1>5. ASSUME NEW category \in Categories, SetCategory(category) PROVE HoldingsOwn(ui')
  <2> DEFINE s == [ui EXCEPT !.category = category]
  <2>1. ui' = Effects(ui, FetchSectors(s, FALSE))
    BY <1>5 DEF SetCategory
  <2>2. s \in ETFType /\ s.fresh = ui.fresh /\ s.sectors = ui.sectors /\ s.dataMode = ui.dataMode /\ HoldingsKept(ui, s)
    <3>1. LookupKept(ui.flying, ui.flying)
      BY DEF LookupKept
    <3> QED
      BY <1>0, <3>1 DEF ETFType, HoldingsKept
  <2> HIDE DEF s
  <2>3. s.fresh => s.sectors.mode = s.dataMode
    BY <1>0, <2>2 DEF SectorsOfMode
  <2>4. HoldingsKept(ui, FetchSectors(s, FALSE)) /\ FetchSectors(s, FALSE) \in ETFType
    BY <1>t, <2>2, <2>3, HoldingsOfFetch, HoldingsStay, FetchSectorsKeeps DEF ETFOK
  <2> QED
    BY <1>e, <2>1, <2>4
<1>6. ASSUME RetrySectors PROVE HoldingsOwn(ui')
  <2>1. ui' = Effects(ui, FetchSectors(ui, TRUE))
    BY <1>6 DEF RetrySectors
  <2>2. HoldingsKept(ui, FetchSectors(ui, TRUE)) /\ FetchSectors(ui, TRUE) \in ETFType
    BY <1>0, <1>t, HoldingsOfFetch, FetchSectorsKeeps DEF ETFOK, SectorsOfMode
  <2> QED
    BY <1>e, <2>1, <2>2
<1>7. ASSUME NEW id \in Funds \cup {"sector", None}, Visit(id) PROVE HoldingsOwn(ui')
  <2> DEFINE s == [ui EXCEPT !.id = id]
  <2>1. ui' = Effects(ui, s)
    BY <1>7 DEF Visit
  <2>2. s \in ETFType /\ HoldingsKept(ui, s)
    <3>1. LookupKept(ui.flying, ui.flying)
      BY DEF LookupKept
    <3> QED
      BY <1>0, <3>1 DEF ETFType, Addresses, HoldingsKept
  <2> HIDE DEF s
  <2> QED
    BY <1>e, <2>1, <2>2
<1>8. ASSUME NEW fund \in Funds, LoadHoldings(fund) PROVE HoldingsOwn(ui')
  <2> DEFINE g == Ask(f, "holdings", fund)
             W == {"sectors", "detail", "holdings"}
             O == SectorQuestions \cup Addresses
  <2>1. ui' = [ui EXCEPT !.asked = fund, !.holdings = None, !.holdingsError = FALSE, !.holdingsLoading = TRUE, !.flying = g]
    BY <1>8 DEF LoadHoldings
  <2>2. AtMostOne(g, "holdings") /\ Owned(g, "holdings", fund)
    <3>1. \A r \in ETFRequests : r \in Requests(W, O)
      BY DEF ETFRequests, Requests
    <3>2. f \in Seq(Requests(W, O))
      <4> HIDE DEF f, W, O
      <4> QED
        BY <1>0, <3>1, SeqWider
    <3>3. "holdings" \in W /\ fund \in O
      BY DEF Addresses
    <3> HIDE DEF f, W, O
    <3> QED
      BY <3>2, <3>3, OneAsked, GateAsk
  <2> HIDE DEF g
  <2>3. ui'.flying = g /\ ui'.asked = fund /\ ui'.holdings = None
    BY <1>0, <2>1 DEF ETFType
  <2> QED
    BY <2>2, <2>3 DEF HoldingsOwn
<1>9. ASSUME RetryDetail PROVE HoldingsOwn(ui')
  BY <1>0, <1>9, <1>k, HoldingsOfDetail DEF RetryDetail
<1>10. ASSUME SectorsAge PROVE HoldingsOwn(ui')
  <2>1. LookupKept(ui.flying, ui.flying)
    BY DEF LookupKept
  <2> QED
    BY <1>0, <1>10, <1>k, <2>1 DEF SectorsAge, ETFType, HoldingsKept
<1> QED
  BY <1>1, <1>2, <1>3, <1>4, <1>5, <1>6, <1>7, <1>8, <1>9, <1>10 DEF ETFNext

\* What the page waits for: sectors that load, holdings that are looked up, and the
\* lookup of the address, unless the sectors load or hold it.
DetailWaits(s) ==
    /\ Owned(s.flying, "detail", s.id)
    /\ s.id # None /\ ~s.loading /\ ~ActiveSector(s) /\ CurrentDetail(s) \in {"idle", "loading"}
          => Waiting(s.flying, "detail")

ListsWait(s) ==
    /\ s.loading => Some(s.flying, {"sectors"})
    /\ s.holdingsLoading => Waiting(s.flying, "holdings")

ETFWaits(s) == DetailWaits(s) /\ ListsWait(s)

ETFKinds == {"sectors", "detail", "holdings"}
ETFQuestions == SectorQuestions \cup Addresses

LEMMA ETFSeqs ==
    ASSUME NEW f \in Seq(ETFRequests)
    PROVE  f \in Seq(Requests(ETFKinds, ETFQuestions))
<1>1. \A r \in ETFRequests : r \in Requests(ETFKinds, ETFQuestions)
  BY DEF ETFRequests, Requests, ETFKinds, ETFQuestions
<1> QED
  BY <1>1, SeqWider

LEMMA DetailEffectWaits ==
    ASSUME NEW s \in ETFType, ListsWait(s)
    PROVE  ETFWaits(DetailEffect(s))
<1> DEFINE f == s.flying
           g == Superseded(f, "detail")
           t == [s EXCEPT !.flying = g]
           W == ETFKinds
           O == ETFQuestions
<1>1. f \in Seq(ETFRequests) /\ s.id \in Addresses /\ "detail" \in {"detail", "holdings"} /\ s.id \in O
  BY DEF ETFType, ETFQuestions
<1>2. f \in Seq(Requests(W, O)) /\ "detail" \in W
  BY <1>1, ETFSeqs DEF ETFKinds
<1> HIDE DEF W, O
<1>3. g \in Seq(ETFRequests)
  <2> HIDE DEF f
  <2> QED
    BY <1>1, ETFRequestsStay
<1>4. /\ g \in Seq(Requests(W, O))
      /\ \A other : other # "detail" /\ Waiting(f, other) => Waiting(g, other)
      /\ \A of : Owned(g, "detail", of)
      /\ \A whats : Some(f, whats) => Some(g, whats)
  BY <1>2, Gate
<1>5. /\ Waiting(f, "holdings") => Waiting(g, "holdings")
      /\ Some(f, {"sectors"}) => Some(g, {"sectors"})
  BY <1>4
<1> HIDE DEF g
<1>6. /\ t \in ETFType /\ t.flying = g /\ t.loading = s.loading /\ t.holdingsLoading = s.holdingsLoading /\ t.id = s.id
      /\ t.sectors = s.sectors
  BY <1>1, <1>3 DEF ETFType
<1>7. CASE s.id = None \/ s.loading \/ ActiveSector(s)
  <2>1. DetailEffect(s) = t
    BY <1>7 DEF DetailEffect, g
  <2> HIDE DEF t
  <2>2. ListsWait(t)
    BY <1>5, <1>6 DEF ListsWait, f
  <2>3. DetailWaits(t)
    BY <1>4, <1>6, <1>7 DEF DetailWaits, ActiveSector
  <2> QED
    BY <2>1, <2>2, <2>3 DEF ETFWaits
<1>8. CASE ~(s.id = None \/ s.loading \/ ActiveSector(s))
  <2> DEFINE lookup == [id |-> s.id, status |-> "loading"]
             a == Ask(g, "detail", s.id)
             u == [t EXCEPT !.lookup = lookup, !.flying = a]
  <2>1. DetailEffect(s) = u
    BY <1>6, <1>8 DEF DetailEffect, g
  <2>2. /\ Waiting(a, "detail") /\ Owned(a, "detail", s.id)
        /\ \A other : other # "detail" => (Waiting(a, other) <=> Waiting(g, other))
        /\ \A whats : Some(g, whats) \/ "detail" \in whats => Some(a, whats)
    BY <1>1, <1>2, <1>4, GateAsk
  <2>3. /\ Waiting(g, "holdings") => Waiting(a, "holdings")
        /\ Some(g, {"sectors"}) => Some(a, {"sectors"})
    BY <2>2
  <2> HIDE DEF a, t, lookup
  <2>4. u.flying = a /\ u.loading = s.loading /\ u.holdingsLoading = s.holdingsLoading /\ u.id = s.id
    BY <1>6 DEF ETFType
  <2> HIDE DEF u
  <2>5. DetailWaits(u)
    BY <2>2, <2>4 DEF DetailWaits
  <2>6. ListsWait(u)
    BY <1>5, <2>3, <2>4 DEF ListsWait, f
  <2> QED
    BY <2>1, <2>5, <2>6 DEF ETFWaits
<1> QED
  BY <1>7, <1>8

LEMMA EffectsWait ==
    ASSUME NEW s, NEW t \in ETFType, DetailWaits(s), t.lookup = s.lookup, KindKept(s.flying, t.flying, "detail"),
           ListsWait(t)
    PROVE  ETFWaits(Effects(s, t))
<1>1. CASE s.id # t.id \/ s.loading # t.loading \/ ActiveSector(s) # ActiveSector(t)
  BY <1>1, DetailEffectWaits DEF Effects
<1>2. CASE ~(s.id # t.id \/ s.loading # t.loading \/ ActiveSector(s) # ActiveSector(t))
  <2>1. Effects(s, t) = t
    BY <1>2 DEF Effects
  <2>2. t.id = s.id /\ t.loading = s.loading /\ ActiveSector(t) = ActiveSector(s) /\ CurrentDetail(t) = CurrentDetail(s)
    BY <1>2 DEF CurrentDetail
  <2>3. DetailWaits(t)
    BY <2>2, Zenon DEF DetailWaits, KindKept
  <2> QED
    BY <2>1, <2>3 DEF ETFWaits
<1> QED
  BY <1>1, <1>2

LEMMA FetchSectorsWaits ==
    ASSUME NEW s \in ETFType, NEW force \in BOOLEAN, s.holdingsLoading => Waiting(s.flying, "holdings")
    PROVE  /\ ListsWait(FetchSectors(s, force)) /\ FetchSectors(s, force).lookup = s.lookup
           /\ KindKept(s.flying, FetchSectors(s, force).flying, "detail")
<1> DEFINE f == s.flying
           t == FetchSectors(s, force)
<1>1. CASE ~force /\ s.sectors # NoSectors /\ s.fresh
  <2>1. t = [s EXCEPT !.sectors.category = s.category, !.loading = FALSE, !.error = FALSE]
    BY <1>1 DEF FetchSectors
  <2> HIDE DEF t
  <2>2. t.loading = FALSE /\ t.holdingsLoading = s.holdingsLoading /\ t.flying = f /\ t.lookup = s.lookup
    BY <2>1 DEF ETFType
  <2>3. ListsWait(t) /\ KindKept(f, t.flying, "detail")
    BY <2>2 DEF ListsWait, KindKept
  <2> QED
    BY <2>2, <2>3 DEF t
<1>2. CASE ~(~force /\ s.sectors # NoSectors /\ s.fresh)
  <2> DEFINE of == [mode |-> s.dataMode, category |-> s.category]
             new == [what |-> "sectors", current |-> TRUE, of |-> of]
             g == Append(f, new)
  <2>1. t = [s EXCEPT !.loading = TRUE, !.error = FALSE, !.flying = g]
    BY <1>2 DEF FetchSectors
  <2>2. of \in SectorQuestions /\ f \in Seq(ETFRequests)
    BY DEF ETFType, SectorQuestions
  <2> HIDE DEF of
  <2>3. new \in ETFRequests /\ new.what = "sectors"
    BY <2>2 DEF ETFRequests, Requests
  <2> HIDE DEF new, f
  <2>4. /\ \A other, o : Owned(f, other, o) /\ (new.what = other /\ new.current => new.of = o) => Owned(g, other, o)
        /\ \A other : Waiting(f, other) \/ (new.what = other /\ new.current) => Waiting(g, other)
    BY <2>2, <2>3, GateMore
  <2>5. Some(f, {"sectors"}) \/ new.what \in {"sectors"} => Some(g, {"sectors"})
    BY <2>2, SomeMore
  <2>6. Some(g, {"sectors"}) /\ KindKept(f, g, "detail") /\ (Waiting(f, "holdings") => Waiting(g, "holdings"))
    <3>1. new.what # "detail" /\ new.what \in {"sectors"}
      BY <2>3
    <3> HIDE DEF g
    <3> QED
      BY <3>1, <2>4, <2>5 DEF KindKept
  <2> HIDE DEF g, t
  <2>7. t.holdingsLoading = s.holdingsLoading /\ t.flying = g /\ t.lookup = s.lookup
    BY <2>1 DEF ETFType
  <2>8. ListsWait(t) /\ KindKept(f, t.flying, "detail")
    BY <2>6, <2>7 DEF ListsWait, f
  <2> QED
    BY <2>7, <2>8 DEF t, f
<1> QED
  BY <1>1, <1>2

LEMMA ETFWaitsStart == ETFInit => ETFWaits(ui)
<1> SUFFICES ASSUME ETFInit PROVE ETFWaits(ui)
  OBVIOUS
<1>1. PICK id \in Funds \cup {"sector", None} :
        ui = FetchSectors([id |-> id, sectors |-> NoSectors, fresh |-> FALSE, loading |-> FALSE,
                           error |-> FALSE, dataMode |-> "current", category |-> "all",
                           lookup |-> NoLookup, asked |-> None, holdings |-> None,
                           holdingsLoading |-> FALSE, holdingsError |-> FALSE, flying |-> <<>>], FALSE)
  BY DEF ETFInit
<1> DEFINE f == <<>>
           s == [id |-> id, sectors |-> NoSectors, fresh |-> FALSE, loading |-> FALSE,
                 error |-> FALSE, dataMode |-> "current", category |-> "all",
                 lookup |-> NoLookup, asked |-> None, holdings |-> None,
                 holdingsLoading |-> FALSE, holdingsError |-> FALSE, flying |-> f]
           of == [mode |-> "current", category |-> "all"]
           new == [what |-> "sectors", current |-> TRUE, of |-> of]
           g == Append(f, new)
           t == [s EXCEPT !.loading = TRUE, !.error = FALSE, !.flying = g]
<1>2. ui = t
  BY <1>1 DEF FetchSectors
<1>3. DOMAIN g = 1 .. 1 /\ g[1] = new
  OBVIOUS
<1>4. new.what = "sectors"
  OBVIOUS
<1> HIDE DEF f, new, g
<1>5. ui.loading = TRUE /\ ui.holdingsLoading = FALSE /\ ui.flying = g
  BY <1>2
<1>6. Some(g, {"sectors"}) /\ \A o : Owned(g, "detail", o)
  BY <1>3, <1>4 DEF Some, Owned
<1> QED
  BY <1>5, <1>6 DEF ETFWaits, DetailWaits, ListsWait

LEMMA ETFWaitsSteps ==
    ASSUME ETFOK(ui), ETFWaits(ui), ETFNext
    PROVE  ETFWaits(ui')
<1> DEFINE f == ui.flying
           h(i) == Answered(f, i)
<1>0. /\ ui \in ETFType /\ f \in Seq(ETFRequests) /\ SectorsOfMode(ui)
      /\ DetailWaits(ui) /\ ListsWait(ui)
  BY DEF ETFOK, ETFType, ETFWaits
<1>h. ASSUME NEW i \in DOMAIN f
      PROVE  /\ h(i) \in Seq(ETFRequests) /\ f[i] \in ETFRequests
             /\ \A of : Owned(f, "detail", of) => Owned(h(i), "detail", of)
             /\ Waiting(f, "detail") /\ (~f[i].current \/ f[i].what # "detail") => Waiting(h(i), "detail")
             /\ Waiting(f, "holdings") /\ (~f[i].current \/ f[i].what # "holdings") => Waiting(h(i), "holdings")
             /\ Some(f, {"sectors"}) /\ f[i].what # "sectors" => Some(h(i), {"sectors"})
  <2>1. f[i] \in ETFRequests
    BY <1>0
  <2> HIDE DEF f
  <2>2. h(i) \in Seq(ETFRequests)
    BY <1>0, AnsweredIn
  <2>3. /\ \A other, of : Owned(f, other, of) => Owned(h(i), other, of)
        /\ \A other : Waiting(f, other) /\ (~f[i].current \/ f[i].what # other) => Waiting(h(i), other)
    BY <1>0, GateAnswered
  <2>4. Some(f, {"sectors"}) /\ f[i].what \notin {"sectors"} => Some(h(i), {"sectors"})
    BY <1>0, SomeAnswered
  <2> HIDE DEF h
  <2> QED
    BY <2>1, <2>2, <2>3, <2>4
<1>t. TRUE \in BOOLEAN /\ FALSE \in BOOLEAN
  OBVIOUS
<1>w. ui.holdingsLoading => Waiting(f, "holdings")
  BY <1>0 DEF ListsWait
<1>k. KindKept(f, f, "detail")
  BY DEF KindKept
\* A fetch of the sectors, with what the mode or the filter has become.
<1>f. ASSUME NEW s \in ETFType, NEW force \in BOOLEAN, s.flying = f, s.lookup = ui.lookup,
             s.holdingsLoading = ui.holdingsLoading, s.fresh => s.sectors.mode = s.dataMode,
             ui' = Effects(ui, FetchSectors(s, force))
      PROVE  ETFWaits(ui')
  <2>1. FetchSectors(s, force) \in ETFType
    BY <1>f, FetchSectorsKeeps DEF ETFOK
  <2>2. /\ ListsWait(FetchSectors(s, force)) /\ FetchSectors(s, force).lookup = ui.lookup
        /\ KindKept(f, FetchSectors(s, force).flying, "detail")
    BY <1>f, <1>w, FetchSectorsWaits
  <2> QED
    BY <1>0, <1>f, <2>1, <2>2, EffectsWait
<1>1. ASSUME NEW i \in DOMAIN ui.flying, NEW ok \in BOOLEAN, SectorsAnswer(i, ok) PROVE ETFWaits(ui')
  <2> DEFINE asked == f[i].of
             s == WithSectors(ui, asked, ok)
             t == [s EXCEPT !.flying = h(i)]
  <2>0. h(i) \in Seq(ETFRequests) /\ f[i] \in ETFRequests
    BY <1>h
  <2>1. f[i].what = "sectors"
    BY <1>1 DEF SectorsAnswer
  <2>9. KindKept(f, h(i), "detail") /\ (Waiting(f, "holdings") => Waiting(h(i), "holdings"))
    BY <1>h, <2>1 DEF KindKept
  <2>2. asked \in SectorQuestions
    <3> HIDE DEF f
    <3> QED
      BY <2>0, <2>1 DEF ETFRequests, Requests
  <2>3. s.flying = f
    BY <1>0 DEF WithSectors, ETFType
  <2>4. ui' = Effects(ui, t)
    BY <1>1, <2>3 DEF SectorsAnswer
  <2> HIDE DEF asked, f, h
  <2>5. asked.mode \in Modes /\ NoSectors \in SectorQuestions \cup {NoSectors}
    BY <2>2, ETFConstants
  <2>6. s \in ETFType /\ s.lookup = ui.lookup /\ s.holdingsLoading = ui.holdingsLoading /\ s.loading = FALSE
    <3>1. CASE ok
      <4>1. s = [ui EXCEPT !.dataMode = asked.mode, !.sectors = asked, !.fresh = TRUE, !.loading = FALSE, !.error = FALSE]
        BY <3>1 DEF WithSectors
      <4> HIDE DEF s
      <4> QED
        BY <1>0, <2>2, <2>5, <4>1 DEF ETFType
    <3>2. CASE ~ok
      <4>1. s = [ui EXCEPT !.sectors = NoSectors, !.fresh = FALSE, !.loading = FALSE, !.error = TRUE]
        BY <3>2 DEF WithSectors
      <4> HIDE DEF s
      <4> QED
        BY <1>0, <2>5, <4>1 DEF ETFType
    <3> QED
      BY <3>1, <3>2
  <2> HIDE DEF s
  <2>7. t \in ETFType /\ t.lookup = ui.lookup /\ t.flying = h(i) /\ t.holdingsLoading = ui.holdingsLoading /\ t.loading = FALSE
    BY <2>0, <2>6 DEF ETFType
  <2> HIDE DEF t
  <2>8. ListsWait(t) /\ KindKept(ui.flying, t.flying, "detail")
    BY <1>w, <2>7, <2>9 DEF ListsWait, f
  <2> QED
    BY <1>0, <2>4, <2>7, <2>8, EffectsWait
<1>a. ASSUME NEW i \in DOMAIN f, NEW s \in ETFType, s.flying = f, s.id = ui.id, s.sectors = ui.sectors,
             s.loading = ui.loading, f[i].what # "sectors", Heard(i, s),
             f[i].current => /\ \/ s.lookup.id = ui.id /\ s.lookup.status \in {"ready", "error"}
                                \/ s.lookup = ui.lookup /\ f[i].what # "detail"
                             /\ s.holdingsLoading => ui.holdingsLoading /\ f[i].what # "holdings"
      PROVE  ETFWaits(ui')
  <2> DEFINE k == h(i)
  <2>0. Owned(f, "detail", ui.id) /\ (ui.loading => Some(f, {"sectors"}))
    BY <1>0 DEF DetailWaits, ListsWait
  <2>1. /\ Owned(k, "detail", ui.id) /\ (ui.loading => Some(k, {"sectors"}))
        /\ Waiting(f, "detail") /\ (~f[i].current \/ f[i].what # "detail") => Waiting(k, "detail")
        /\ Waiting(f, "holdings") /\ (~f[i].current \/ f[i].what # "holdings") => Waiting(k, "holdings")
    BY <1>a, <1>h, <2>0
  <2>2. CASE ~f[i].current
    <3>1. ui' = [ui EXCEPT !.flying = k]
      BY <1>a, <2>2 DEF Heard
    <3>2. k \in Seq(ETFRequests)
      BY <1>h
    <3> HIDE DEF k
    <3>3. /\ ui'.flying = k /\ ui'.id = ui.id /\ ui'.lookup = ui.lookup /\ ui'.sectors = ui.sectors
          /\ ui'.loading = ui.loading /\ ui'.holdingsLoading = ui.holdingsLoading
      BY <1>0, <3>1 DEF ETFType
    <3>4. ActiveSector(ui') = ActiveSector(ui) /\ CurrentDetail(ui') = CurrentDetail(ui)
      BY <3>3 DEF ActiveSector, CurrentDetail
    <3>5. DetailWaits(ui')
      BY <1>0, <2>1, <2>2, <3>3, <3>4, Zenon DEF DetailWaits
    <3>6. ListsWait(ui')
      BY <1>w, <2>1, <2>2, <3>3 DEF ListsWait
    <3> QED
      BY <3>5, <3>6 DEF ETFWaits
  <2>3. CASE f[i].current
    <3>1. ui' = [s EXCEPT !.flying = k]
      BY <1>a, <2>3 DEF Heard
    <3> HIDE DEF k
    <3>3. /\ ui'.flying = k /\ ui'.id = ui.id /\ ui'.lookup = s.lookup /\ ui'.sectors = ui.sectors
          /\ ui'.loading = ui.loading /\ ui'.holdingsLoading = s.holdingsLoading
      BY <1>a, <3>1 DEF ETFType
    <3>4. ActiveSector(ui') = ActiveSector(ui)
      BY <3>3 DEF ActiveSector
    <3>5. DetailWaits(ui')
      <4>1. CASE s.lookup.id = ui.id /\ s.lookup.status \in {"ready", "error"}
        <5>1. CurrentDetail(ui') \notin {"idle", "loading"}
          BY <3>3, <4>1 DEF CurrentDetail
        <5> QED
          BY <2>1, <3>3, <5>1 DEF DetailWaits
      <4>2. CASE s.lookup = ui.lookup /\ f[i].what # "detail"
        <5>1. CurrentDetail(ui') = CurrentDetail(ui)
          BY <3>3, <4>2 DEF CurrentDetail
        <5> QED
          BY <1>0, <2>1, <3>3, <3>4, <4>2, <5>1, Zenon DEF DetailWaits
      <4> QED
        BY <1>a, <2>3, <4>1, <4>2
    <3>6. ListsWait(ui')
      BY <1>a, <1>w, <2>1, <2>3, <3>3 DEF ListsWait
    <3> QED
      BY <3>5, <3>6 DEF ETFWaits
  <2> QED
    BY <2>2, <2>3
<1>2. ASSUME NEW i \in DOMAIN ui.flying, NEW ok \in BOOLEAN, DetailAnswer(i, ok) PROVE ETFWaits(ui')
  <2> DEFINE status == IF ok THEN "ready" ELSE "error"
             lookup == [id |-> f[i].of, status |-> status]
             s == [ui EXCEPT !.lookup = lookup]
  <2>0. f[i] \in ETFRequests
    BY <1>h
  <2>1. f[i].what = "detail" /\ Heard(i, s)
    BY <1>2 DEF DetailAnswer
  <2>2. f[i].of \in Addresses
    <3> HIDE DEF f
    <3> QED
      BY <2>0, <2>1 DEF ETFRequests, Requests
  <2>3. lookup \in [id : Addresses, status : {"idle", "loading", "ready", "error"}]
    BY <2>2
  <2>4. f[i].current => lookup.id = ui.id
    BY <1>0, <2>1 DEF DetailWaits, Owned
  <2>5. lookup.status \in {"ready", "error"}
    OBVIOUS
  <2> HIDE DEF lookup
  <2>6. /\ s \in ETFType /\ s.flying = f /\ s.id = ui.id /\ s.sectors = ui.sectors /\ s.loading = ui.loading
        /\ s.lookup = lookup /\ s.holdingsLoading = ui.holdingsLoading
    BY <1>0, <2>3 DEF ETFType
  <2> HIDE DEF s
  <2>7. f[i].what # "sectors" /\ f[i].what # "holdings"
    BY <2>1
  <2>8. f[i].current => s.lookup.id = ui.id /\ s.lookup.status \in {"ready", "error"}
    BY <2>4, <2>5, <2>6
  <2>9. s.holdingsLoading => ui.holdingsLoading /\ f[i].what # "holdings"
    BY <2>6, <2>7
  <2> QED
    BY <1>a, <2>1, <2>6, <2>7, <2>8, <2>9
<1>3. ASSUME NEW i \in DOMAIN ui.flying, NEW ok \in BOOLEAN, HoldingsAnswer(i, ok) PROVE ETFWaits(ui')
  <2> DEFINE holdings == IF ok THEN f[i].of ELSE ui.holdings
             error == ~ok
             s == [ui EXCEPT !.holdings = holdings, !.holdingsError = error, !.holdingsLoading = FALSE]
  <2>0. f[i] \in ETFRequests
    BY <1>h
  <2>1. f[i].what = "holdings" /\ Heard(i, s)
    BY <1>3 DEF HoldingsAnswer
  <2>2. f[i].of \in Addresses
    <3> HIDE DEF f
    <3> QED
      BY <2>0, <2>1 DEF ETFRequests, Requests
  <2>3. holdings \in Addresses
    BY <1>0, <2>2 DEF ETFType
  <2>5. error \in BOOLEAN
    OBVIOUS
  <2> HIDE DEF holdings, error
  <2>6. /\ s \in ETFType /\ s.flying = f /\ s.id = ui.id /\ s.sectors = ui.sectors /\ s.loading = ui.loading
        /\ s.lookup = ui.lookup /\ s.holdingsLoading = FALSE
    BY <1>0, <2>3, <2>5 DEF ETFType
  <2> HIDE DEF s, f
  <2> QED
    BY <1>a, <2>1, <2>6 DEF f
<1>4. ASSUME NEW mode \in {"current", "historical"}, SetDataMode(mode) PROVE ETFWaits(ui')
  <2> DEFINE s == [ui EXCEPT !.dataMode = mode, !.fresh = FALSE, !.error = FALSE]
  <2>1. ui' = Effects(ui, FetchSectors(s, TRUE))
    BY <1>4 DEF SetDataMode
  <2>2. s \in ETFType /\ s.fresh = FALSE /\ s.flying = f /\ s.lookup = ui.lookup /\ s.holdingsLoading = ui.holdingsLoading
    BY <1>0 DEF ETFType, Modes
  <2> HIDE DEF s
  <2> QED
    BY <1>f, <1>t, <2>1, <2>2
<1>5. ASSUME NEW category \in Categories, SetCategory(category) PROVE ETFWaits(ui')
  <2> DEFINE s == [ui EXCEPT !.category = category]
  <2>1. ui' = Effects(ui, FetchSectors(s, FALSE))
    BY <1>5 DEF SetCategory
  <2>2. /\ s \in ETFType /\ s.fresh = ui.fresh /\ s.sectors = ui.sectors /\ s.dataMode = ui.dataMode
        /\ s.flying = f /\ s.lookup = ui.lookup /\ s.holdingsLoading = ui.holdingsLoading
    BY <1>0 DEF ETFType
  <2> HIDE DEF s
  <2>3. s.fresh => s.sectors.mode = s.dataMode
    BY <1>0, <2>2 DEF SectorsOfMode
  <2> QED
    BY <1>f, <1>t, <2>1, <2>2, <2>3
<1>6. ASSUME RetrySectors PROVE ETFWaits(ui')
  <2>1. ui' = Effects(ui, FetchSectors(ui, TRUE))
    BY <1>6 DEF RetrySectors
  <2>2. ui.fresh => ui.sectors.mode = ui.dataMode
    BY <1>0 DEF SectorsOfMode
  <2> QED
    BY <1>0, <1>f, <1>t, <2>1, <2>2
<1>7. ASSUME NEW id \in Funds \cup {"sector", None}, Visit(id) PROVE ETFWaits(ui')
  <2> DEFINE s == [ui EXCEPT !.id = id]
  <2>1. ui' = Effects(ui, s)
    BY <1>7 DEF Visit
  <2>2. /\ s \in ETFType /\ s.flying = f /\ s.lookup = ui.lookup /\ s.holdingsLoading = ui.holdingsLoading
        /\ s.loading = ui.loading
    BY <1>0 DEF ETFType, Addresses
  <2> HIDE DEF s
  <2>3. ListsWait(s)
    BY <1>0, <2>2 DEF ListsWait
  <2> QED
    BY <1>0, <1>k, <2>1, <2>2, <2>3, EffectsWait
<1>8. ASSUME NEW fund \in Funds, LoadHoldings(fund) PROVE ETFWaits(ui')
  <2> DEFINE g == Ask(f, "holdings", fund)
             W == ETFKinds
             O == ETFQuestions
  <2>1. ui' = [ui EXCEPT !.asked = fund, !.holdings = None, !.holdingsError = FALSE, !.holdingsLoading = TRUE, !.flying = g]
    BY <1>8 DEF LoadHoldings
  <2>2. f \in Seq(Requests(W, O)) /\ "holdings" \in W /\ fund \in O
    <3>1. "holdings" \in W /\ fund \in O
      BY DEF Addresses, ETFKinds, ETFQuestions
    <3> HIDE DEF f, W, O
    <3> QED
      BY <1>0, <3>1, ETFSeqs DEF W, O
  <2> HIDE DEF f, W, O
  <2>3. /\ Waiting(g, "holdings")
        /\ \A other : other # "holdings" => (Waiting(g, other) <=> Waiting(f, other))
        /\ \A other, o : other # "holdings" /\ Owned(f, other, o) => Owned(g, other, o)
        /\ \A whats : Some(f, whats) \/ "holdings" \in whats => Some(g, whats)
    BY <2>2, GateAsk
  <2>4. /\ Waiting(f, "detail") => Waiting(g, "detail")
        /\ Owned(f, "detail", ui.id) => Owned(g, "detail", ui.id)
        /\ Some(f, {"sectors"}) => Some(g, {"sectors"})
    BY <2>3
  <2> HIDE DEF g
  <2>5. /\ ui'.flying = g /\ ui'.id = ui.id /\ ui'.lookup = ui.lookup /\ ui'.sectors = ui.sectors
        /\ ui'.loading = ui.loading
    BY <1>0, <2>1 DEF ETFType
  <2>6. ActiveSector(ui') = ActiveSector(ui) /\ CurrentDetail(ui') = CurrentDetail(ui)
    BY <2>5 DEF ActiveSector, CurrentDetail
  <2>7. DetailWaits(ui')
    BY <1>0, <2>4, <2>5, <2>6, Zenon DEF DetailWaits, f
  <2>8. ListsWait(ui')
    BY <1>0, <2>3, <2>4, <2>5 DEF ListsWait, f
  <2> QED
    BY <2>7, <2>8 DEF ETFWaits
<1>9. ASSUME RetryDetail PROVE ETFWaits(ui')
  BY <1>0, <1>9, DetailEffectWaits DEF RetryDetail
<1>10. ASSUME SectorsAge PROVE ETFWaits(ui')
  <2>1. /\ ui'.flying = f /\ ui'.id = ui.id /\ ui'.lookup = ui.lookup /\ ui'.sectors = ui.sectors
        /\ ui'.loading = ui.loading /\ ui'.holdingsLoading = ui.holdingsLoading
    BY <1>0, <1>10 DEF SectorsAge, ETFType
  <2>2. ActiveSector(ui') = ActiveSector(ui) /\ CurrentDetail(ui') = CurrentDetail(ui)
    BY <2>1 DEF ActiveSector, CurrentDetail
  <2>3. DetailWaits(ui')
    BY <1>0, <2>1, <2>2, Zenon DEF DetailWaits
  <2>4. ListsWait(ui')
    BY <1>0, <2>1 DEF ListsWait
  <2> QED
    BY <2>3, <2>4 DEF ETFWaits
<1> QED
  BY <1>1, <1>2, <1>3, <1>4, <1>5, <1>6, <1>7, <1>8, <1>9, <1>10 DEF ETFNext

LEMMA ETFWaitsTold ==
    ASSUME ETFOK(ui), ETFWaits(ui)
    PROVE  ETFNeverStuck
<1> DEFINE f == ui.flying
<1>1. ui.loading => Flying(f, "sectors") # {}
  BY DEF ETFWaits, ListsWait, Some, Flying
<1>2. ui.holdingsLoading => Waiting(f, "holdings")
  BY DEF ETFWaits, ListsWait
<1>3. ASSUME NEW what, Flying(f, what) # {} PROVE f # <<>>
  <2>1. \E i \in DOMAIN f : TRUE
    BY <1>3 DEF Flying
  <2> QED
    BY <2>1
<1>4. Waiting(f, "detail") => Flying(f, "detail") # {}
  BY DEF Waiting
<1>5. ETFForm(ui) = "spinner" => ui.id # None /\ ~ActiveSector(ui) /\ (ui.loading \/ CurrentDetail(ui) \in {"idle", "loading"})
  BY DEF ETFForm, ListForm
<1>6. ETFForm(ui) = "spinner" => Flying(f, "sectors") # {} \/ Flying(f, "detail") # {}
  BY <1>1, <1>4, <1>5 DEF ETFWaits, DetailWaits
<1> QED
  BY <1>1, <1>2, <1>3, <1>6 DEF ETFNeverStuck

LEMMA ETFTold ==
    ASSUME ETFOK(ui), HoldingsOwn(ui)
    PROVE  ETFListMarked /\ ETFShowsSelection
<1>1. ETFForm(ui) = "list" => ~ui.loading /\ ~ui.error
  BY DEF ETFForm, ListForm
<1>2. SectorsOfMode(ui)
  BY DEF ETFOK
<1>3. HoldingsPane(ui).busy = ui.holdingsLoading /\ HoldingsPane(ui).error = ui.holdingsError /\ HoldingsPane(ui).rows = ui.holdings
  BY DEF HoldingsPane
<1>4. ETFShowsSelection
  BY <1>3 DEF ETFShowsSelection, HoldingsOwn
<1>5. ETFListMarked
  BY <1>1, <1>2 DEF ETFListMarked, HistoricalNotice, SectorsOfMode
<1> QED
  BY <1>4, <1>5

-----------------------------------------------------------------------------
(* The personal ledger *)

Holdings == [units : BOOLEAN, has : SUBSET Details]

QuoteStatus == [state : {"loading", "live", "stale", "unavailable"}, missing : SUBSET Symbols]

LedgerRequests ==
    Requests({"quotes"}, SUBSET Symbols) \cup Requests({"name"}, [sym : Symbols, has : SUBSET Details])
        \cup Requests({"hits"}, {"q", None})

LedgerType ==
    [tab : {"watchlist", "holdings"}, watch : SUBSET Symbols, held : [Symbols -> Holdings], quotes : SUBSET Symbols,
     status : QuoteStatus, visible : BOOLEAN, query : {"q", None}, hits : {"q", None}, flying : Seq(LedgerRequests)]

\* The quotes that are waited for are those of the ledger as it is.
QuotesOwned(s) ==
    /\ Owned(s.flying, "quotes", Quoted(s))
    /\ AtMostOne(s.flying, "quotes")
    /\ Waiting(s.flying, "quotes") => s.status.state = "loading"

\* What the line says of the quotes that are kept.
QuotesCounted(s) ==
    /\ s.quotes # {} => s.status.state \in {"live", "loading"}
    /\ s.visible /\ s.status.state = "live" /\ Quoted(s) # {} => s.status.missing = Quoted(s) \ s.quotes

LedgerOK(s) == s \in LedgerType /\ QuotesOwned(s) /\ QuotesCounted(s)

LEMMA QuotedIs ==
    ASSUME NEW s \in LedgerType
    PROVE  Quoted(s) \in SUBSET Symbols
  BY DEF Quoted, Held, LedgerType

LEMMA LedgerRequestIs ==
    /\ \A what : \A r \in LedgerRequests :
          /\ Outdated(r, what) \in LedgerRequests
          /\ Outdated(r, what).what = r.what /\ Outdated(r, what).of = r.of
          /\ Outdated(r, what).current <=> r.current /\ r.what # what
    /\ \A of \in SUBSET Symbols : [what |-> "quotes", of |-> of, current |-> TRUE] \in LedgerRequests
    /\ \A of \in [sym : Symbols, has : SUBSET Details] : [what |-> "name", of |-> of, current |-> TRUE] \in LedgerRequests
    /\ [what |-> "hits", of |-> "q", current |-> TRUE] \in LedgerRequests
    /\ \A r \in LedgerRequests :
          /\ r.what = "quotes" => r.of \in SUBSET Symbols
          /\ r.what = "name" => r.of \in [sym : Symbols, has : SUBSET Details]
          /\ r.what = "hits" => r.of \in {"q", None}
<1>1. ASSUME NEW r \in LedgerRequests, NEW what
      PROVE  /\ Outdated(r, what) \in LedgerRequests
             /\ Outdated(r, what).what = r.what /\ Outdated(r, what).of = r.of
             /\ Outdated(r, what).current <=> r.current /\ r.what # what
  <2>1. CASE r \in Requests({"quotes"}, SUBSET Symbols)
    BY <2>1, OutdatedIs DEF LedgerRequests
  <2>2. CASE r \in Requests({"name"}, [sym : Symbols, has : SUBSET Details])
    BY <2>2, OutdatedIs DEF LedgerRequests
  <2>3. CASE r \in Requests({"hits"}, {"q", None})
    BY <2>3, OutdatedIs DEF LedgerRequests
  <2> QED
    BY <2>1, <2>2, <2>3 DEF LedgerRequests
<1>2. /\ \A of \in SUBSET Symbols : [what |-> "quotes", of |-> of, current |-> TRUE] \in LedgerRequests
      /\ \A of \in [sym : Symbols, has : SUBSET Details] : [what |-> "name", of |-> of, current |-> TRUE] \in LedgerRequests
      /\ [what |-> "hits", of |-> "q", current |-> TRUE] \in LedgerRequests
  BY DEF LedgerRequests, Requests
<1>3. ASSUME NEW r \in LedgerRequests
      PROVE  /\ r.what = "quotes" => r.of \in SUBSET Symbols
             /\ r.what = "name" => r.of \in [sym : Symbols, has : SUBSET Details]
             /\ r.what = "hits" => r.of \in {"q", None}
  BY DEF LedgerRequests, Requests
<1> QED
  BY <1>1, <1>2, <1>3

\* The requests of the ledger that are made outdated, and those that are sent.
LEMMA LedgerOutdated ==
    ASSUME NEW f \in Seq(LedgerRequests), NEW what
    PROVE  /\ Superseded(f, what) \in Seq(LedgerRequests)
           /\ \A of : Owned(f, "quotes", of) => Owned(Superseded(f, what), "quotes", of)
           /\ AtMostOne(f, "quotes") => AtMostOne(Superseded(f, what), "quotes")
           /\ Waiting(Superseded(f, what), "quotes") => Waiting(f, "quotes")
           /\ what = "quotes" => /\ ~Waiting(Superseded(f, what), "quotes")
                                 /\ AtMostOne(Superseded(f, what), "quotes")
                                 /\ \A of : Owned(Superseded(f, what), "quotes", of)
<1> DEFINE g == Superseded(f, what)
<1>1. \A r \in LedgerRequests : Outdated(r, what) \in LedgerRequests
  BY LedgerRequestIs
<1>2. g \in Seq(LedgerRequests)
  BY <1>1, SupersededIn
<1>3. DOMAIN g = 1 .. Len(f) /\ \A i \in DOMAIN f : g[i] = Outdated(f[i], what)
  BY SupersededIs
<1>4. DOMAIN f = 1 .. Len(f) /\ \A i \in DOMAIN f : f[i] \in LedgerRequests
  OBVIOUS
<1>5. \A i \in DOMAIN f : g[i].what = f[i].what /\ g[i].of = f[i].of /\ (g[i].current <=> f[i].current /\ f[i].what # what)
  BY <1>3, <1>4, LedgerRequestIs
<1> HIDE DEF g
<1>6. /\ \A of : Owned(f, "quotes", of) => Owned(g, "quotes", of)
      /\ what = "quotes" => \A of : Owned(g, "quotes", of)
  BY <1>3, <1>4, <1>5 DEF Owned
<1>7. /\ AtMostOne(f, "quotes") => AtMostOne(g, "quotes")
      /\ what = "quotes" => AtMostOne(g, "quotes")
  BY <1>3, <1>4, <1>5 DEF AtMostOne
<1>8. /\ Waiting(g, "quotes") => Waiting(f, "quotes")
      /\ what = "quotes" => ~Waiting(g, "quotes")
  BY <1>3, <1>4, <1>5 DEF Waiting, Flying
<1> QED
  BY <1>2, <1>6, <1>7, <1>8 DEF g

LEMMA LedgerSent ==
    ASSUME NEW f \in Seq(LedgerRequests), NEW r \in LedgerRequests
    PROVE  /\ Append(f, r) \in Seq(LedgerRequests)
           /\ \A of : Owned(f, "quotes", of) /\ (r.what = "quotes" => r.of = of) => Owned(Append(f, r), "quotes", of)
           /\ r.what # "quotes" => /\ AtMostOne(f, "quotes") => AtMostOne(Append(f, r), "quotes")
                                   /\ Waiting(Append(f, r), "quotes") => Waiting(f, "quotes")
           /\ ~Waiting(f, "quotes") => AtMostOne(Append(f, r), "quotes")
<1> DEFINE g == Append(f, r)
<1>1. /\ g \in Seq(LedgerRequests) /\ g[Len(f) + 1] = r
      /\ \A i \in DOMAIN g : i = Len(f) + 1 \/ (i \in DOMAIN f /\ g[i] = f[i])
  BY OneMore
<1> HIDE DEF g
<1>2. \A of : Owned(f, "quotes", of) /\ (r.what = "quotes" => r.of = of) => Owned(g, "quotes", of)
  BY <1>1 DEF Owned
<1>3. ASSUME r.what # "quotes"
      PROVE  /\ AtMostOne(f, "quotes") => AtMostOne(g, "quotes")
             /\ Waiting(g, "quotes") => Waiting(f, "quotes")
  BY <1>1, <1>3 DEF AtMostOne, Waiting, Flying
<1>4. ~Waiting(f, "quotes") => AtMostOne(g, "quotes")
  BY <1>1 DEF AtMostOne, Waiting, Flying
<1> QED
  BY <1>1, <1>2, <1>3, <1>4 DEF g

\* A poll asks for the ledger as it is and says that it loads.
LEMMA PollKeeps ==
    ASSUME NEW s \in LedgerType, QuotesOwned(s), s.quotes # {} => s.status.state \in {"live", "loading"},
           ~s.visible => QuotesCounted(s)
    PROVE  LedgerOK(Poll(s))
<1>1. CASE ~s.visible \/ Waiting(s.flying, "quotes")
  <2>1. Poll(s) = s
    BY <1>1 DEF Poll
  <2>2. QuotesCounted(s)
    BY <1>1 DEF QuotesCounted, QuotesOwned
  <2> QED
    BY <2>1, <2>2 DEF LedgerOK
<1>2. CASE ~(~s.visible \/ Waiting(s.flying, "quotes"))
  <2> DEFINE status == [state |-> "loading", missing |-> {}]
             f == s.flying
             q == Superseded(f, "quotes")
             new == [what |-> "quotes", of |-> Quoted(s), current |-> TRUE]
             g == Append(q, new)
             t == Poll(s)
  <2>1. t = [s EXCEPT !.status = status, !.flying = g]
    BY <1>2 DEF Poll, Ask
  <2>2. status \in QuoteStatus /\ status.state = "loading"
    BY DEF QuoteStatus
  <2>3. f \in Seq(LedgerRequests)
    BY DEF LedgerType
  <2> HIDE DEF f, status
  <2>4. q \in Seq(LedgerRequests) /\ ~Waiting(q, "quotes") /\ Owned(q, "quotes", Quoted(s))
    BY <2>3, LedgerOutdated
  <2>5. new \in LedgerRequests /\ new.of = Quoted(s)
    BY QuotedIs, LedgerRequestIs
  <2> HIDE DEF q, new
  <2>6. g \in Seq(LedgerRequests) /\ Owned(g, "quotes", Quoted(s)) /\ AtMostOne(g, "quotes")
    BY <2>4, <2>5, LedgerSent
  <2> HIDE DEF g, t
  <2>7. /\ t \in LedgerType /\ t.flying = g /\ t.status = status /\ t.watch = s.watch /\ t.held = s.held
    BY <2>1, <2>2, <2>6 DEF LedgerType
  <2>8. Quoted(t) = Quoted(s)
    BY <2>7 DEF Quoted, Held
  <2>9. LedgerOK(t)
    BY <2>2, <2>6, <2>7, <2>8 DEF LedgerOK, QuotesOwned, QuotesCounted
  <2> QED
    BY <2>9 DEF t
<1> QED
  BY <1>1, <1>2

\* A change of the ledger voids the poll that runs.
LEMMA LedgerEffectKeeps ==
    ASSUME NEW s \in LedgerType, s.quotes # {} => s.status.state \in {"live", "loading"}
    PROVE  LedgerOK(LedgerEffect(s))
<1> DEFINE f == s.flying
           g == Superseded(f, "quotes")
           t == [s EXCEPT !.flying = g]
<1>1. f \in Seq(LedgerRequests)
  BY DEF LedgerType
<1> HIDE DEF f
<1>2. g \in Seq(LedgerRequests) /\ ~Waiting(g, "quotes") /\ AtMostOne(g, "quotes") /\ \A of : Owned(g, "quotes", of)
  BY <1>1, LedgerOutdated
<1> HIDE DEF g
<1>3. /\ t \in LedgerType /\ t.flying = g /\ t.watch = s.watch /\ t.held = s.held /\ t.quotes = s.quotes
      /\ t.status = s.status /\ t.visible = s.visible
  BY <1>2 DEF LedgerType
<1>4. LedgerEffect(s) = IF Quoted(s) = {} THEN [t EXCEPT !.quotes = {}, !.status = [state |-> "unavailable", missing |-> {}]]
                        ELSE Poll(t)
  BY DEF LedgerEffect, f, g
<1> HIDE DEF t
<1>5. Quoted(t) = Quoted(s)
  BY <1>3 DEF Quoted, Held
<1>6. QuotesOwned(t)
  BY <1>2, <1>3 DEF QuotesOwned
<1>7. CASE Quoted(s) = {}
  <2> DEFINE status == [state |-> "unavailable", missing |-> {}]
             u == [t EXCEPT !.quotes = {}, !.status = status]
  <2>1. LedgerEffect(s) = u
    BY <1>4, <1>7
  <2>2. status \in QuoteStatus /\ status.state = "unavailable"
    BY DEF QuoteStatus
  <2> HIDE DEF status
  <2>3. u \in LedgerType /\ u.flying = g /\ u.quotes = {} /\ u.status = status
    BY <1>3, <2>2 DEF LedgerType
  <2> HIDE DEF u
  <2> QED
    BY <1>2, <2>1, <2>2, <2>3 DEF LedgerOK, QuotesOwned, QuotesCounted
<1>8. CASE Quoted(s) # {}
  <2>1. ~t.visible => QuotesCounted(t)
    BY <1>3 DEF QuotesCounted
  <2> QED
    BY <1>3, <1>4, <1>6, <1>8, <2>1, PollKeeps
<1> QED
  BY <1>7, <1>8

LEMMA NotHeldIs == NotHeld \in Holdings
  BY DEF NotHeld, Holdings

LEMMA PortfolioStarts == PortfolioInit => LedgerOK(ui)
<1> SUFFICES ASSUME PortfolioInit PROVE LedgerOK(ui)
  OBVIOUS
<1> DEFINE f == <<>>
           held == [sym \in Symbols |-> NotHeld]
           status == [state |-> "loading", missing |-> {}]
<1>1. PICK watch \in SUBSET Symbols :
        ui = LedgerEffect([tab |-> "watchlist", watch |-> watch, held |-> held, quotes |-> {},
                           status |-> status, visible |-> TRUE, query |-> None, hits |-> None, flying |-> f])
  BY DEF PortfolioInit
<1> DEFINE s == [tab |-> "watchlist", watch |-> watch, held |-> held, quotes |-> {},
                 status |-> status, visible |-> TRUE, query |-> None, hits |-> None, flying |-> f]
<1>2. f \in Seq(LedgerRequests)
  OBVIOUS
<1>3. held \in [Symbols -> Holdings] /\ status \in QuoteStatus
  BY NotHeldIs DEF QuoteStatus
<1>4. ui = LedgerEffect(s)
  BY <1>1
<1> HIDE DEF f, held, status
<1>5. s \in LedgerType /\ s.quotes = {}
  BY <1>2, <1>3 DEF LedgerType
<1> HIDE DEF s
<1> QED
  BY <1>4, <1>5, LedgerEffectKeeps

LEMMA PortfolioSteps ==
    ASSUME LedgerOK(ui), PortfolioNext
    PROVE  LedgerOK(ui')
<1> DEFINE f == ui.flying
           h(i) == Answered(f, i)
<1>0. /\ ui \in LedgerType /\ f \in Seq(LedgerRequests) /\ QuotesOwned(ui) /\ QuotesCounted(ui)
      /\ ui.quotes # {} => ui.status.state \in {"live", "loading"}
  BY DEF LedgerOK, LedgerType, QuotesCounted
<1>h. ASSUME NEW i \in DOMAIN f
      PROVE  /\ h(i) \in Seq(LedgerRequests) /\ f[i] \in LedgerRequests
             /\ \A of : Owned(f, "quotes", of) => Owned(h(i), "quotes", of)
             /\ AtMostOne(f, "quotes") => AtMostOne(h(i), "quotes")
             /\ Waiting(h(i), "quotes") => Waiting(f, "quotes")
             /\ f[i].what = "quotes" /\ f[i].current /\ AtMostOne(f, "quotes") => ~Waiting(h(i), "quotes")
  <2>1. f[i] \in LedgerRequests
    BY <1>0
  <2> HIDE DEF f
  <2>2. /\ h(i) \in Seq(LedgerRequests)
        /\ \A of : Owned(f, "quotes", of) => Owned(h(i), "quotes", of)
        /\ Waiting(h(i), "quotes") => Waiting(f, "quotes")
    BY <1>0, GateAnswered
  <2>3. /\ AtMostOne(f, "quotes") => AtMostOne(h(i), "quotes")
        /\ f[i].what = "quotes" /\ f[i].current /\ AtMostOne(f, "quotes") => ~Waiting(h(i), "quotes")
    BY <1>0, OneAnswered
  <2> QED
    BY <2>1, <2>2, <2>3
\* What leaves the ledger and its quotes alone, whatever other requests there are.
<1>s. ASSUME NEW s \in LedgerType, s.watch = ui.watch, s.held = ui.held, s.quotes = ui.quotes, s.status = ui.status,
             s.visible = ui.visible, \A of : Owned(f, "quotes", of) => Owned(s.flying, "quotes", of),
             AtMostOne(f, "quotes") => AtMostOne(s.flying, "quotes"),
             Waiting(s.flying, "quotes") => Waiting(f, "quotes")
      PROVE  LedgerOK(s)
  <2>1. Quoted(s) = Quoted(ui)
    BY <1>s DEF Quoted, Held
  <2> QED
    BY <1>0, <1>s, <2>1 DEF LedgerOK, QuotesOwned, QuotesCounted
<1>u. ASSUME NEW i \in DOMAIN f PROVE LedgerOK([ui EXCEPT !.flying = h(i)])
  <2> DEFINE s == [ui EXCEPT !.flying = h(i)]
  <2>1. /\ h(i) \in Seq(LedgerRequests)
        /\ \A of : Owned(f, "quotes", of) => Owned(h(i), "quotes", of)
        /\ AtMostOne(f, "quotes") => AtMostOne(h(i), "quotes")
        /\ Waiting(h(i), "quotes") => Waiting(f, "quotes")
    BY <1>h
  <2> HIDE DEF h
  <2>2. /\ s \in LedgerType /\ s.watch = ui.watch /\ s.held = ui.held /\ s.quotes = ui.quotes /\ s.status = ui.status
        /\ s.visible = ui.visible /\ s.flying = h(i)
    BY <1>0, <2>1 DEF LedgerType
  <2> HIDE DEF s, f
  <2>3. LedgerOK(s)
    BY <1>s, <2>1, <2>2
  <2> QED
    BY <2>3 DEF s
<1>1. ASSUME NEW i \in DOMAIN ui.flying, NEW got \in SUBSET Symbols, NEW provenance \in {"live", "stale"},
             QuotesAnswer(i, got, provenance)
      PROVE  LedgerOK(ui')
  <2> DEFINE asked == f[i].of
             quotes == IF provenance = "live" THEN got ELSE {}
             status == [state |-> provenance, missing |-> asked \ got]
             s == [ui EXCEPT !.quotes = quotes, !.status = status]
  <2>0. f[i] \in LedgerRequests
    BY <1>h
  <2>1. f[i].what = "quotes" /\ got \subseteq asked /\ Heard(i, s)
    BY <1>1 DEF QuotesAnswer, WithQuotes
  <2>2. asked \in SUBSET Symbols
    <3> HIDE DEF f
    <3> QED
      BY <2>0, <2>1, LedgerRequestIs
  <2>3. CASE ~f[i].current
    <3>1. ui' = [ui EXCEPT !.flying = h(i)]
      BY <2>1, <2>3 DEF Heard
    <3> QED
      BY <1>u, <3>1
  <2>4. CASE f[i].current
    <3>1. asked = Quoted(ui)
      BY <1>0, <2>1, <2>4 DEF QuotesOwned, Owned
    <3> HIDE DEF asked
    <3>2. /\ status \in QuoteStatus /\ status.state = provenance /\ status.missing = asked \ got
      BY <2>2 DEF QuoteStatus
    <3>3. quotes \in SUBSET Symbols /\ (provenance = "live" => quotes = got) /\ (provenance # "live" => quotes = {})
      OBVIOUS
    <3> HIDE DEF quotes, status
    <3>4. s \in LedgerType /\ s.flying = f /\ s.quotes = quotes /\ s.status = status /\ s.watch = ui.watch /\ s.held = ui.held
      BY <1>0, <3>2, <3>3 DEF LedgerType
    <3>5. /\ h(i) \in Seq(LedgerRequests) /\ Owned(h(i), "quotes", Quoted(ui)) /\ AtMostOne(h(i), "quotes")
          /\ ~Waiting(h(i), "quotes")
      BY <1>0, <1>h, <2>1, <2>4 DEF QuotesOwned
    <3>6. ui' = [s EXCEPT !.flying = h(i)]
      BY <2>1, <2>4, <3>4 DEF Heard
    <3> HIDE DEF s, h
    <3>7. /\ ui' \in LedgerType /\ ui'.flying = h(i) /\ ui'.quotes = quotes /\ ui'.status = status
          /\ ui'.watch = ui.watch /\ ui'.held = ui.held
      BY <3>4, <3>5, <3>6 DEF LedgerType
    <3>8. Quoted(ui') = Quoted(ui)
      BY <3>7 DEF Quoted, Held
    <3>9. QuotesOwned(ui')
      BY <3>5, <3>7, <3>8 DEF QuotesOwned
    <3>10. QuotesCounted(ui')
      BY <3>1, <3>2, <3>3, <3>7, <3>8 DEF QuotesCounted
    <3> QED
      BY <3>7, <3>9, <3>10 DEF LedgerOK
  <2> QED
    BY <2>3, <2>4
<1>2. ASSUME PollTimer PROVE LedgerOK(ui')
  BY <1>0, <1>2, PollKeeps DEF PollTimer
<1>3. ASSUME ShowOrHide PROVE LedgerOK(ui')
  <2> DEFINE visible == ~ui.visible
             s == [ui EXCEPT !.visible = visible]
  <2>1. ui' = IF Quoted(ui) = {} THEN s ELSE Poll(s)
    BY <1>3 DEF ShowOrHide
  <2>2. visible \in BOOLEAN
    OBVIOUS
  <2> HIDE DEF visible
  <2>3. /\ s \in LedgerType /\ s.flying = f /\ s.quotes = ui.quotes /\ s.status = ui.status /\ s.watch = ui.watch
        /\ s.held = ui.held /\ s.visible = visible
    BY <1>0, <2>2 DEF LedgerType
  <2> HIDE DEF s
  <2>4. Quoted(s) = Quoted(ui)
    BY <2>3 DEF Quoted, Held
  <2>5. QuotesOwned(s)
    BY <1>0, <2>3, <2>4 DEF QuotesOwned
  <2>6. Quoted(ui) = {} \/ ~s.visible => QuotesCounted(s)
    BY <1>0, <2>3, <2>4 DEF QuotesCounted
  <2> QED
    BY <1>0, <2>1, <2>3, <2>5, <2>6, PollKeeps DEF LedgerOK
<1>4. ASSUME NEW sym \in Symbols, Watch(sym) PROVE LedgerOK(ui')
  <2> DEFINE watch == IF sym \in ui.watch THEN ui.watch \ {sym} ELSE ui.watch \cup {sym}
             s == [ui EXCEPT !.watch = watch]
  <2>1. ui' = LedgerEffect(s)
    BY <1>4 DEF Watch
  <2>2. watch \in SUBSET Symbols
    BY <1>0 DEF LedgerType
  <2> HIDE DEF watch
  <2>3. s \in LedgerType /\ s.quotes = ui.quotes /\ s.status = ui.status
    BY <1>0, <2>2 DEF LedgerType
  <2> HIDE DEF s
  <2> QED
    BY <1>0, <2>1, <2>3, LedgerEffectKeeps
\* A holding changes, of whatever state of the requests.
<1>c. ASSUME NEW s \in LedgerType, s.quotes = ui.quotes, s.status = ui.status, NEW sym \in Symbols, NEW holding \in Holdings
      PROVE  LedgerOK(LedgerEffect([s EXCEPT !.held[sym] = holding]))
  <2> DEFINE held == [s.held EXCEPT ![sym] = holding]
             t == [s EXCEPT !.held = held]
  <2>1. held \in [Symbols -> Holdings]
    BY DEF LedgerType
  <2>2. t = [s EXCEPT !.held[sym] = holding]
    BY DEF LedgerType
  <2> HIDE DEF held
  <2>3. t \in LedgerType /\ t.quotes = s.quotes /\ t.status = s.status
    BY <2>1 DEF LedgerType
  <2> HIDE DEF t
  <2>4. LedgerOK(LedgerEffect(t))
    BY <1>0, <1>c, <2>3, LedgerEffectKeeps
  <2> QED
    BY <2>2, <2>4
<1>d. ASSUME NEW s \in LedgerType, s.quotes = ui.quotes, s.status = ui.status, NEW sym \in Symbols, NEW has \in SUBSET Details
      PROVE  LedgerOK(AddHolding(s, sym, has))
  <2> DEFINE holding == [units |-> TRUE, has |-> s.held[sym].has \cup has]
  <2>1. s.held[sym] \in Holdings /\ s.held \in [Symbols -> Holdings]
    BY DEF LedgerType
  <2>2. holding \in Holdings
    BY <2>1 DEF Holdings
  <2>3. AddHolding(s, sym, has) = LedgerEffect([s EXCEPT !.held[sym] = holding])
    BY <2>1 DEF AddHolding, LedgerType
  <2> HIDE DEF holding
  <2> QED
    BY <1>c, <1>d, <2>2, <2>3
<1>5. ASSUME NEW sym \in Symbols, NEW has \in SUBSET Details, NEW named \in BOOLEAN, SubmitHolding(sym, has, named)
      PROVE  LedgerOK(ui')
  <2>1. CASE named
    <3>1. ui' = AddHolding(ui, sym, has)
      BY <1>5, <2>1 DEF SubmitHolding
    <3> QED
      BY <1>0, <1>d, <3>1
  <2>2. CASE ~named
    <3> DEFINE of == [sym |-> sym, has |-> has]
               new == [what |-> "name", of |-> of, current |-> TRUE]
               g == Append(f, new)
    <3>1. ui' = [ui EXCEPT !.flying = g]
      BY <1>5, <2>2 DEF SubmitHolding
    <3>2. of \in [sym : Symbols, has : SUBSET Details]
      OBVIOUS
    <3> HIDE DEF of
    <3>3. new \in LedgerRequests /\ new.what # "quotes"
      BY <3>2, LedgerRequestIs
    <3> HIDE DEF new
    <3>4. /\ g \in Seq(LedgerRequests) /\ (\A o : Owned(f, "quotes", o) => Owned(g, "quotes", o))
          /\ AtMostOne(f, "quotes") => AtMostOne(g, "quotes")
          /\ Waiting(g, "quotes") => Waiting(f, "quotes")
      <4> HIDE DEF f
      <4> QED
        BY <1>0, <3>3, LedgerSent
    <3> HIDE DEF g
    <3>5. /\ ui' \in LedgerType /\ ui'.watch = ui.watch /\ ui'.held = ui.held /\ ui'.quotes = ui.quotes
          /\ ui'.status = ui.status /\ ui'.visible = ui.visible /\ ui'.flying = g
      BY <1>0, <3>1, <3>4 DEF LedgerType
    <3> HIDE DEF f
    <3> QED
      BY <1>s, <3>4, <3>5
  <2> QED
    BY <2>1, <2>2
<1>6. ASSUME NEW i \in DOMAIN ui.flying, NEW ok \in BOOLEAN, NameAnswer(i, ok) PROVE LedgerOK(ui')
  <2> DEFINE asked == f[i].of
             rest == [ui EXCEPT !.flying = h(i)]
  <2>0. f[i] \in LedgerRequests /\ h(i) \in Seq(LedgerRequests)
    BY <1>h
  <2>1. f[i].what = "name" /\ ui' = IF ok THEN AddHolding(rest, asked.sym, asked.has) ELSE rest
    BY <1>6 DEF NameAnswer
  <2>2. asked \in [sym : Symbols, has : SUBSET Details]
    <3> HIDE DEF f
    <3> QED
      BY <2>0, <2>1, LedgerRequestIs
  <2>3. LedgerOK(rest)
    BY <1>u
  <2> HIDE DEF asked, h
  <2>4. rest \in LedgerType /\ rest.quotes = ui.quotes /\ rest.status = ui.status
    BY <1>0, <2>0 DEF LedgerType
  <2> HIDE DEF rest
  <2>5. asked.sym \in Symbols /\ asked.has \in SUBSET Details
    BY <2>2
  <2>6. LedgerOK(AddHolding(rest, asked.sym, asked.has))
    BY <1>d, <2>4, <2>5
  <2> QED
    BY <2>1, <2>3, <2>6
<1>7. ASSUME NEW sym \in Symbols, RemoveHolding(sym) PROVE LedgerOK(ui')
  BY <1>0, <1>7, <1>c, NotHeldIs DEF RemoveHolding
<1>8. ASSUME NEW query \in {"q", None}, SearchSymbols(query) PROVE LedgerOK(ui')
  <2> DEFINE q == Superseded(f, "hits")
             new == [what |-> "hits", of |-> query, current |-> TRUE]
             g == Append(q, new)
  <2>0. /\ q \in Seq(LedgerRequests) /\ (\A of : Owned(f, "quotes", of) => Owned(q, "quotes", of))
        /\ AtMostOne(f, "quotes") => AtMostOne(q, "quotes")
        /\ Waiting(q, "quotes") => Waiting(f, "quotes")
    <3> HIDE DEF f
    <3> QED
      BY <1>0, LedgerOutdated
  <2>1. CASE query = None
    <3>1. ui' = [ui EXCEPT !.query = None, !.hits = None, !.flying = q]
      BY <1>8, <2>1 DEF SearchSymbols
    <3> HIDE DEF q
    <3>2. /\ ui' \in LedgerType /\ ui'.watch = ui.watch /\ ui'.held = ui.held /\ ui'.quotes = ui.quotes
          /\ ui'.status = ui.status /\ ui'.visible = ui.visible /\ ui'.flying = q
      BY <1>0, <2>0, <3>1 DEF LedgerType
    <3> HIDE DEF f
    <3> QED
      BY <1>s, <2>0, <3>2
  <2>2. CASE query # None
    <3>1. ui' = [ui EXCEPT !.query = query, !.flying = g]
      BY <1>8, <2>2 DEF SearchSymbols, Ask
    <3>2. new \in LedgerRequests /\ new.what # "quotes"
      BY <2>2, LedgerRequestIs
    <3> HIDE DEF q, new
    <3>3. /\ g \in Seq(LedgerRequests) /\ (\A of : Owned(q, "quotes", of) => Owned(g, "quotes", of))
          /\ AtMostOne(q, "quotes") => AtMostOne(g, "quotes")
          /\ Waiting(g, "quotes") => Waiting(q, "quotes")
      BY <2>0, <3>2, LedgerSent
    <3> HIDE DEF g
    <3>4. /\ ui' \in LedgerType /\ ui'.watch = ui.watch /\ ui'.held = ui.held /\ ui'.quotes = ui.quotes
          /\ ui'.status = ui.status /\ ui'.visible = ui.visible /\ ui'.flying = g
      BY <1>0, <3>1, <3>3 DEF LedgerType
    <3> HIDE DEF f
    <3> QED
      BY <1>s, <2>0, <3>3, <3>4
  <2> QED
    BY <2>1, <2>2
<1>9. ASSUME NEW i \in DOMAIN ui.flying, HitsAnswer(i) PROVE LedgerOK(ui')
  <2> DEFINE s == [ui EXCEPT !.hits = f[i].of]
  <2>0. f[i] \in LedgerRequests
    BY <1>h
  <2>1. f[i].what = "hits" /\ Heard(i, s)
    BY <1>9 DEF HitsAnswer
  <2>2. f[i].of \in {"q", None}
    <3> HIDE DEF f
    <3> QED
      BY <2>0, <2>1, LedgerRequestIs
  <2>3. /\ s \in LedgerType /\ s.watch = ui.watch /\ s.held = ui.held /\ s.quotes = ui.quotes
        /\ s.status = ui.status /\ s.visible = ui.visible /\ s.flying = f
    BY <1>0, <2>2 DEF LedgerType
  <2> HIDE DEF s
  <2>4. CASE ~f[i].current
    <3>1. ui' = [ui EXCEPT !.flying = h(i)]
      BY <2>1, <2>4 DEF Heard
    <3> QED
      BY <1>u, <3>1
  <2>5. CASE f[i].current
    <3>1. ui' = [s EXCEPT !.flying = h(i)]
      BY <2>1, <2>3, <2>5 DEF Heard
    <3>2. /\ h(i) \in Seq(LedgerRequests) /\ (\A of : Owned(f, "quotes", of) => Owned(h(i), "quotes", of))
          /\ AtMostOne(f, "quotes") => AtMostOne(h(i), "quotes")
          /\ Waiting(h(i), "quotes") => Waiting(f, "quotes")
      BY <1>h
    <3> HIDE DEF h
    <3>3. /\ ui' \in LedgerType /\ ui'.watch = ui.watch /\ ui'.held = ui.held /\ ui'.quotes = ui.quotes
          /\ ui'.status = ui.status /\ ui'.visible = ui.visible /\ ui'.flying = h(i)
      BY <2>3, <3>1, <3>2 DEF LedgerType
    <3> HIDE DEF f
    <3> QED
      BY <1>s, <3>2, <3>3
  <2> QED
    BY <2>4, <2>5
<1>10. ASSUME NEW watch \in SUBSET Symbols, NEW sym \in Symbols, ReloadLedger(watch, sym) PROVE LedgerOK(ui')
  <2> DEFINE holding == IF ui.held[sym] = NotHeld THEN [units |-> TRUE, has |-> {}] ELSE NotHeld
             s == [ui EXCEPT !.watch = watch]
  <2>1. ui' = LedgerEffect([ui EXCEPT !.watch = watch, !.held[sym] = holding])
    BY <1>10 DEF ReloadLedger
  <2>2. holding \in Holdings
    BY NotHeldIs DEF Holdings
  <2> HIDE DEF holding
  <2>3. s \in LedgerType /\ s.quotes = ui.quotes /\ s.status = ui.status
    BY <1>0 DEF LedgerType
  <2>4. ui' = LedgerEffect([s EXCEPT !.held[sym] = holding])
    BY <2>1
  <2> HIDE DEF s
  <2> QED
    BY <1>c, <2>2, <2>3, <2>4
<1>11. ASSUME NEW tab \in {"watchlist", "holdings"}, SelectTab(tab) PROVE LedgerOK(ui')
  <2>1. /\ ui' \in LedgerType /\ ui'.watch = ui.watch /\ ui'.held = ui.held /\ ui'.quotes = ui.quotes
        /\ ui'.status = ui.status /\ ui'.visible = ui.visible /\ ui'.flying = f
    BY <1>0, <1>11 DEF SelectTab, LedgerType
  <2> QED
    BY <1>s, <2>1
<1> QED
  BY <1>1, <1>2, <1>3, <1>4, <1>5, <1>6, <1>7, <1>8, <1>9, <1>10, <1>11 DEF PortfolioNext

\* What the page waits for: hits of the query, unless they are listed or none are,
\* and the quotes of a ledger that is shown as loading.
HitsWait(s) ==
    /\ Owned(s.flying, "hits", s.query)
    /\ s.hits # None /\ s.hits # s.query => Waiting(s.flying, "hits")

QuotesWait(s) == s.visible /\ Quoted(s) # {} /\ s.status.state = "loading" => Waiting(s.flying, "quotes")

LedgerWaits(s) == HitsWait(s) /\ QuotesWait(s)

LedgerKinds == {"quotes", "name", "hits"}
LedgerQuestions == (SUBSET Symbols) \cup [sym : Symbols, has : SUBSET Details] \cup {"q", None}

LEMMA LedgerSeqs ==
    ASSUME NEW f \in Seq(LedgerRequests)
    PROVE  f \in Seq(Requests(LedgerKinds, LedgerQuestions))
<1>1. \A r \in LedgerRequests : r \in Requests(LedgerKinds, LedgerQuestions)
  BY DEF LedgerRequests, Requests, LedgerKinds, LedgerQuestions
<1> QED
  BY <1>1, SeqWider

\* A poll, and a change of the ledger, leave the hits alone and no quotes loading
\* that nobody asked for.
LEMMA PollWaits ==
    ASSUME NEW s \in LedgerType, HitsWait(s)
    PROVE  LedgerWaits(Poll(s))
<1>1. CASE ~s.visible \/ Waiting(s.flying, "quotes")
  <2>1. Poll(s) = s
    BY <1>1 DEF Poll
  <2> QED
    BY <1>1, <2>1 DEF LedgerWaits, QuotesWait
<1>2. CASE ~(~s.visible \/ Waiting(s.flying, "quotes"))
  <2> DEFINE status == [state |-> "loading", missing |-> {}]
             f == s.flying
             of == Quoted(s)
             g == Ask(f, "quotes", of)
             t == Poll(s)
             W == LedgerKinds
             O == LedgerQuestions
  <2>1. t = [s EXCEPT !.status = status, !.flying = g]
    BY <1>2 DEF Poll
  <2>2. f \in Seq(LedgerRequests) /\ of \in SUBSET Symbols
    BY QuotedIs DEF LedgerType
  <2> HIDE DEF f, of, status
  <2>3. "quotes" \in W /\ of \in O
    BY <2>2 DEF LedgerKinds, LedgerQuestions
  <2>4. f \in Seq(Requests(W, O))
    BY <2>2, LedgerSeqs
  <2> HIDE DEF W, O
  <2>5. /\ Waiting(g, "quotes")
        /\ \A other : other # "quotes" => (Waiting(g, other) <=> Waiting(f, other))
        /\ \A other, o : other # "quotes" /\ Owned(f, other, o) => Owned(g, other, o)
    BY <2>3, <2>4, GateAsk
  <2>6. KindKept(f, g, "hits")
    BY <2>5 DEF KindKept
  <2> HIDE DEF g, t
  <2>7. t.flying = g /\ t.query = s.query /\ t.hits = s.hits
    BY <2>1 DEF LedgerType
  <2>8. LedgerWaits(t)
    BY <2>5, <2>6, <2>7 DEF LedgerWaits, QuotesWait, HitsWait, KindKept, f
  <2> QED
    BY <2>8 DEF t
<1> QED
  BY <1>1, <1>2

LEMMA LedgerEffectWaits ==
    ASSUME NEW s \in LedgerType, HitsWait(s)
    PROVE  LedgerWaits(LedgerEffect(s))
<1> DEFINE f == s.flying
           g == Superseded(f, "quotes")
           t == [s EXCEPT !.flying = g]
           W == LedgerKinds
           O == LedgerQuestions
<1>1. f \in Seq(LedgerRequests)
  BY DEF LedgerType
<1>4. LedgerEffect(s) = IF Quoted(s) = {} THEN [t EXCEPT !.quotes = {}, !.status = [state |-> "unavailable", missing |-> {}]]
                        ELSE Poll(t)
  BY DEF LedgerEffect
<1> HIDE DEF f
<1>2. g \in Seq(LedgerRequests)
  BY <1>1, LedgerOutdated
<1>3. f \in Seq(Requests(W, O))
  BY <1>1, LedgerSeqs
<1> HIDE DEF W, O
<1>5. /\ \A other : other # "quotes" /\ Waiting(f, other) => Waiting(g, other)
      /\ \A other, of : Owned(f, other, of) => Owned(g, other, of)
  BY <1>3, Gate
<1>6. KindKept(f, g, "hits")
  BY <1>5 DEF KindKept
<1> HIDE DEF g
<1>7. t \in LedgerType /\ t.flying = g /\ t.query = s.query /\ t.hits = s.hits
  BY <1>2 DEF LedgerType
<1> HIDE DEF t
<1>8. HitsWait(t)
  BY <1>6, <1>7 DEF HitsWait, KindKept, f
<1>9. CASE Quoted(s) = {}
  <2> DEFINE status == [state |-> "unavailable", missing |-> {}]
             u == [t EXCEPT !.quotes = {}, !.status = status]
  <2>1. LedgerEffect(s) = u
    BY <1>4, <1>9
  <2>2. status.state = "unavailable"
    OBVIOUS
  <2> HIDE DEF status
  <2>3. u.flying = t.flying /\ u.query = t.query /\ u.hits = t.hits /\ u.status = status
    BY <1>7 DEF LedgerType
  <2> HIDE DEF u
  <2> QED
    BY <1>8, <2>1, <2>2, <2>3 DEF LedgerWaits, HitsWait, QuotesWait
<1>10. CASE Quoted(s) # {}
  BY <1>4, <1>7, <1>8, <1>10, PollWaits
<1> QED
  BY <1>9, <1>10

LEMMA LedgerWaitsStart == PortfolioInit => LedgerWaits(ui)
<1> SUFFICES ASSUME PortfolioInit PROVE LedgerWaits(ui)
  OBVIOUS
<1> DEFINE f == <<>>
           held == [sym \in Symbols |-> NotHeld]
           status == [state |-> "loading", missing |-> {}]
<1>1. PICK watch \in SUBSET Symbols :
        ui = LedgerEffect([tab |-> "watchlist", watch |-> watch, held |-> held, quotes |-> {},
                           status |-> status, visible |-> TRUE, query |-> None, hits |-> None, flying |-> f])
  BY DEF PortfolioInit
<1> DEFINE s == [tab |-> "watchlist", watch |-> watch, held |-> held, quotes |-> {},
                 status |-> status, visible |-> TRUE, query |-> None, hits |-> None, flying |-> f]
<1>2. f \in Seq(LedgerRequests) /\ Owned(f, "hits", None)
  BY DEF Owned
<1>3. held \in [Symbols -> Holdings] /\ status \in QuoteStatus
  BY NotHeldIs DEF QuoteStatus
<1>4. ui = LedgerEffect(s)
  BY <1>1
<1> HIDE DEF f, held, status
<1>5. s \in LedgerType /\ HitsWait(s)
  BY <1>2, <1>3 DEF LedgerType, HitsWait
<1> HIDE DEF s
<1> QED
  BY <1>4, <1>5, LedgerEffectWaits

LEMMA LedgerWaitsSteps ==
    ASSUME LedgerOK(ui), LedgerWaits(ui), PortfolioNext
    PROVE  LedgerWaits(ui')
<1> DEFINE f == ui.flying
           h(i) == Answered(f, i)
           W == LedgerKinds
           O == LedgerQuestions
<1>0. ui \in LedgerType /\ f \in Seq(LedgerRequests) /\ HitsWait(ui) /\ QuotesWait(ui)
  BY DEF LedgerOK, LedgerType, LedgerWaits
<1>w. f \in Seq(Requests(W, O)) /\ "hits" \in W /\ "name" \in W
  <2>1. "hits" \in W /\ "name" \in W
    BY DEF LedgerKinds
  <2> HIDE DEF f, W, O
  <2> QED
    BY <1>0, <2>1, LedgerSeqs DEF W, O
<1> HIDE DEF W, O
<1>h. ASSUME NEW i \in DOMAIN f
      PROVE  /\ h(i) \in Seq(LedgerRequests) /\ f[i] \in LedgerRequests
             /\ \A of : Owned(f, "hits", of) => Owned(h(i), "hits", of)
             /\ \A other : Waiting(f, other) /\ (~f[i].current \/ f[i].what # other) => Waiting(h(i), other)
  <2>1. f[i] \in LedgerRequests
    BY <1>0
  <2> HIDE DEF f
  <2>2. h(i) \in Seq(LedgerRequests)
    BY <1>0, AnsweredIn
  <2>3. \A other, of : Owned(f, other, of) => Owned(h(i), other, of)
    BY <1>0, GateAnswered
  <2>4. \A other : Waiting(f, other) /\ (~f[i].current \/ f[i].what # other) => Waiting(h(i), other)
    BY <1>0, GateAnswered
  <2> HIDE DEF h
  <2> QED
    BY <2>1, <2>2, <2>3, <2>4
\* What leaves the hits alone.
<1>s. ASSUME NEW s \in LedgerType, s.hits = ui.hits, s.query = ui.query, s.flying = f PROVE HitsWait(s)
  BY <1>0, <1>s DEF HitsWait
<1>u. ASSUME NEW i \in DOMAIN f, ~f[i].current \/ (f[i].what # "hits" /\ f[i].what # "quotes")
      PROVE  /\ [ui EXCEPT !.flying = h(i)] \in LedgerType /\ LedgerWaits([ui EXCEPT !.flying = h(i)])
  <2> DEFINE s == [ui EXCEPT !.flying = h(i)]
  <2>1. h(i) \in Seq(LedgerRequests) /\ KindKept(f, h(i), "hits") /\ (Waiting(f, "quotes") => Waiting(h(i), "quotes"))
    BY <1>h, <1>u DEF KindKept
  <2> HIDE DEF h
  <2>2. /\ s \in LedgerType /\ s.watch = ui.watch /\ s.held = ui.held /\ s.status = ui.status
        /\ s.visible = ui.visible /\ s.flying = h(i) /\ s.hits = ui.hits /\ s.query = ui.query
    BY <1>0, <2>1 DEF LedgerType
  <2> HIDE DEF s
  <2>3. Quoted(s) = Quoted(ui)
    BY <2>2 DEF Quoted, Held
  <2>4. LedgerWaits(s)
    BY <1>0, <2>1, <2>2, <2>3 DEF LedgerWaits, HitsWait, QuotesWait, KindKept
  <2> QED
    BY <2>2, <2>4 DEF s
<1>1. ASSUME NEW i \in DOMAIN ui.flying, NEW got \in SUBSET Symbols, NEW provenance \in {"live", "stale"},
             QuotesAnswer(i, got, provenance)
      PROVE  LedgerWaits(ui')
  <2> DEFINE asked == f[i].of
             quotes == IF provenance = "live" THEN got ELSE {}
             status == [state |-> provenance, missing |-> asked \ got]
             s == [ui EXCEPT !.quotes = quotes, !.status = status]
  <2>1. f[i].what = "quotes" /\ Heard(i, s)
    BY <1>1 DEF QuotesAnswer, WithQuotes
  <2>3. CASE ~f[i].current
    <3>1. ui' = [ui EXCEPT !.flying = h(i)]
      BY <2>1, <2>3 DEF Heard
    <3> QED
      BY <1>u, <2>3, <3>1
  <2>4. CASE f[i].current
    <3>1. KindKept(f, h(i), "hits")
      BY <1>h, <2>1 DEF KindKept
    <3>2. status.state # "loading"
      OBVIOUS
    <3> HIDE DEF quotes, status
    <3>3. s.flying = f
      BY <1>0 DEF LedgerType
    <3>4. ui' = [s EXCEPT !.flying = h(i)]
      BY <2>1, <2>4, <3>3 DEF Heard
    <3> HIDE DEF h
    <3>5. ui'.flying = h(i) /\ ui'.status = status /\ ui'.hits = ui.hits /\ ui'.query = ui.query
      BY <1>0, <3>4 DEF LedgerType
    <3> QED
      BY <1>0, <3>1, <3>2, <3>5 DEF LedgerWaits, HitsWait, QuotesWait, KindKept
  <2> QED
    BY <2>3, <2>4
<1>2. ASSUME PollTimer PROVE LedgerWaits(ui')
  BY <1>0, <1>2, PollWaits DEF PollTimer
<1>3. ASSUME ShowOrHide PROVE LedgerWaits(ui')
  <2> DEFINE visible == ~ui.visible
             s == [ui EXCEPT !.visible = visible]
  <2>1. ui' = IF Quoted(ui) = {} THEN s ELSE Poll(s)
    BY <1>3 DEF ShowOrHide
  <2>2. visible \in BOOLEAN
    OBVIOUS
  <2> HIDE DEF visible
  <2>3. s \in LedgerType /\ s.flying = f /\ s.watch = ui.watch /\ s.held = ui.held /\ s.hits = ui.hits /\ s.query = ui.query
    BY <1>0, <2>2 DEF LedgerType
  <2> HIDE DEF s
  <2>4. Quoted(s) = Quoted(ui)
    BY <2>3 DEF Quoted, Held
  <2>5. HitsWait(s)
    BY <1>s, <2>3
  <2> QED
    BY <2>1, <2>3, <2>4, <2>5, PollWaits DEF LedgerWaits, QuotesWait
<1>4. ASSUME NEW sym \in Symbols, Watch(sym) PROVE LedgerWaits(ui')
  <2> DEFINE watch == IF sym \in ui.watch THEN ui.watch \ {sym} ELSE ui.watch \cup {sym}
             s == [ui EXCEPT !.watch = watch]
  <2>1. ui' = LedgerEffect(s)
    BY <1>4 DEF Watch
  <2>2. watch \in SUBSET Symbols
    BY <1>0 DEF LedgerType
  <2> HIDE DEF watch
  <2>3. s \in LedgerType /\ s.hits = ui.hits /\ s.query = ui.query /\ s.flying = f
    BY <1>0, <2>2 DEF LedgerType
  <2> HIDE DEF s
  <2> QED
    BY <1>s, <2>1, <2>3, LedgerEffectWaits
\* A holding changes, of whatever state of the requests.
<1>c. ASSUME NEW s \in LedgerType, HitsWait(s), NEW sym \in Symbols, NEW holding \in Holdings
      PROVE  LedgerWaits(LedgerEffect([s EXCEPT !.held[sym] = holding]))
  <2> DEFINE held == [s.held EXCEPT ![sym] = holding]
             t == [s EXCEPT !.held = held]
  <2>1. held \in [Symbols -> Holdings]
    BY DEF LedgerType
  <2>2. t = [s EXCEPT !.held[sym] = holding]
    BY DEF LedgerType
  <2> HIDE DEF held
  <2>3. t \in LedgerType /\ t.hits = s.hits /\ t.query = s.query /\ t.flying = s.flying
    BY <2>1 DEF LedgerType
  <2> HIDE DEF t
  <2>4. HitsWait(t)
    BY <1>c, <2>3 DEF HitsWait
  <2>5. LedgerWaits(LedgerEffect(t))
    BY <2>3, <2>4, LedgerEffectWaits
  <2> QED
    BY <2>2, <2>5
<1>d. ASSUME NEW s \in LedgerType, HitsWait(s), NEW sym \in Symbols, NEW has \in SUBSET Details
      PROVE  LedgerWaits(AddHolding(s, sym, has))
  <2> DEFINE holding == [units |-> TRUE, has |-> s.held[sym].has \cup has]
  <2>1. s.held[sym] \in Holdings /\ s.held \in [Symbols -> Holdings]
    BY DEF LedgerType
  <2>2. holding \in Holdings
    BY <2>1 DEF Holdings
  <2>3. AddHolding(s, sym, has) = LedgerEffect([s EXCEPT !.held[sym] = holding])
    BY <2>1 DEF AddHolding, LedgerType
  <2> HIDE DEF holding
  <2> QED
    BY <1>c, <1>d, <2>2, <2>3
<1>5. ASSUME NEW sym \in Symbols, NEW has \in SUBSET Details, NEW named \in BOOLEAN, SubmitHolding(sym, has, named)
      PROVE  LedgerWaits(ui')
  <2>1. CASE named
    <3>1. ui' = AddHolding(ui, sym, has)
      BY <1>5, <2>1 DEF SubmitHolding
    <3> QED
      BY <1>0, <1>d, <3>1
  <2>2. CASE ~named
    <3> DEFINE of == [sym |-> sym, has |-> has]
               new == [what |-> "name", of |-> of, current |-> TRUE]
               g == Append(f, new)
    <3>1. ui' = [ui EXCEPT !.flying = g]
      BY <1>5, <2>2 DEF SubmitHolding
    <3>2. of \in [sym : Symbols, has : SUBSET Details]
      OBVIOUS
    <3> HIDE DEF of
    <3>3. new \in LedgerRequests /\ new.what # "hits"
      BY <3>2, LedgerRequestIs
    <3> HIDE DEF new
    <3>4. /\ \A other, o : Owned(f, other, o) /\ (new.what = other /\ new.current => new.of = o) => Owned(g, other, o)
          /\ \A other : Waiting(f, other) \/ (new.what = other /\ new.current) => Waiting(g, other)
      <4> HIDE DEF f
      <4> QED
        BY <1>0, <3>3, GateMore
    <3>5. KindKept(f, g, "hits") /\ (Waiting(f, "quotes") => Waiting(g, "quotes"))
      <4> HIDE DEF g, f
      <4> QED
        BY <3>3, <3>4 DEF KindKept
    <3> HIDE DEF g
    <3>6. /\ ui'.watch = ui.watch /\ ui'.held = ui.held /\ ui'.status = ui.status
          /\ ui'.visible = ui.visible /\ ui'.flying = g /\ ui'.hits = ui.hits /\ ui'.query = ui.query
      BY <1>0, <3>1 DEF LedgerType
    <3>7. Quoted(ui') = Quoted(ui)
      BY <3>6 DEF Quoted, Held
    <3> QED
      BY <1>0, <3>5, <3>6, <3>7 DEF LedgerWaits, HitsWait, QuotesWait, KindKept
  <2> QED
    BY <2>1, <2>2
<1>6. ASSUME NEW i \in DOMAIN ui.flying, NEW ok \in BOOLEAN, NameAnswer(i, ok) PROVE LedgerWaits(ui')
  <2> DEFINE asked == f[i].of
             rest == [ui EXCEPT !.flying = h(i)]
  <2>0. f[i] \in LedgerRequests
    BY <1>h
  <2>1. f[i].what = "name" /\ ui' = IF ok THEN AddHolding(rest, asked.sym, asked.has) ELSE rest
    BY <1>6 DEF NameAnswer
  <2>2. asked \in [sym : Symbols, has : SUBSET Details]
    <3> HIDE DEF f
    <3> QED
      BY <2>0, <2>1, LedgerRequestIs
  <2>3. rest \in LedgerType /\ LedgerWaits(rest)
    <3>1. f[i].what # "hits" /\ f[i].what # "quotes"
      BY <2>1
    <3> QED
      BY <1>u, <3>1
  <2> HIDE DEF asked, rest
  <2>5. asked.sym \in Symbols /\ asked.has \in SUBSET Details
    BY <2>2
  <2>6. LedgerWaits(AddHolding(rest, asked.sym, asked.has))
    BY <1>d, <2>3, <2>5 DEF LedgerWaits
  <2> QED
    BY <2>1, <2>3, <2>6
<1>7. ASSUME NEW sym \in Symbols, RemoveHolding(sym) PROVE LedgerWaits(ui')
  BY <1>0, <1>7, <1>c, NotHeldIs DEF RemoveHolding
<1>8. ASSUME NEW query \in {"q", None}, SearchSymbols(query) PROVE LedgerWaits(ui')
  <2>1. CASE query = None
    <3> DEFINE q == Superseded(f, "hits")
    <3>1. ui' = [ui EXCEPT !.query = None, !.hits = None, !.flying = q]
      BY <1>8, <2>1 DEF SearchSymbols
    <3>2. /\ \A of : Owned(q, "hits", of)
          /\ \A other : other # "hits" /\ Waiting(f, other) => Waiting(q, other)
      <4> HIDE DEF f
      <4> QED
        BY <1>w, Gate
    <3>3. Owned(q, "hits", None) /\ (Waiting(f, "quotes") => Waiting(q, "quotes"))
      BY <3>2
    <3> HIDE DEF q
    <3>4. /\ ui'.watch = ui.watch /\ ui'.held = ui.held /\ ui'.status = ui.status
          /\ ui'.visible = ui.visible /\ ui'.flying = q /\ ui'.hits = None /\ ui'.query = None
      BY <1>0, <3>1 DEF LedgerType
    <3>5. Quoted(ui') = Quoted(ui)
      BY <3>4 DEF Quoted, Held
    <3> QED
      BY <1>0, <3>3, <3>4, <3>5 DEF LedgerWaits, HitsWait, QuotesWait
  <2>2. CASE query # None
    <3> DEFINE g == Ask(f, "hits", query)
    <3>1. ui' = [ui EXCEPT !.query = query, !.flying = g]
      BY <1>8, <2>2 DEF SearchSymbols
    <3>0. query \in O
      BY DEF O, LedgerQuestions
    <3>2. /\ Waiting(g, "hits") /\ Owned(g, "hits", query)
          /\ \A other : other # "hits" => (Waiting(g, other) <=> Waiting(f, other))
      <4> HIDE DEF f
      <4> QED
        BY <1>w, <3>0, GateAsk
    <3>3. Waiting(f, "quotes") => Waiting(g, "quotes")
      BY <3>2
    <3> HIDE DEF g
    <3>4. /\ ui'.watch = ui.watch /\ ui'.held = ui.held /\ ui'.status = ui.status
          /\ ui'.visible = ui.visible /\ ui'.flying = g /\ ui'.query = query
      BY <1>0, <3>1 DEF LedgerType
    <3>5. Quoted(ui') = Quoted(ui)
      BY <3>4 DEF Quoted, Held
    <3> QED
      BY <1>0, <3>2, <3>3, <3>4, <3>5 DEF LedgerWaits, HitsWait, QuotesWait
  <2> QED
    BY <2>1, <2>2
<1>9. ASSUME NEW i \in DOMAIN ui.flying, HitsAnswer(i) PROVE LedgerWaits(ui')
  <2> DEFINE of == f[i].of
             s == [ui EXCEPT !.hits = of]
  <2>1. f[i].what = "hits" /\ Heard(i, s)
    BY <1>9 DEF HitsAnswer
  <2>4. CASE ~f[i].current
    <3>1. ui' = [ui EXCEPT !.flying = h(i)]
      BY <2>1, <2>4 DEF Heard
    <3> QED
      BY <1>u, <2>4, <3>1
  <2>5. CASE f[i].current
    <3>1. of = ui.query
      BY <1>0, <2>1, <2>5 DEF HitsWait, Owned
    <3>2. Owned(h(i), "hits", ui.query) /\ (Waiting(f, "quotes") => Waiting(h(i), "quotes"))
      <4>1. f[i].what # "quotes"
        BY <2>1
      <4> QED
        BY <1>0, <1>h, <4>1 DEF HitsWait
    <3> HIDE DEF of
    <3>3. s.flying = f
      BY <1>0 DEF LedgerType
    <3>4. ui' = [s EXCEPT !.flying = h(i)]
      BY <2>1, <2>5, <3>3 DEF Heard
    <3> HIDE DEF h
    <3>5. /\ ui'.watch = ui.watch /\ ui'.held = ui.held /\ ui'.status = ui.status
          /\ ui'.visible = ui.visible /\ ui'.flying = h(i) /\ ui'.hits = of /\ ui'.query = ui.query
      BY <1>0, <3>4 DEF LedgerType
    <3>6. Quoted(ui') = Quoted(ui)
      BY <3>5 DEF Quoted, Held
    <3> QED
      BY <1>0, <3>1, <3>2, <3>5, <3>6 DEF LedgerWaits, HitsWait, QuotesWait
  <2> QED
    BY <2>4, <2>5
<1>10. ASSUME NEW watch \in SUBSET Symbols, NEW sym \in Symbols, ReloadLedger(watch, sym) PROVE LedgerWaits(ui')
  <2> DEFINE holding == IF ui.held[sym] = NotHeld THEN [units |-> TRUE, has |-> {}] ELSE NotHeld
             s == [ui EXCEPT !.watch = watch]
  <2>1. ui' = LedgerEffect([ui EXCEPT !.watch = watch, !.held[sym] = holding])
    BY <1>10 DEF ReloadLedger
  <2>2. holding \in Holdings
    BY NotHeldIs DEF Holdings
  <2> HIDE DEF holding
  <2>3. s \in LedgerType /\ s.hits = ui.hits /\ s.query = ui.query /\ s.flying = f
    BY <1>0 DEF LedgerType
  <2>4. ui' = LedgerEffect([s EXCEPT !.held[sym] = holding])
    BY <2>1
  <2> HIDE DEF s
  <2>5. HitsWait(s)
    BY <1>s, <2>3
  <2> QED
    BY <1>c, <2>2, <2>3, <2>4, <2>5
<1>11. ASSUME NEW tab \in {"watchlist", "holdings"}, SelectTab(tab) PROVE LedgerWaits(ui')
  <2>1. /\ ui'.watch = ui.watch /\ ui'.held = ui.held /\ ui'.status = ui.status
        /\ ui'.visible = ui.visible /\ ui'.flying = f /\ ui'.hits = ui.hits /\ ui'.query = ui.query
    BY <1>0, <1>11 DEF SelectTab, LedgerType
  <2>2. Quoted(ui') = Quoted(ui)
    BY <2>1 DEF Quoted, Held
  <2> QED
    BY <1>0, <2>1, <2>2 DEF LedgerWaits, HitsWait, QuotesWait
<1> QED
  BY <1>1, <1>2, <1>3, <1>4, <1>5, <1>6, <1>7, <1>8, <1>9, <1>10, <1>11 DEF PortfolioNext

LEMMA LedgerWaitsTold ==
    ASSUME LedgerWaits(ui)
    PROVE  PortfolioNeverStuck
<1> DEFINE shown == [what |-> "hits", of |-> ui.hits]
<1>1. shown \in WatchTab(ui) => ui.hits # None
  <2> SUFFICES ASSUME shown \in WatchTab(ui), ui.hits = None PROVE FALSE
    OBVIOUS
  <2>1. shown.what = "hits"
    OBVIOUS
  <2>2. \A q \in {ui.hits} \ {None} : FALSE
    OBVIOUS
  <2> HIDE DEF shown
  <2>3. \E sym : shown = [what |-> "card", of |-> sym] \/ shown = [what |-> "empty", of |-> None]
    BY <2>2 DEF WatchTab
  <2> QED
    BY <2>1, <2>3
<1>2. QuoteLine(ui).state = "loading" => Quoted(ui) # {} /\ ui.status.state = "loading"
  BY DEF QuoteLine
<1> QED
  BY <1>1, <1>2 DEF PortfolioNeverStuck, LedgerWaits, HitsWait, QuotesWait

LEMMA PortfolioTold ==
    ASSUME LedgerOK(ui)
    PROVE  PortfolioQuotesTold /\ PortfolioValuesMarked
<1>0. ui \in LedgerType /\ QuotesCounted(ui)
  BY DEF LedgerOK
<1>1. QuoteLine(ui).state = "live" => QuoteLine(ui) = ui.status /\ Quoted(ui) # {}
  BY DEF QuoteLine
<1>2. PortfolioQuotesTold
  BY <1>0, <1>1 DEF PortfolioQuotesTold, QuotesCounted
<1>3. ASSUME NEW g \in RiskCards(ui), g.valued PROVE QuoteLine(ui).state \in {"live", "loading"}
  <2>1. PICK mainland \in BOOLEAN : g = RiskGroup(ui, mainland) /\ g.rows # {}
    BY <1>3 DEF RiskCards
  <2>2. g.rows \subseteq Held(ui) /\ g.rows \subseteq ui.quotes
    BY <1>3, <2>1 DEF RiskGroup
  <2>3. Quoted(ui) # {} /\ ui.quotes # {}
    BY <2>1, <2>2 DEF Quoted
  <2> QED
    BY <1>0, <2>3 DEF QuoteLine, QuotesCounted
<1> QED
  BY <1>2, <1>3 DEF PortfolioValuesMarked

-----------------------------------------------------------------------------
(* The list of a market, and the store's page of it *)

ScanMarkets == {"us", "cn"}
ScanQuotes == [asked : Rows, then : Rows]

ScanRequests == Requests({"stocks"}, Rows) \cup Requests({"quotes"}, ScanQuotes)

ScanType ==
    [market : ScanMarkets, query : {None, "q"}, debounced : {None, "q"}, page : {1, 2}, local : {1, 2},
     filtered : BOOLEAN, lists : SUBSET ScanMarkets, stocks : Rows \cup {NoRows}, loading : BOOLEAN, error : BOOLEAN,
     quotes : [state : {"loading", "live", "stale", "unavailable"}, of : Rows \cup {NoRows}], flying : Seq(ScanRequests)]

\* The requests for a page of a market, of which none is outdated.
ScanAsks(market, number) ==
    {r \in ScanRequests :
        /\ r.current
        /\ r.what = "stocks" => r.of.of = market /\ r.of.page = number
        /\ r.what = "quotes" => r.of.then.of = market /\ r.of.then.page = number}

\* One list and one set of quotes is asked for, of the page that is selected.
ScanWaits(s) ==
    /\ Single(s.flying, "stocks") /\ Single(s.flying, "quotes")
    /\ s.flying \in Seq(ScanAsks(s.market, s.page))

RowsOwn(s) == s.stocks = NoRows \/ (s.stocks.of = s.market /\ s.stocks.page = s.page)
RowsCurrent(s) ==
    /\ Flying(s.flying, "stocks") # {} \/ s.error \/ RowsOwn(s)
    /\ s.loading => Flying(s.flying, "stocks") # {}

ScanOK(s) == s \in ScanType /\ ScanWaits(s) /\ RowsCurrent(s)

LEMMA ScanConstants ==
    /\ NoRows \notin Rows /\ NoRows \in Rows \cup {NoRows}
    /\ \A s \in ScanType : /\ Selected(s) \in Rows /\ Selected(s).of = s.market /\ Selected(s).page = s.page
  BY DEF NoRows, Rows, Selected, ScanType, ScanMarkets, None

LEMMA ScanAsked ==
    ASSUME NEW market \in ScanMarkets, NEW number \in {1, 2}, NEW f \in Seq(ScanAsks(market, number)),
           Single(f, "stocks"), Single(f, "quotes")
    PROVE  /\ \A asked, then \in Rows : then.of = market /\ then.page = number =>
                 LET g == AskAnew(f, "quotes", [asked |-> asked, then |-> then])
                 IN  /\ g \in Seq(ScanAsks(market, number)) /\ Single(g, "stocks") /\ Single(g, "quotes")
                     /\ Flying(f, "stocks") # {} => Flying(g, "stocks") # {}
           /\ \A rows \in Rows : rows.of = market /\ rows.page = number =>
                 LET g == AskAnew(f, "stocks", rows)
                 IN  /\ g \in Seq(ScanAsks(market, number)) /\ Single(g, "stocks") /\ Single(g, "quotes")
                     /\ Flying(g, "stocks") # {}
           /\ LET g == Dropped(f, "quotes")
              IN  /\ g \in Seq(ScanAsks(market, number)) /\ Single(g, "stocks") /\ Single(g, "quotes")
                  /\ Flying(f, "stocks") # {} => Flying(g, "stocks") # {}
<1> DEFINE S == ScanAsks(market, number)
<1>1. ASSUME NEW asked \in Rows, NEW then \in Rows, then.of = market, then.page = number
      PROVE  LET g == AskAnew(f, "quotes", [asked |-> asked, then |-> then])
             IN  /\ g \in Seq(S) /\ Single(g, "stocks") /\ Single(g, "quotes")
                 /\ Flying(f, "stocks") # {} => Flying(g, "stocks") # {}
  <2> DEFINE of == [asked |-> asked, then |-> then]
             r == [what |-> "quotes", of |-> of, current |-> TRUE]
             g == AskAnew(f, "quotes", of)
  <2>1. of \in ScanQuotes /\ of.then = then
    BY DEF ScanQuotes
  <2> HIDE DEF of
  <2>2. r \in S
    BY <1>1, <2>1 DEF ScanAsks, ScanRequests, Requests
  <2> HIDE DEF S
  <2>3. g \in Seq(S) /\ Single(g, "quotes")
    BY <2>2, AskAnewIs DEF S
  <2>4. \A other : other # "quotes" /\ Single(f, other) => Single(g, other)
    BY <2>2, AskAnewIs DEF S
  <2>5. \A other : other # "quotes" /\ Flying(f, other) # {} => Flying(g, other) # {}
    BY <2>2, AskAnewIs DEF S
  <2> HIDE DEF g
  <2>6. /\ g \in Seq(S) /\ Single(g, "stocks") /\ Single(g, "quotes")
        /\ Flying(f, "stocks") # {} => Flying(g, "stocks") # {}
    BY <2>3, <2>4, <2>5
  <2> QED
    BY <2>6 DEF g, of
<1>2. ASSUME NEW rows \in Rows, rows.of = market, rows.page = number
      PROVE  LET g == AskAnew(f, "stocks", rows)
             IN  /\ g \in Seq(S) /\ Single(g, "stocks") /\ Single(g, "quotes") /\ Flying(g, "stocks") # {}
  <2> DEFINE r == [what |-> "stocks", of |-> rows, current |-> TRUE]
             g == AskAnew(f, "stocks", rows)
  <2>2. r \in S
    BY <1>2 DEF ScanAsks, ScanRequests, Requests
  <2> HIDE DEF S
  <2>3. g \in Seq(S) /\ Single(g, "stocks") /\ Waiting(g, "stocks")
    BY <2>2, AskAnewIs DEF S
  <2>4. \A other : other # "stocks" /\ Single(f, other) => Single(g, other)
    BY <2>2, AskAnewIs DEF S
  <2> HIDE DEF g
  <2>5. Flying(g, "stocks") # {}
    BY <2>3 DEF Waiting
  <2>6. /\ g \in Seq(S) /\ Single(g, "stocks") /\ Single(g, "quotes") /\ Flying(g, "stocks") # {}
    BY <2>3, <2>4, <2>5
  <2> QED
    BY <2>6 DEF g
<1>3. LET g == Dropped(f, "quotes")
      IN  /\ g \in Seq(S) /\ Single(g, "stocks") /\ Single(g, "quotes")
          /\ Flying(f, "stocks") # {} => Flying(g, "stocks") # {}
  <2> DEFINE g == Dropped(f, "quotes")
  <2> HIDE DEF S
  <2>1. g \in Seq(S) /\ \A other : Single(f, other) => Single(g, other)
    BY DroppedIs DEF S
  <2>2. \A other : other # "quotes" /\ Flying(f, other) # {} => Flying(g, other) # {}
    BY DroppedIs DEF S
  <2> HIDE DEF g
  <2>3. /\ g \in Seq(S) /\ Single(g, "stocks") /\ Single(g, "quotes")
        /\ Flying(f, "stocks") # {} => Flying(g, "stocks") # {}
    BY <2>1, <2>2
  <2> QED
    BY <2>3 DEF g
<1> QED
  BY <1>1, <1>2, <1>3

LEMMA RefreshQuotesKeeps ==
    ASSUME NEW s, ScanOK(s)
    PROVE  ScanOK(RefreshQuotes(s))
<1> DEFINE f == s.flying
           t == RefreshQuotes(s)
<1>1. /\ s \in ScanType /\ s.market \in ScanMarkets /\ s.page \in {1, 2} /\ f \in Seq(ScanAsks(s.market, s.page))
      /\ Single(f, "stocks") /\ Single(f, "quotes")
  BY DEF ScanOK, ScanType, ScanWaits
<1>w. ASSUME NEW g \in Seq(ScanAsks(s.market, s.page)) PROVE g \in Seq(ScanRequests)
  <2>1. \A r \in ScanAsks(s.market, s.page) : r \in ScanRequests
    BY DEF ScanAsks
  <2> QED
    BY <2>1, SeqWider
<1>2. CASE s.stocks = NoRows
  <2> DEFINE g == Dropped(f, "quotes")
             quotes == [s.quotes EXCEPT !.state = "unavailable"]
  <2>1. t = [s EXCEPT !.quotes = quotes, !.flying = g]
    BY <1>2 DEF RefreshQuotes
  <2>2. /\ g \in Seq(ScanAsks(s.market, s.page)) /\ Single(g, "stocks") /\ Single(g, "quotes")
        /\ Flying(f, "stocks") # {} => Flying(g, "stocks") # {}
    <3> HIDE DEF f
    <3> QED
      BY <1>1, ScanAsked
  <2>3. g \in Seq(ScanRequests)
    BY <1>w, <2>2
  <2>4. quotes \in [state : {"loading", "live", "stale", "unavailable"}, of : Rows \cup {NoRows}]
    BY <1>1 DEF ScanType
  <2> HIDE DEF g, t, quotes
  <2>5. /\ t \in ScanType /\ t.flying = g /\ t.market = s.market /\ t.page = s.page /\ t.stocks = s.stocks
        /\ t.loading = s.loading
    BY <1>1, <2>1, <2>3, <2>4 DEF ScanType
  <2>6. ScanOK(t)
    BY <1>2, <2>2, <2>5 DEF ScanOK, ScanWaits, RowsCurrent, RowsOwn
  <2> QED
    BY <2>6 DEF t
<1>3. CASE s.stocks # NoRows
  <2> DEFINE g == AskAnew(f, "quotes", [asked |-> s.stocks, then |-> Selected(s)])
  <2>1. t = [s EXCEPT !.flying = g]
    BY <1>3 DEF RefreshQuotes
  <2>0. s.stocks \in Rows /\ Selected(s) \in Rows /\ Selected(s).of = s.market /\ Selected(s).page = s.page
    BY <1>1, <1>3, ScanConstants DEF ScanType
  <2>2. /\ g \in Seq(ScanAsks(s.market, s.page)) /\ Single(g, "stocks") /\ Single(g, "quotes")
        /\ Flying(f, "stocks") # {} => Flying(g, "stocks") # {}
    <3> HIDE DEF f
    <3> QED
      BY <1>1, <2>0, ScanAsked
  <2>3. g \in Seq(ScanRequests)
    BY <1>w, <2>2
  <2> HIDE DEF g, t
  <2>5. /\ t \in ScanType /\ t.flying = g /\ t.market = s.market /\ t.page = s.page /\ t.stocks = s.stocks
        /\ t.error = s.error /\ t.loading = s.loading
    BY <1>1, <2>1, <2>3 DEF ScanType
  <2>6. ScanOK(t)
    BY <2>2, <2>5 DEF ScanOK, ScanWaits, RowsCurrent, RowsOwn
  <2> QED
    BY <2>6 DEF t
<1> QED
  BY <1>2, <1>3

LEMMA ListingKeeps ==
    ASSUME NEW s \in ScanType, ScanWaits(s), NEW rows \in Rows, rows.of = s.market, rows.page = s.page
    PROVE  ScanOK(Listing(s, rows))
<1> DEFINE lists == s.lists \cup {rows.of}
           t == [s EXCEPT !.lists = lists, !.stocks = rows, !.loading = FALSE]
<1>1. lists \in SUBSET ScanMarkets
  BY DEF ScanType
<1>2. Listing(s, rows) = RefreshQuotes(t)
  BY DEF Listing
<1> HIDE DEF lists
<1>3. t \in ScanType /\ t.flying = s.flying /\ t.market = s.market /\ t.page = s.page /\ t.stocks = rows /\ t.loading = FALSE
  BY <1>1 DEF ScanType
<1> HIDE DEF t
<1>4. ScanOK(t)
  BY <1>3 DEF ScanOK, ScanWaits, RowsCurrent, RowsOwn
<1> QED
  BY <1>2, <1>4, RefreshQuotesKeeps

\* A new list begins with no request in flight.
LEMMA FetchStocksKeeps ==
    ASSUME NEW s \in ScanType, Single(s.flying, "stocks"), Single(s.flying, "quotes")
    PROVE  ScanOK(FetchStocks(s))
<1> DEFINE f == s.flying
           half == Dropped(f, "quotes")
           quiet == Dropped(half, "stocks")
           started == [s EXCEPT !.loading = TRUE, !.error = FALSE, !.flying = quiet]
           t == FetchStocks(s)
<1>0. f \in Seq(ScanRequests)
  BY DEF ScanType
<1>1. half \in Seq(ScanRequests) /\ Single(half, "stocks") /\ Single(half, "quotes") /\ Flying(half, "quotes") = {}
  <2> HIDE DEF f
  <2> QED
    BY <1>0, DroppedIs DEF f
<1>2. /\ quiet \in Seq(ScanRequests) /\ Single(quiet, "stocks") /\ Single(quiet, "quotes")
      /\ Flying(quiet, "stocks") = {}
  <2> HIDE DEF half
  <2> QED
    BY <1>1, DroppedIs
<1>3. Flying(quiet, "quotes") = {}
  <2> HIDE DEF half
  <2>1. CASE Flying(half, "stocks") = {}
    BY <1>1, <2>1 DEF Dropped
  <2>2. CASE Flying(half, "stocks") # {}
    <3>1. PICK i \in DOMAIN half : quiet = Answered(half, i)
      <4>1. (CHOOSE i \in Flying(half, "stocks") : TRUE) \in Flying(half, "stocks")
        BY <2>2
      <4>2. (CHOOSE i \in Flying(half, "stocks") : TRUE) \in DOMAIN half
        BY <4>1 DEF Flying
      <4> QED
        BY <2>2, <4>2 DEF Dropped
    <3> HIDE DEF quiet
    <3>2. \A j \in DOMAIN quiet : \E k \in DOMAIN half : quiet[j] = half[k]
      BY <1>1, <3>1, OthersStay
    <3> QED
      BY <1>1, <3>2 DEF Flying
  <2> QED
    BY <2>1, <2>2
<1> HIDE DEF quiet
<1>4. quiet \in Seq(ScanAsks(s.market, s.page))
  <2>1. ASSUME NEW i \in DOMAIN quiet PROVE FALSE
    <3>1. quiet[i] \in ScanRequests
      BY <1>2
    <3>2. quiet[i].what \in {"stocks", "quotes"}
      BY <3>1 DEF ScanRequests, Requests
    <3> QED
      BY <1>2, <1>3, <3>2 DEF Flying
  <2>2. \A i \in DOMAIN quiet : quiet[i] \in ScanAsks(s.market, s.page)
    BY <2>1
  <2>3. Len(quiet) \in Nat /\ DOMAIN quiet = 1 .. Len(quiet) /\ quiet = [i \in 1 .. Len(quiet) |-> quiet[i]]
    BY <1>2
  <2> QED
    BY <2>2, <2>3
<1>5. /\ started \in ScanType /\ started.flying = quiet /\ started.market = s.market /\ started.page = s.page
      /\ started.query = s.query
  BY <1>2 DEF ScanType
<1>6. Selected(started) = Selected(s) /\ Selected(s) \in Rows /\ Selected(s).of = s.market /\ Selected(s).page = s.page
  BY <1>5, ScanConstants DEF Selected
<1>7. ScanWaits(started)
  BY <1>2, <1>4, <1>5 DEF ScanWaits
<1>8. t = IF s.market = "cn" /\ "cn" \in s.lists THEN Listing(started, Selected(s))
          ELSE [started EXCEPT !.flying = AskAnew(@, "stocks", Selected(s))]
  BY DEF FetchStocks, quiet
<1> HIDE DEF started, t
<1>9. CASE t = Listing(started, Selected(s))
  BY <1>5, <1>6, <1>7, <1>9, ListingKeeps DEF t
<1>10. CASE t = [started EXCEPT !.flying = AskAnew(@, "stocks", Selected(s))]
  <2> DEFINE g == AskAnew(quiet, "stocks", Selected(s))
  <2>1. t = [started EXCEPT !.flying = g]
    BY <1>5, <1>10
  <2>2. /\ g \in Seq(ScanAsks(s.market, s.page)) /\ Single(g, "stocks") /\ Single(g, "quotes")
        /\ Flying(g, "stocks") # {}
    BY <1>2, <1>4, <1>6, ScanAsked DEF ScanType
  <2> HIDE DEF g
  <2>3. g \in Seq(ScanRequests)
    <3>1. \A r \in ScanAsks(s.market, s.page) : r \in ScanRequests
      BY DEF ScanAsks
    <3> QED
      BY <2>2, <3>1, SeqWider
  <2>4. t \in ScanType /\ t.flying = g /\ t.market = s.market /\ t.page = s.page
    BY <1>5, <2>1, <2>3 DEF ScanType
  <2>5. ScanOK(t)
    BY <2>2, <2>4 DEF ScanOK, ScanWaits, RowsCurrent
  <2> QED
    BY <2>5 DEF t
<1> QED
  BY <1>8, <1>9, <1>10

LEMMA ScanStarts == ScanInit => ScanOK(ui)
<1> SUFFICES ASSUME ScanInit PROVE ScanOK(ui)
  OBVIOUS
<1> DEFINE f == <<>>
           s(market, query) ==
               [market |-> market, query |-> query, debounced |-> query, page |-> 1, local |-> 1,
                filtered |-> FALSE, lists |-> {}, stocks |-> NoRows, loading |-> FALSE, error |-> FALSE,
                quotes |-> [state |-> "loading", of |-> NoRows], flying |-> f]
<1>1. PICK market \in ScanMarkets, query \in {None, "q"} : ui = FetchStocks(s(market, query))
  BY DEF ScanInit, ScanMarkets
<1> DEFINE u == s(market, query)
<1>2. f \in Seq(ScanRequests) /\ Single(f, "stocks") /\ Single(f, "quotes")
  BY DEF Single, Flying
<1> HIDE DEF f
<1>3. u \in ScanType /\ u.flying = f
  BY <1>2, ScanConstants DEF ScanType
<1>4. ui = FetchStocks(u)
  BY <1>1
<1> HIDE DEF u, s
<1> QED
  BY <1>2, <1>3, <1>4, FetchStocksKeeps

LEMMA ToStorePageKeeps ==
    ASSUME NEW s, ScanOK(s), NEW number \in {1, 2}
    PROVE  ScanOK(ToStorePage(s, number))
<1>1. CASE number = s.page
  BY <1>1 DEF ToStorePage
<1>2. CASE number # s.page
  <2> DEFINE t == [s EXCEPT !.page = number]
  <2>1. ToStorePage(s, number) = FetchStocks(t)
    BY <1>2 DEF ToStorePage
  <2>2. t \in ScanType /\ t.flying = s.flying
    BY DEF ScanOK, ScanType
  <2> HIDE DEF t
  <2>3. Single(t.flying, "stocks") /\ Single(t.flying, "quotes")
    BY <2>2 DEF ScanOK, ScanWaits
  <2> QED
    BY <2>1, <2>2, <2>3, FetchStocksKeeps
<1> QED
  BY <1>1, <1>2

LEMMA ScanAnswered ==
    ASSUME NEW s, ScanOK(s), NEW i \in DOMAIN s.flying
    PROVE  LET f == s.flying
               g == Answered(f, i)
           IN  /\ f[i] \in ScanAsks(s.market, s.page) /\ g \in Seq(ScanRequests)
               /\ g \in Seq(ScanAsks(s.market, s.page)) /\ Single(g, "stocks") /\ Single(g, "quotes")
               /\ f[i].what # "stocks" /\ Flying(f, "stocks") # {} => Flying(g, "stocks") # {}
<1> DEFINE f == s.flying
           g == Answered(f, i)
<1>1. /\ f \in Seq(ScanAsks(s.market, s.page)) /\ Single(f, "stocks") /\ Single(f, "quotes") /\ i \in DOMAIN f
      /\ f \in Seq(ScanRequests)
  BY DEF ScanOK, ScanWaits, ScanType
<1> HIDE DEF f
<1>2. g \in Seq(ScanAsks(s.market, s.page)) /\ f[i] \in ScanAsks(s.market, s.page) /\ g \in Seq(ScanRequests)
  <2>1. g \in Seq(ScanAsks(s.market, s.page))
    BY <1>1, AnsweredIn
  <2>2. g \in Seq(ScanRequests)
    BY <1>1, AnsweredIn
  <2> QED
    BY <1>1, <2>1, <2>2
<1>3. \A other : Single(f, other) => Single(g, other)
  BY <1>1, SingleLasts
<1>4. f[i].what # "stocks" /\ Flying(f, "stocks") # {} => Flying(g, "stocks") # {}
  BY <1>1, WaitingAnswered
<1> HIDE DEF g
<1>5. /\ f[i] \in ScanAsks(s.market, s.page) /\ g \in Seq(ScanRequests)
      /\ g \in Seq(ScanAsks(s.market, s.page)) /\ Single(g, "stocks") /\ Single(g, "quotes")
      /\ f[i].what # "stocks" /\ Flying(f, "stocks") # {} => Flying(g, "stocks") # {}
  BY <1>1, <1>2, <1>3, <1>4
<1> QED
  BY <1>5 DEF f, g

LEMMA ScanSteps ==
    ASSUME ScanOK(ui), ScanNext
    PROVE  ScanOK(ui')
<1> DEFINE f == ui.flying
           h(i) == Answered(f, i)
<1>0. ui \in ScanType /\ f \in Seq(ScanRequests) /\ ScanWaits(ui) /\ RowsCurrent(ui)
  BY DEF ScanOK, ScanType
<1>k. ASSUME NEW s \in ScanType, s.flying = f, s.market = ui.market, s.page = ui.page, s.stocks = ui.stocks, s.error = ui.error,
             s.loading = ui.loading
      PROVE  ScanOK(s)
  BY <1>0, <1>k DEF ScanOK, ScanWaits, RowsCurrent, RowsOwn
<1>f. ASSUME NEW s \in ScanType, s.flying = f PROVE ScanOK(FetchStocks(s))
  BY <1>0, <1>f, FetchStocksKeeps DEF ScanWaits
<1>1. ASSUME NEW i \in DOMAIN ui.flying, NEW outcome \in {"ok", "empty", "failed"}, StocksAnswer(i, outcome) PROVE ScanOK(ui')
  <2> DEFINE k == h(i)
             r == f[i]
             rows == r.of
             rest == [ui EXCEPT !.flying = k]
             empty == [rest EXCEPT !.stocks = NoRows, !.loading = FALSE]
  <2>1. /\ r.what = "stocks"
        /\ \/ ui' = Listing(rest, rows)
           \/ ui' = RefreshQuotes(empty)
           \/ ui' = [rest EXCEPT !.error = TRUE, !.loading = FALSE]
    BY <1>1 DEF StocksAnswer
  <2>2. /\ r \in ScanAsks(ui.market, ui.page) /\ k \in Seq(ScanRequests)
        /\ k \in Seq(ScanAsks(ui.market, ui.page)) /\ Single(k, "stocks") /\ Single(k, "quotes")
    BY ScanAnswered
  <2> HIDE DEF k, r
  <2>3. rows \in Rows /\ rows.of = ui.market /\ rows.page = ui.page
    BY <2>1, <2>2 DEF ScanAsks, ScanRequests, Requests
  <2>4. rest \in ScanType /\ rest.flying = k /\ rest.market = ui.market /\ rest.page = ui.page
    BY <1>0, <2>2 DEF ScanType
  <2> HIDE DEF rest, rows
  <2>5. CASE ui' = Listing(rest, rows)
    BY <2>2, <2>3, <2>4, <2>5, ListingKeeps DEF ScanWaits
  <2>6. CASE ui' = RefreshQuotes(empty)
    <3>1. empty \in ScanType /\ empty.flying = k /\ empty.market = ui.market /\ empty.page = ui.page /\ empty.stocks = NoRows
          /\ empty.loading = FALSE
      BY <2>4 DEF ScanType
    <3> HIDE DEF empty
    <3>2. ScanOK(empty)
      BY <2>2, <3>1 DEF ScanOK, ScanWaits, RowsCurrent, RowsOwn
    <3> QED
      BY <2>6, <3>2, RefreshQuotesKeeps
  <2>7. CASE ui' = [rest EXCEPT !.error = TRUE, !.loading = FALSE]
    <3>1. ui' \in ScanType /\ ui'.flying = k /\ ui'.market = ui.market /\ ui'.page = ui.page /\ ui'.error = TRUE
          /\ ui'.loading = FALSE
      BY <2>4, <2>7 DEF ScanType
    <3> QED
      BY <2>2, <3>1 DEF ScanOK, ScanWaits, RowsCurrent
  <2> QED
    BY <2>1, <2>5, <2>6, <2>7
<1>2. ASSUME NEW i \in DOMAIN ui.flying, NEW state \in {"live", "stale", "unavailable"}, ListQuotesAnswer(i, state) PROVE ScanOK(ui')
  <2> DEFINE k == h(i)
             r == f[i]
             s == WithListQuotes(ui, r.of, state)
  <2>2. /\ r \in ScanAsks(ui.market, ui.page) /\ k \in Seq(ScanRequests)
        /\ k \in Seq(ScanAsks(ui.market, ui.page)) /\ Single(k, "stocks") /\ Single(k, "quotes")
        /\ r.what # "stocks" /\ Flying(f, "stocks") # {} => Flying(k, "stocks") # {}
    BY ScanAnswered
  <2>3. r.what = "quotes" /\ Heard(i, s)
    BY <1>2 DEF ListQuotesAnswer
  <2>4. r.current
    BY <2>2 DEF ScanAsks
  <2>5. s.flying = f
    BY <1>0 DEF WithListQuotes, ScanType
  <2>6. ui' = [s EXCEPT !.flying = k]
    BY <2>3, <2>4, <2>5 DEF Heard
  <2>7. Flying(f, "stocks") # {} => Flying(k, "stocks") # {}
    BY <2>2, <2>3
  <2> HIDE DEF k, r
  <2>8. /\ r.of \in ScanQuotes /\ r.of.asked \in Rows /\ r.of.then \in Rows
        /\ r.of.then.of = ui.market /\ r.of.then.page = ui.page
    <3>1. r.of \in ScanQuotes /\ r.of.then.of = ui.market /\ r.of.then.page = ui.page
      BY <2>2, <2>3 DEF ScanAsks, ScanRequests, Requests
    <3> QED
      BY <3>1 DEF ScanQuotes
  <2>9. s \in ScanType /\ s.market = ui.market /\ s.page = ui.page /\ s.error = ui.error /\ s.loading = ui.loading
        /\ (s.stocks = ui.stocks \/ RowsOwn(s))
    <3>1. CASE state # "live"
      <4> DEFINE quotes == [ui.quotes EXCEPT !.state = state]
      <4>1. s = [ui EXCEPT !.quotes = quotes]
        BY <1>0, <3>1 DEF WithListQuotes, ScanType
      <4>2. quotes \in [state : {"loading", "live", "stale", "unavailable"}, of : Rows \cup {NoRows}]
        BY <1>0 DEF ScanType
      <4> HIDE DEF quotes, s
      <4> QED
        BY <1>0, <4>1, <4>2 DEF ScanType
    <3>2. CASE state = "live"
      <4> DEFINE quotes == [state |-> "live", of |-> r.of.asked]
                 rows == [r.of.then EXCEPT !.of = ui.market]
                 stocks == IF ui.market \in ui.lists THEN rows ELSE NoRows
      <4>1. s = [ui EXCEPT !.quotes = quotes, !.stocks = stocks]
        BY <3>2 DEF WithListQuotes
      <4>2. quotes \in [state : {"loading", "live", "stale", "unavailable"}, of : Rows \cup {NoRows}]
        BY <2>8
      <4>3. rows \in Rows /\ rows.of = ui.market /\ rows.page = ui.page
        BY <1>0, <2>8 DEF ScanType, Rows, ScanMarkets
      <4>4. stocks \in Rows \cup {NoRows} /\ (stocks = NoRows \/ (stocks.of = ui.market /\ stocks.page = ui.page))
        <5> HIDE DEF rows
        <5> QED
          BY <4>3
      <4> HIDE DEF quotes, stocks, s
      <4>5. s \in ScanType /\ s.market = ui.market /\ s.page = ui.page /\ s.error = ui.error /\ s.stocks = stocks
            /\ s.loading = ui.loading
        BY <1>0, <4>1, <4>2, <4>4 DEF ScanType
      <4> QED
        BY <4>4, <4>5 DEF RowsOwn
    <3> QED
      BY <3>1, <3>2
  <2> HIDE DEF s
  <2>10. /\ ui' \in ScanType /\ ui'.flying = k /\ ui'.market = ui.market /\ ui'.page = ui.page /\ ui'.error = ui.error
         /\ ui'.stocks = s.stocks /\ ui'.loading = ui.loading
    BY <2>2, <2>6, <2>9 DEF ScanType
  <2>11. RowsCurrent(ui')
    BY <1>0, <2>7, <2>9, <2>10 DEF RowsCurrent, RowsOwn
  <2> QED
    BY <2>2, <2>10, <2>11 DEF ScanOK, ScanWaits
<1>3. ASSUME NEW market \in {"us", "cn"}, SelectMarket(market) PROVE ScanOK(ui')
  <2> DEFINE quotes == [ui.quotes EXCEPT !.state = "loading"]
             s == [ui EXCEPT !.market = market, !.page = 1, !.local = 1, !.quotes = quotes]
  <2>1. ui' = FetchStocks(s)
    BY <1>0, <1>3 DEF SelectMarket, ScanType
  <2>2. quotes \in [state : {"loading", "live", "stale", "unavailable"}, of : Rows \cup {NoRows}]
    BY <1>0 DEF ScanType
  <2> HIDE DEF quotes
  <2>3. s \in ScanType /\ s.flying = f
    BY <1>0, <2>2 DEF ScanType, ScanMarkets
  <2> HIDE DEF s
  <2> QED
    BY <1>f, <2>1, <2>3
<1>4. ASSUME NEW on \in BOOLEAN, Filter(on) PROVE ScanOK(ui')
  <2> DEFINE s == [ui EXCEPT !.filtered = on, !.local = 1]
  <2>1. ui' = ToStorePage(s, 1) /\ 1 \in {1, 2}
    BY <1>4 DEF Filter
  <2>2. s \in ScanType /\ s.flying = f /\ s.market = ui.market /\ s.page = ui.page /\ s.stocks = ui.stocks /\ s.error = ui.error
        /\ s.loading = ui.loading
    BY <1>0 DEF ScanType
  <2> HIDE DEF s
  <2> QED
    BY <1>k, <2>1, <2>2, ToStorePageKeeps
<1>5. ASSUME NEW number \in {1, 2}, GoPage(number) PROVE ScanOK(ui')
  <2> DEFINE s == [ui EXCEPT !.local = number]
  <2>1. ui' = ToStorePage(s, number)
    BY <1>5 DEF GoPage
  <2>2. s \in ScanType /\ s.flying = f /\ s.market = ui.market /\ s.page = ui.page /\ s.stocks = ui.stocks /\ s.error = ui.error
        /\ s.loading = ui.loading
    BY <1>0 DEF ScanType
  <2> HIDE DEF s
  <2> QED
    BY <1>k, <2>1, <2>2, ToStorePageKeeps
<1>6. ASSUME NEW query \in {None, "q"}, TypeSearch(query) PROVE ScanOK(ui')
  <2> DEFINE s == [ui EXCEPT !.query = query]
  <2>1. ui' = ToStorePage(s, 1) /\ 1 \in {1, 2}
    BY <1>6 DEF TypeSearch
  <2>2. s \in ScanType /\ s.flying = f /\ s.market = ui.market /\ s.page = ui.page /\ s.stocks = ui.stocks /\ s.error = ui.error
        /\ s.loading = ui.loading
    BY <1>0 DEF ScanType
  <2> HIDE DEF s
  <2> QED
    BY <1>k, <2>1, <2>2, ToStorePageKeeps
<1>7. ASSUME SearchSettles PROVE ScanOK(ui')
  <2> DEFINE s == [ui EXCEPT !.debounced = ui.query, !.page = 1, !.local = 1]
  <2>1. ui' = FetchStocks(s)
    BY <1>7 DEF SearchSettles
  <2>2. s \in ScanType /\ s.flying = f
    BY <1>0 DEF ScanType
  <2> HIDE DEF s
  <2> QED
    BY <1>f, <2>1, <2>2
<1>8. ASSUME PollListQuotes PROVE ScanOK(ui')
  BY <1>8, RefreshQuotesKeeps DEF PollListQuotes
<1>9. ASSUME RetryList PROVE ScanOK(ui')
  BY <1>0, <1>9, <1>f DEF RetryList
<1> QED
  BY <1>1, <1>2, <1>3, <1>4, <1>5, <1>6, <1>7, <1>8, <1>9 DEF ScanNext

LEMMA ScanTold ==
    ASSUME ScanOK(ui)
    PROVE  ScanStoreCurrent /\ ScanNeverStuck
<1>0. RowsCurrent(ui)
  BY DEF ScanOK
<1>1. ASSUME NEW i \in DOMAIN ui.flying PROVE ui.flying[i].current
  <2>1. ui.flying \in Seq(ScanAsks(ui.market, ui.page))
    BY DEF ScanOK, ScanWaits
  <2>2. ui.flying[i] \in ScanAsks(ui.market, ui.page)
    BY <2>1
  <2> QED
    BY <2>2 DEF ScanAsks
<1>2. ScanSettled(ui) => Flying(ui.flying, "stocks") = {}
  BY <1>1 DEF ScanSettled, Flying
<1>3. ScanStoreCurrent
  BY <1>0, <1>2 DEF ScanStoreCurrent, RowsCurrent, RowsOwn
<1>4. ui.loading => Waiting(ui.flying, "stocks")
  <2>1. ui.loading => Flying(ui.flying, "stocks") # {}
    BY <1>0 DEF RowsCurrent
  <2> QED
    BY <1>1, <2>1 DEF Waiting, Flying
<1>5. ASSUME ScanSettled(ui) PROVE ScanList(ui) # {}
  <2>1. ~ui.loading
    BY <1>0, <1>2, <1>5 DEF RowsCurrent
  <2>2. \E w \in {"spinner", "error", "rows", "nothing"} : w \in ScanList(ui)
    BY <2>1 DEF ScanList
  <2> QED
    BY <2>2
<1> QED
  BY <1>3, <1>4, <1>5 DEF ScanNeverStuck

-----------------------------------------------------------------------------
(* The reports *)

ReportsOf == [id : Routes, offset : Nat, asker : {"page", "system"}]

ReportsRequests == Requests({"reports"}, ReportsOf)

ReportsType ==
    [route : Routes, tab : {"flash", "reports"}, asked : SUBSET Routes, list : Seq(Nat), by : {"page", "system"},
     whole : BOOLEAN, meta : BOOLEAN, loading : BOOLEAN, error : BOOLEAN, hasMore : BOOLEAN, expanded : SUBSET Nat,
     flying : Seq(ReportsRequests)]

\* The call that is waited for: for one report, with nothing listed meanwhile; for
\* the next part of the list as it is; or for a list from its start, which is not
\* the page's own as long as it has a report to show.
CallFits(s, of) ==
    /\ of.id # NoReport => s.list = <<>>
    /\ of.offset > 0 => of.id = NoReport /\ of.offset = Len(s.list)
    /\ \A r \in s.asked \ {NoReport} : of.id = r \/ of.offset > 0 \/ (of.id = NoReport /\ of.asker = "system")

OneCall(s) ==
    /\ AtMostOne(s.flying, "reports") /\ (s.loading => Waiting(s.flying, "reports"))
    /\ \A i \in DOMAIN s.flying : s.flying[i].current => CallFits(s, s.flying[i].of)

\* The report asked for is listed, unless nothing is or a refresh of the whole
\* system replaced it.
ReportListed(s) ==
    \A r \in s.asked \ {NoReport} :
        /\ s.list = <<>> => s.loading \/ s.error \/ s.by = "system"
        /\ s.list # <<>> => s.by = "system" \/ r \in ToSet(s.list)

\* A list from its start numbers the archive.
ListWhole(s) == s.whole => \A k \in DOMAIN s.list : s.list[k] = k

ReportsCore(s) == s \in ReportsType /\ OneCall(s) /\ ReportListed(s) /\ ListWhole(s)

ReportsOK(s) == ReportsCore(s) /\ (s.tab = "reports" => s.asked = {s.route})

LEMMA AskedReports ==
    ASSUME NEW f \in Seq(ReportsRequests), NEW of \in ReportsOf
    PROVE  /\ Ask(f, "reports", of) \in Seq(ReportsRequests) /\ AtMostOne(Ask(f, "reports", of), "reports")
           /\ Waiting(Ask(f, "reports", of), "reports")
           /\ \A i \in DOMAIN Ask(f, "reports", of) :
                 Ask(f, "reports", of)[i].current => Ask(f, "reports", of)[i].of = of
<1> DEFINE W == {"reports"}
           g == Ask(f, "reports", of)
<1>1. f \in Seq(Requests(W, ReportsOf)) /\ "reports" \in W
  BY DEF ReportsRequests
<1> HIDE DEF W
<1>2. g \in Seq(Requests(W, ReportsOf)) /\ Owned(g, "reports", of) /\ AtMostOne(g, "reports") /\ Waiting(g, "reports")
  <2>1. g \in Seq(Requests(W, ReportsOf)) /\ Owned(g, "reports", of) /\ Waiting(g, "reports")
    BY <1>1, GateAsk
  <2>2. AtMostOne(g, "reports")
    BY <1>1, OneAsked
  <2> QED
    BY <2>1, <2>2
<1> HIDE DEF g
<1>3. g \in Seq(ReportsRequests)
  BY <1>2 DEF ReportsRequests, W
<1>4. ASSUME NEW i \in DOMAIN g, g[i].current PROVE g[i].of = of
  <2>1. g[i] \in ReportsRequests
    BY <1>3
  <2>2. g[i].what = "reports"
    BY <2>1 DEF ReportsRequests, Requests
  <2> QED
    BY <1>2, <1>4, <2>2 DEF Owned
<1> QED
  BY <1>2, <1>3, <1>4 DEF g

LEMMA FetchReportsKeeps ==
    ASSUME NEW s \in ReportsType, ReportListed(s), ListWhole(s), NEW offset \in Nat, NEW asker \in {"page", "system"},
           offset > 0 => offset = Len(s.list),
           \A r \in s.asked \ {NoReport} : offset > 0 \/ asker = "system"
    PROVE  /\ ReportsCore(FetchReports(s, offset, asker))
           /\ FetchReports(s, offset, asker).asked = s.asked /\ FetchReports(s, offset, asker).tab = s.tab
           /\ FetchReports(s, offset, asker).route = s.route
<1> DEFINE f == s.flying
           of == [id |-> NoReport, offset |-> offset, asker |-> asker]
           g == Ask(f, "reports", of)
           t == FetchReports(s, offset, asker)
<1>1. f \in Seq(ReportsRequests) /\ of \in ReportsOf /\ of.id = NoReport /\ of.offset = offset /\ of.asker = asker
  BY ReportsConstants DEF ReportsType, ReportsOf, Routes, NoReport
<1>2. t = [s EXCEPT !.loading = TRUE, !.error = FALSE, !.flying = g]
  BY DEF FetchReports
<1> HIDE DEF of
<1>3. /\ g \in Seq(ReportsRequests) /\ AtMostOne(g, "reports") /\ Waiting(g, "reports")
      /\ \A i \in DOMAIN g : g[i].current => g[i].of = of
  <2> HIDE DEF f
  <2> QED
    BY <1>1, AskedReports
<1> HIDE DEF g, t
<1>4. /\ t \in ReportsType /\ t.flying = g /\ t.asked = s.asked /\ t.list = s.list /\ t.by = s.by /\ t.whole = s.whole
      /\ t.loading = TRUE /\ t.tab = s.tab /\ t.route = s.route
  BY <1>2, <1>3 DEF ReportsType
<1>5. CallFits(t, of)
  BY <1>1, <1>4 DEF CallFits
<1>6. OneCall(t)
  BY <1>3, <1>4, <1>5 DEF OneCall
<1>7. ReportListed(t) /\ ListWhole(t)
  BY <1>4 DEF ReportListed, ListWhole
<1> QED
  BY <1>4, <1>6, <1>7 DEF ReportsCore, t

LEMMA FetchReportKeeps ==
    ASSUME NEW s \in ReportsType, NEW id \in Routes \ {NoReport}, s.asked \subseteq {id}
    PROVE  /\ ReportsCore(FetchReportById(s, id))
           /\ FetchReportById(s, id).asked = s.asked /\ FetchReportById(s, id).tab = s.tab
           /\ FetchReportById(s, id).route = s.route
<1> DEFINE f == s.flying
           of == [id |-> id, offset |-> 0, asker |-> "page"]
           g == Ask(f, "reports", of)
           empty == <<>>
           t == FetchReportById(s, id)
<1>1. f \in Seq(ReportsRequests) /\ of \in ReportsOf /\ of.id = id /\ of.offset = 0
  BY DEF ReportsType, ReportsOf
<1>2. t = [s EXCEPT !.loading = TRUE, !.error = FALSE, !.list = empty, !.meta = FALSE, !.expanded = {}, !.flying = g]
  BY DEF FetchReportById
<1> HIDE DEF of
<1>3. /\ g \in Seq(ReportsRequests) /\ AtMostOne(g, "reports") /\ Waiting(g, "reports")
      /\ \A i \in DOMAIN g : g[i].current => g[i].of = of
  <2> HIDE DEF f
  <2> QED
    BY <1>1, AskedReports
<1>e. empty \in Seq(Nat) /\ DOMAIN empty = {} /\ empty = <<>>
  OBVIOUS
<1> HIDE DEF g, t, empty
<1>4. /\ t \in ReportsType /\ t.flying = g /\ t.asked = s.asked /\ t.list = empty
      /\ t.loading = TRUE /\ t.tab = s.tab /\ t.route = s.route
  BY <1>2, <1>3, <1>e DEF ReportsType
<1>5. CallFits(t, of)
  BY <1>1, <1>4, <1>e DEF CallFits
<1>6. OneCall(t)
  BY <1>3, <1>4, <1>5 DEF OneCall
<1>7. ReportListed(t) /\ ListWhole(t)
  BY <1>4, <1>e DEF ReportListed, ListWhole
<1> QED
  BY <1>4, <1>6, <1>7 DEF ReportsCore, t

LEMMA FetchForRouteKeeps ==
    ASSUME NEW s \in ReportsType, ListWhole(s), s.asked = {s.route}
    PROVE  ReportsOK(FetchForRoute(s))
<1>1. CASE s.route # NoReport
  <2>1. s.route \in Routes \ {NoReport} /\ s.asked \subseteq {s.route}
    BY <1>1 DEF ReportsType
  <2> QED
    BY <1>1, <2>1, FetchReportKeeps DEF FetchForRoute, ReportsOK
<1>2. CASE s.route = NoReport
  <2>1. ReportListed(s) /\ \A r \in s.asked \ {NoReport} : FALSE
    BY <1>2 DEF ReportListed
  <2>2. 0 \in Nat /\ "page" \in {"page", "system"} /\ ~(0 > 0)
    OBVIOUS
  <2> QED
    BY <1>2, <2>1, <2>2, FetchReportsKeeps DEF FetchForRoute, ReportsOK
<1> QED
  BY <1>1, <1>2

LEMMA RequestEffectKeeps ==
    ASSUME NEW s, ReportsCore(s)
    PROVE  ReportsOK(RequestEffect(s))
<1>1. CASE s.tab # "reports" \/ s.asked = {s.route}
  BY <1>1 DEF RequestEffect, ReportsOK
<1>2. CASE ~(s.tab # "reports" \/ s.asked = {s.route})
  <2> DEFINE asked == {s.route}
             t == [s EXCEPT !.asked = asked]
  <2>1. RequestEffect(s) = FetchForRoute(t)
    BY <1>2 DEF RequestEffect
  <2>2. asked \in SUBSET Routes
    BY DEF ReportsCore, ReportsType
  <2> HIDE DEF asked
  <2>3. t \in ReportsType /\ t.asked = asked /\ t.route = s.route /\ t.whole = s.whole /\ t.list = s.list
    BY <2>2 DEF ReportsCore, ReportsType
  <2> HIDE DEF t
  <2>4. ListWhole(t)
    BY <2>3 DEF ReportsCore, ListWhole
  <2> QED
    BY <2>1, <2>3, <2>4, FetchForRouteKeeps DEF asked
<1> QED
  BY <1>1, <1>2

LEMMA ExpandEffectIs ==
    ASSUME NEW old, NEW s \in ReportsType
    PROVE  LET t == ExpandEffect(old, s)
           IN  /\ t \in ReportsType /\ t.route = s.route /\ t.tab = s.tab /\ t.asked = s.asked /\ t.list = s.list
               /\ t.by = s.by /\ t.whole = s.whole /\ t.loading = s.loading /\ t.error = s.error /\ t.flying = s.flying
<1> DEFINE expanded == s.expanded \cup {s.route}
           u == [s EXCEPT !.expanded = expanded]
           t == ExpandEffect(old, s)
<1>1. t = s \/ t = u
  BY DEF ExpandEffect
<1>2. expanded \in SUBSET Nat
  BY ReportsConstants DEF ReportsType, Routes
<1> HIDE DEF expanded, t
<1>3. /\ u \in ReportsType /\ u.route = s.route /\ u.tab = s.tab /\ u.asked = s.asked /\ u.list = s.list
      /\ u.by = s.by /\ u.whole = s.whole /\ u.loading = s.loading /\ u.error = s.error /\ u.flying = s.flying
  BY <1>2 DEF ReportsType
<1> HIDE DEF u
<1>4. /\ t \in ReportsType /\ t.route = s.route /\ t.tab = s.tab /\ t.asked = s.asked /\ t.list = s.list
      /\ t.by = s.by /\ t.whole = s.whole /\ t.loading = s.loading /\ t.error = s.error /\ t.flying = s.flying
  BY <1>1, <1>3
<1> QED
  BY <1>4 DEF t

LEMMA ExpandEffectKeeps ==
    ASSUME NEW old, NEW s, ReportsOK(s)
    PROVE  ReportsOK(ExpandEffect(old, s))
<1> DEFINE t == ExpandEffect(old, s)
<1>1. s \in ReportsType
  BY DEF ReportsOK, ReportsCore
<1>2. /\ t \in ReportsType /\ t.route = s.route /\ t.tab = s.tab /\ t.asked = s.asked /\ t.list = s.list
      /\ t.by = s.by /\ t.whole = s.whole /\ t.loading = s.loading /\ t.error = s.error /\ t.flying = s.flying
  BY <1>1, ExpandEffectIs
<1> HIDE DEF t
<1>3. OneCall(t)
  BY <1>2 DEF ReportsOK, ReportsCore, OneCall, CallFits
<1>4. ReportListed(t)
  BY <1>2 DEF ReportsOK, ReportsCore, ReportListed
<1>5. ListWhole(t)
  BY <1>2 DEF ReportsOK, ReportsCore, ListWhole
<1> QED
  BY <1>2, <1>3, <1>4, <1>5 DEF ReportsOK, ReportsCore, t

\* What the address, the tab and the path asked for last change.
LEMMA ReportsTurned ==
    ASSUME NEW s, ReportsCore(s), NEW t \in ReportsType, t.asked \in {s.asked, {}}, t.list = s.list, t.by = s.by,
           t.whole = s.whole, t.loading = s.loading, t.error = s.error, t.flying = s.flying
    PROVE  ReportsCore(t)
<1>1. OneCall(t)
  BY DEF ReportsCore, OneCall, CallFits
<1>2. ReportListed(t)
  BY DEF ReportsCore, ReportListed
<1>3. ListWhole(t)
  BY DEF ReportsCore, ListWhole
<1> QED
  BY <1>1, <1>2, <1>3 DEF ReportsCore

LEMMA MountedKeeps ==
    ASSUME NEW s, ReportsCore(s), NEW route \in Routes
    PROVE  ReportsOK(ReportsMounted(s, route))
<1> DEFINE tab == IF route = NoReport THEN "flash" ELSE "reports"
           t == [s EXCEPT !.route = route, !.asked = {}, !.tab = tab]
<1>1. ReportsMounted(s, route) = RequestEffect(t)
  BY DEF ReportsMounted
<1>2. tab \in {"flash", "reports"}
  OBVIOUS
<1> HIDE DEF tab
<1>3. /\ t \in ReportsType /\ t.asked = {} /\ t.list = s.list /\ t.by = s.by
      /\ t.whole = s.whole /\ t.loading = s.loading /\ t.error = s.error /\ t.flying = s.flying
  BY <1>2 DEF ReportsCore, ReportsType
<1> HIDE DEF t
<1>4. ReportsCore(t)
  BY <1>3, ReportsTurned
<1> QED
  BY <1>1, <1>4, RequestEffectKeeps

LEMMA ReportEffectsKeep ==
    ASSUME NEW old, NEW s, ReportsCore(s)
    PROVE  ReportsOK(ReportEffects(old, s))
  BY RequestEffectKeeps, ExpandEffectKeeps DEF ReportEffects

LEMMA BatchIs ==
    ASSUME NEW offset \in Nat
    PROVE  /\ Batch(offset) \in Seq(Nat)
           /\ \A k \in DOMAIN Batch(offset) : Batch(offset)[k] = offset + k
           /\ Batch(offset) # <<>> => Batch(offset)[1] \in Nat
<1> DEFINE n == IF Archive < offset THEN 0 ELSE IF Archive < offset + PerPage THEN Archive - offset ELSE PerPage
           batch == [k \in 1 .. n |-> offset + k]
<1>1. n \in Nat
  BY ReportsConstants
<1>2. Batch(offset) = batch
  BY DEF Batch
<1> HIDE DEF n
<1>3. \A k \in 1 .. n : offset + k \in Nat
  BY <1>1
<1>4. batch \in Seq(Nat) /\ DOMAIN batch = 1 .. n /\ \A k \in DOMAIN batch : batch[k] = offset + k
  BY <1>1, <1>3
<1> HIDE DEF batch
<1>5. batch # <<>> => batch[1] \in Nat
  <2>1. batch # <<>> => Len(batch) \in Nat \ {0}
    BY <1>4, EmptySeq
  <2>2. Len(batch) \in Nat \ {0} => 1 \in 1 .. Len(batch)
    OBVIOUS
  <2>3. 1 \in 1 .. Len(batch) => batch[1] \in Nat
    <3>1. Len(batch) \in Nat /\ DOMAIN batch = 1 .. Len(batch)
      BY <1>4, LenProperties
    <3>2. 1 \in DOMAIN batch => batch[1] = offset + 1
      BY <1>4
    <3> QED
      BY <3>1, <3>2
  <2> QED
    BY <2>1, <2>2, <2>3
<1> QED
  BY <1>2, <1>4, <1>5

LEMMA WithBatchKeeps ==
    ASSUME NEW s \in ReportsType, ReportListed(s), ListWhole(s), NEW of \in ReportsOf, CallFits(s, of), of.id = NoReport
    PROVE  LET t == WithBatch(s, of)
           IN  /\ t \in ReportsType /\ t.route = s.route /\ t.tab = s.tab /\ t.asked = s.asked /\ t.flying = s.flying
               /\ ReportListed(t) /\ ListWhole(t) /\ t.loading = FALSE
<1> DEFINE batch == Batch(of.offset)
           list == IF of.offset = 0 THEN batch ELSE s.list \o batch
           by == IF of.offset = 0 THEN of.asker ELSE s.by
           whole == s.whole \/ of.offset = 0
           more == of.offset + PerPage < Archive
           expanded == IF of.offset = 0 /\ batch # <<>> THEN {batch[1]} ELSE s.expanded
           t == WithBatch(s, of)
<1>0. of.offset \in Nat /\ of.asker \in {"page", "system"}
  BY DEF ReportsOf
<1>1. t = [s EXCEPT !.list = list, !.by = by, !.whole = whole, !.hasMore = more, !.meta = TRUE, !.loading = FALSE,
                    !.expanded = expanded]
  BY DEF WithBatch
<1>2. /\ batch \in Seq(Nat) /\ (batch # <<>> => batch[1] \in Nat)
      /\ \A k \in DOMAIN batch : batch[k] = of.offset + k
  BY <1>0, BatchIs
<1> HIDE DEF batch
<1>3. by \in {"page", "system"} /\ whole \in BOOLEAN /\ more \in BOOLEAN
  BY <1>0 DEF ReportsType
<1>4. s.list \in Seq(Nat) /\ s.expanded \in SUBSET Nat
  BY DEF ReportsType
<1>5. list \in Seq(Nat) /\ expanded \in SUBSET Nat
  BY <1>2, <1>4
<1> HIDE DEF list, by, whole, more, expanded, t
<1>6. /\ t \in ReportsType /\ t.route = s.route /\ t.tab = s.tab /\ t.asked = s.asked /\ t.flying = s.flying
      /\ t.list = list /\ t.by = by /\ t.whole = whole /\ t.loading = FALSE
  BY <1>1, <1>3, <1>5 DEF ReportsType
<1>7. of.offset > 0 => of.offset = Len(s.list)
  BY DEF CallFits
<1>8. ReportListed(t)
  <2>1. ASSUME NEW r \in s.asked \ {NoReport} PROVE by = "system" \/ (list # <<>> /\ r \in ToSet(list))
    <3>1. of.offset > 0 \/ of.asker = "system"
      BY DEF CallFits
    <3>2. CASE of.offset = 0
      BY <3>1, <3>2 DEF by
    <3>3. CASE of.offset > 0
      <4>1. Len(s.list) > 0 /\ s.list # <<>>
        BY <1>4, <1>7, <3>3
      <4>2. s.by = "system" \/ r \in ToSet(s.list)
        BY <4>1 DEF ReportListed
      <4>3. list = s.list \o batch /\ by = s.by
        BY <1>0, <3>3 DEF list, by
      <4>4. /\ DOMAIN s.list \subseteq DOMAIN list /\ Len(list) > 0
            /\ \A k \in DOMAIN s.list : list[k] = s.list[k]
        BY <1>2, <1>4, <4>1, <4>3
      <4>5. r \in ToSet(s.list) => r \in ToSet(list)
        BY <4>4 DEF ToSet
      <4>6. list # <<>>
        BY <1>5, <4>4
      <4> QED
        BY <4>2, <4>3, <4>5, <4>6
    <3> QED
      BY <1>0, <3>2, <3>3
  <2> QED
    BY <1>6, <2>1 DEF ReportListed
<1>9. ListWhole(t)
  <2>1. ASSUME whole, NEW k \in DOMAIN list PROVE list[k] = k
    <3>1. CASE of.offset = 0
      BY <1>2, <2>1, <3>1 DEF list
    <3>2. CASE of.offset > 0
      <4>1. s.whole /\ list = s.list \o batch
        BY <1>0, <2>1, <3>2 DEF whole, list
      <4>2. \A j \in DOMAIN s.list : s.list[j] = j
        BY <4>1 DEF ListWhole
      <4>3. CASE k \in DOMAIN s.list
        BY <1>2, <1>4, <4>1, <4>2, <4>3
      <4>4. CASE k \notin DOMAIN s.list
        <5>1. k \in 1 .. Len(s.list) + Len(batch) /\ k \notin 1 .. Len(s.list)
          BY <1>2, <1>4, <2>1, <4>1, <4>4
        <5>2. k - Len(s.list) \in DOMAIN batch /\ list[k] = batch[k - Len(s.list)]
          BY <1>2, <1>4, <4>1, <5>1
        <5>3. batch[k - Len(s.list)] = of.offset + (k - Len(s.list))
          BY <1>2, <5>2
        <5> QED
          BY <1>0, <1>4, <1>7, <3>2, <5>1, <5>2, <5>3
      <4> QED
        BY <4>3, <4>4
    <3> QED
      BY <1>0, <3>1, <3>2
  <2> QED
    BY <1>6, <2>1 DEF ListWhole
<1> QED
  BY <1>6, <1>8, <1>9 DEF t

\* A report that was asked for comes to an empty list.
LEMMA WithReportKeeps ==
    ASSUME NEW s \in ReportsType, NEW of \in ReportsOf, CallFits(s, of), of.id # NoReport
    PROVE  LET t == WithReport(s, of.id)
           IN  /\ t \in ReportsType /\ t.route = s.route /\ t.tab = s.tab /\ t.asked = s.asked /\ t.flying = s.flying
               /\ ReportListed(t) /\ ListWhole(t) /\ t.loading = FALSE
<1> DEFINE id == of.id
           list == <<id>>
           expanded == s.expanded \cup {id}
           t == WithReport(s, id)
<1>0. id \in Nat /\ id # NoReport /\ of.offset \in Nat
  BY ReportsConstants DEF ReportsOf, Routes
<1>1. s.list = <<>> /\ ~(of.offset > 0) /\ \A r \in s.asked \ {NoReport} : r = id
  <2>1. s.list = <<>> /\ ~(of.offset > 0)
    BY DEF CallFits
  <2> QED
    BY <2>1 DEF CallFits
<1>2. OtherReports(<<>>, id) = <<>>
  <2> DEFINE others == {k \in DOMAIN <<>> : <<>>[k] # id}
  <2>1. others = {}
    OBVIOUS
  <2>2. Cardinality(others) = 0
    BY <2>1, FS_EmptySet
  <2>3. OtherReports(<<>>, id) =
           [n \in 1 .. Cardinality(others) |-> <<>>[CHOOSE k \in others : Cardinality({j \in others : j <= k}) = n]]
    BY DEF OtherReports
  <2> HIDE DEF others
  <2> DEFINE rest == [n \in 1 .. Cardinality(others) |-> <<>>[CHOOSE k \in others : Cardinality({j \in others : j <= k}) = n]]
  <2>4. DOMAIN rest = 1 .. 0 /\ \A n \in 1 .. 0 : rest[n] \in Nat
    BY <2>2
  <2>5. rest = [n \in 1 .. 0 |-> rest[n]]
    BY <2>2
  <2> HIDE DEF rest
  <2>6. rest \in Seq(Nat) /\ Len(rest) = 0
    BY <2>4, <2>5
  <2>7. rest = <<>>
    BY <2>6, EmptySeq
  <2> QED
    BY <2>3, <2>7 DEF rest
<1>3. <<id>> \o <<>> = list
  BY <1>0
<1>4. t = [s EXCEPT !.list = list, !.by = "page", !.whole = FALSE, !.meta = TRUE, !.loading = FALSE,
                    !.expanded = expanded]
  BY <1>1, <1>2, <1>3 DEF WithReport
<1>5. list \in Seq(Nat) /\ 1 \in DOMAIN list /\ list[1] = id /\ DOMAIN list = 1 .. 1 /\ list # <<>> /\ expanded \in SUBSET Nat
  BY <1>0 DEF ReportsType
<1> HIDE DEF list, t, id, expanded
<1>6. /\ t \in ReportsType /\ t.route = s.route /\ t.tab = s.tab /\ t.asked = s.asked /\ t.flying = s.flying
      /\ t.list = list /\ t.whole = FALSE /\ t.loading = FALSE
  BY <1>4, <1>5 DEF ReportsType
<1>7. id \in ToSet(list) /\ list # <<>>
  BY <1>5 DEF ToSet
<1>8. ReportListed(t) /\ ListWhole(t)
  BY <1>1, <1>6, <1>7 DEF ReportListed, ListWhole
<1> QED
  BY <1>6, <1>8 DEF t, id

LEMMA ReportsStarts == ReportsInit => ReportsOK(ui)
<1> SUFFICES ASSUME ReportsInit PROVE ReportsOK(ui)
  OBVIOUS
<1> DEFINE f == <<>>
           list == <<>>
           s(route) == [route |-> route, tab |-> "flash", asked |-> {}, list |-> list, by |-> "page",
                        whole |-> TRUE, meta |-> FALSE, loading |-> FALSE, error |-> FALSE,
                        hasMore |-> TRUE, expanded |-> {}, flying |-> f]
<1>1. PICK route \in Routes : ui = ReportsMounted(s(route), route)
  BY DEF ReportsInit
<1> DEFINE u == s(route)
<1>2. /\ f \in Seq(ReportsRequests) /\ AtMostOne(f, "reports") /\ DOMAIN f = {}
      /\ list \in Seq(Nat) /\ DOMAIN list = {}
  BY DEF AtMostOne
<1> HIDE DEF f, list
<1>3. ReportsCore(u)
  BY <1>2 DEF ReportsCore, ReportsType, OneCall, ReportListed, ListWhole
<1>4. ui = ReportsMounted(u, route)
  BY <1>1
<1> HIDE DEF u, s
<1> QED
  BY <1>3, <1>4, MountedKeeps

LEMMA ReportsSteps ==
    ASSUME ReportsOK(ui), ReportsNext
    PROVE  ReportsOK(ui')
<1> DEFINE f == ui.flying
           h(i) == Answered(f, i)
<1>0. /\ ui \in ReportsType /\ f \in Seq(ReportsRequests) /\ ReportsCore(ui) /\ OneCall(ui)
      /\ ReportListed(ui) /\ ListWhole(ui)
  BY DEF ReportsOK, ReportsCore, ReportsType
\* An answer that is heard leaves no call that is waited for.
<1>h. ASSUME NEW i \in DOMAIN f
      PROVE  /\ f[i] \in ReportsRequests /\ f[i].of \in ReportsOf /\ f[i].what = "reports"
             /\ h(i) \in Seq(ReportsRequests) /\ AtMostOne(h(i), "reports")
             /\ f[i].current => \A j \in DOMAIN h(i) : ~h(i)[j].current
             /\ ~f[i].current /\ ui.loading => Waiting(h(i), "reports")
             /\ \A j \in DOMAIN h(i) : h(i)[j].current => CallFits(ui, h(i)[j].of)
  <2>1. f[i] \in ReportsRequests /\ AtMostOne(f, "reports")
    BY <1>0 DEF OneCall
  <2>2. f[i].of \in ReportsOf /\ f[i].what = "reports"
    <3> HIDE DEF f
    <3> QED
      BY <2>1 DEF ReportsRequests, Requests
  <2>3. \A j \in DOMAIN f : f[j].current => CallFits(ui, f[j].of)
    BY <1>0 DEF OneCall
  <2> HIDE DEF f
  <2>4. h(i) \in Seq(ReportsRequests)
    BY <1>0, AnsweredIn
  <2>5. AtMostOne(h(i), "reports") /\ (f[i].current => ~Waiting(h(i), f[i].what))
    <3>1. \A other : AtMostOne(f, other) => AtMostOne(h(i), other)
      BY <1>0, OneAnswered
    <3>2. AtMostOne(f, f[i].what) /\ f[i].current => ~Waiting(h(i), f[i].what)
      BY <1>0, OneAnswered
    <3> QED
      BY <2>1, <2>2, <3>1, <3>2
  <2>10. ~f[i].current /\ ui.loading => Waiting(h(i), "reports")
    <3>1. ui.loading => Waiting(f, "reports")
      BY <1>0 DEF OneCall, f
    <3> QED
      BY <1>0, <3>1, GateAnswered
  <2>6. \A j \in DOMAIN h(i) : \E k \in DOMAIN f \ {i} : h(i)[j] = f[k]
    BY <1>0, OthersStay
  <2> HIDE DEF h
  <2>7. \A j \in DOMAIN h(i) : h(i)[j].what = "reports"
    <3> TAKE j \in DOMAIN h(i)
    <3>1. h(i)[j] \in ReportsRequests
      BY <2>4
    <3> QED
      BY <3>1 DEF ReportsRequests, Requests
  <2>8. f[i].current => \A j \in DOMAIN h(i) : ~h(i)[j].current
    BY <2>2, <2>5, <2>7 DEF Waiting, Flying
  <2>9. \A j \in DOMAIN h(i) : h(i)[j].current => CallFits(ui, h(i)[j].of)
    BY <2>3, <2>6
  <2> QED
    BY <2>1, <2>2, <2>4, <2>5, <2>8, <2>9, <2>10
<1>a. ASSUME NEW i \in DOMAIN f, NEW s \in ReportsType, s.flying = f, s.route = ui.route, s.tab = ui.tab,
             s.asked = ui.asked, f[i].current => ReportListed(s) /\ ListWhole(s) /\ ~s.loading, Heard(i, s)
      PROVE  ReportsOK(ui')
  <2> DEFINE k == h(i)
  <2>1. k \in Seq(ReportsRequests) /\ AtMostOne(k, "reports")
    BY <1>h
  <2>2. CASE f[i].current
    <3>1. ui' = [s EXCEPT !.flying = k]
      BY <1>a, <2>2 DEF Heard
    <3>2. \A j \in DOMAIN k : ~k[j].current
      BY <1>h, <2>2
    <3> HIDE DEF k
    <3>3. /\ ui' \in ReportsType /\ ui'.flying = k /\ ui'.route = s.route /\ ui'.tab = s.tab /\ ui'.asked = s.asked
          /\ ui'.list = s.list /\ ui'.by = s.by /\ ui'.whole = s.whole /\ ui'.loading = s.loading /\ ui'.error = s.error
      BY <1>a, <2>1, <3>1 DEF ReportsType
    <3>4. OneCall(ui')
      BY <1>a, <2>1, <2>2, <3>2, <3>3 DEF OneCall
    <3>5. ReportListed(ui') /\ ListWhole(ui')
      BY <1>a, <2>2, <3>3 DEF ReportListed, ListWhole
    <3> QED
      BY <1>a, <3>3, <3>4, <3>5 DEF ReportsOK, ReportsCore
  <2>3. CASE ~f[i].current
    <3>1. ui' = [ui EXCEPT !.flying = k]
      BY <1>a, <2>3 DEF Heard
    <3>2. /\ \A j \in DOMAIN k : k[j].current => CallFits(ui, k[j].of)
          /\ ui.loading => Waiting(k, "reports")
      BY <1>h, <2>3
    <3> HIDE DEF k
    <3>3. /\ ui' \in ReportsType /\ ui'.flying = k /\ ui'.route = ui.route /\ ui'.tab = ui.tab /\ ui'.asked = ui.asked
          /\ ui'.list = ui.list /\ ui'.by = ui.by /\ ui'.whole = ui.whole /\ ui'.loading = ui.loading /\ ui'.error = ui.error
      BY <1>0, <2>1, <3>1 DEF ReportsType
    <3>4. OneCall(ui')
      BY <2>1, <3>2, <3>3 DEF OneCall, CallFits
    <3>5. ReportListed(ui') /\ ListWhole(ui')
      BY <1>0, <3>3 DEF ReportListed, ListWhole
    <3> QED
      BY <3>3, <3>4, <3>5 DEF ReportsOK, ReportsCore
  <2> QED
    BY <2>2, <2>3
<1>1. ASSUME NEW i \in DOMAIN ui.flying, ReportsAnswer(i) PROVE ReportsOK(ui')
  <2> DEFINE of == f[i].of
             s == IF of.id = NoReport THEN WithBatch(ui, of) ELSE WithReport(ui, of.id)
             t == ExpandEffect(ui, s)
  <2>1. Heard(i, t)
    BY <1>1 DEF ReportsAnswer
  <2>2. of \in ReportsOf /\ (f[i].current => CallFits(ui, of))
    BY <1>0, <1>h DEF OneCall
  <2>3. CASE f[i].current
    <3> HIDE DEF of
    <3>1. /\ s \in ReportsType /\ s.route = ui.route /\ s.tab = ui.tab /\ s.asked = ui.asked /\ s.flying = f
          /\ ReportListed(s) /\ ListWhole(s) /\ s.loading = FALSE
      <4>1. CASE of.id = NoReport
        BY <1>0, <2>2, <2>3, <4>1, WithBatchKeeps
      <4>2. CASE of.id # NoReport
        BY <1>0, <2>2, <2>3, <4>2, WithReportKeeps
      <4> QED
        BY <4>1, <4>2
    <3> HIDE DEF s
    <3>2. /\ t \in ReportsType /\ t.route = s.route /\ t.tab = s.tab /\ t.asked = s.asked /\ t.list = s.list
          /\ t.by = s.by /\ t.whole = s.whole /\ t.loading = s.loading /\ t.error = s.error /\ t.flying = s.flying
      BY <3>1, ExpandEffectIs
    <3> HIDE DEF t
    <3>3. ReportListed(t) /\ ListWhole(t)
      BY <3>1, <3>2 DEF ReportListed, ListWhole
    <3>4. t.flying = f /\ t.route = ui.route /\ t.tab = ui.tab /\ t.asked = ui.asked
      BY <3>1, <3>2
    <3> QED
      BY <1>a, <2>1, <3>1, <3>2, <3>3, <3>4
  <2>4. CASE ~f[i].current
    <3>1. Heard(i, ui)
      BY <2>1, <2>4 DEF Heard
    <3> QED
      BY <1>0, <1>a, <2>4, <3>1
  <2> QED
    BY <2>3, <2>4
<1>2. ASSUME NEW i \in DOMAIN ui.flying, ReportsFailed(i) PROVE ReportsOK(ui')
  <2> DEFINE s == [ui EXCEPT !.error = TRUE, !.loading = FALSE]
  <2>1. Heard(i, s)
    BY <1>2 DEF ReportsFailed
  <2>2. /\ s \in ReportsType /\ s.flying = f /\ s.route = ui.route /\ s.tab = ui.tab /\ s.asked = ui.asked
        /\ s.list = ui.list /\ s.by = ui.by /\ s.whole = ui.whole /\ s.error = TRUE /\ ~s.loading
    BY <1>0 DEF ReportsType
  <2> HIDE DEF s
  <2>3. ReportListed(s) /\ ListWhole(s)
    BY <1>0, <2>2 DEF ReportListed, ListWhole
  <2> QED
    BY <1>a, <2>1, <2>2, <2>3
<1>3. ASSUME NEW route \in Routes, FollowReport(route) PROVE ReportsOK(ui')
  <2> DEFINE s == [ui EXCEPT !.route = route]
  <2>1. ui' = ReportEffects(ui, s)
    BY <1>3 DEF FollowReport
  <2>2. /\ s \in ReportsType /\ s.asked = ui.asked /\ s.list = ui.list /\ s.by = ui.by
        /\ s.whole = ui.whole /\ s.loading = ui.loading /\ s.error = ui.error /\ s.flying = ui.flying
    BY <1>0 DEF ReportsType
  <2> HIDE DEF s
  <2>3. ReportsCore(s)
    BY <1>0, <2>2, ReportsTurned
  <2> QED
    BY <2>1, <2>3, ReportEffectsKeep
<1>4. ASSUME NEW route \in Routes, ReopenReports(route) PROVE ReportsOK(ui')
  BY <1>0, <1>4, MountedKeeps DEF ReopenReports
<1>5. ASSUME NEW tab \in {"flash", "reports"}, SetReportsTab(tab) PROVE ReportsOK(ui')
  <2> DEFINE s == [ui EXCEPT !.tab = tab]
  <2>1. ui' = ReportEffects(ui, s)
    BY <1>5 DEF SetReportsTab
  <2>2. /\ s \in ReportsType /\ s.asked = ui.asked /\ s.list = ui.list /\ s.by = ui.by
        /\ s.whole = ui.whole /\ s.loading = ui.loading /\ s.error = ui.error /\ s.flying = ui.flying
    BY <1>0 DEF ReportsType
  <2> HIDE DEF s
  <2>3. ReportsCore(s)
    BY <1>0, <2>2, ReportsTurned
  <2> QED
    BY <2>1, <2>3, ReportEffectsKeep
<1>6. ASSUME NEW id \in 1 .. Archive, ToggleReport(id) PROVE ReportsOK(ui')
  <2> DEFINE expanded == IF id \in ui.expanded THEN ui.expanded \ {id} ELSE ui.expanded \cup {id}
  <2>1. ui' = [ui EXCEPT !.expanded = expanded] /\ id \in Nat
    BY <1>6, ReportsConstants DEF ToggleReport
  <2>2. expanded \in SUBSET Nat
    BY <1>0, <2>1 DEF ReportsType
  <2> HIDE DEF expanded
  <2>3. /\ ui' \in ReportsType /\ ui'.asked = ui.asked /\ ui'.list = ui.list /\ ui'.by = ui.by
        /\ ui'.whole = ui.whole /\ ui'.loading = ui.loading /\ ui'.error = ui.error /\ ui'.flying = ui.flying
        /\ ui'.tab = ui.tab /\ ui'.route = ui.route
    BY <1>0, <2>1, <2>2 DEF ReportsType
  <2>4. ReportsCore(ui')
    BY <1>0, <2>3, ReportsTurned
  <2> QED
    BY <2>3, <2>4 DEF ReportsOK
<1>7. ASSUME RefreshReports PROVE ReportsOK(ui')
  <2>1. ui' = FetchReports(ui, 0, "system") /\ 0 \in Nat /\ "system" \in {"page", "system"} /\ ~(0 > 0)
    BY <1>7 DEF RefreshReports
  <2> QED
    BY <1>0, <2>1, FetchReportsKeeps DEF ReportsOK
<1>8. ASSUME RetryReports PROVE ReportsOK(ui')
  <2>1. ui' = ExpandEffect(ui, FetchForRoute(ui)) /\ ui.asked = {ui.route}
    BY <1>8 DEF RetryReports, ReportsOK
  <2>2. ReportsOK(FetchForRoute(ui))
    BY <1>0, <2>1, FetchForRouteKeeps
  <2> QED
    BY <2>1, <2>2, ExpandEffectKeeps
<1>9. ASSUME MoreReports PROVE ReportsOK(ui')
  <2>1. ui' = FetchReports(ui, Len(ui.list), "page") /\ ui.list # <<>> /\ ui.list \in Seq(Nat)
    BY <1>0, <1>9 DEF MoreReports, ReportsType
  <2>2. Len(ui.list) \in Nat \ {0}
    BY <2>1, EmptySeq
  <2>3. Len(ui.list) \in Nat /\ Len(ui.list) > 0 /\ "page" \in {"page", "system"}
    BY <2>2
  <2> QED
    BY <1>0, <2>1, <2>3, FetchReportsKeeps DEF ReportsOK
<1> QED
  BY <1>1, <1>2, <1>3, <1>4, <1>5, <1>6, <1>7, <1>8, <1>9 DEF ReportsNext

LEMMA ReportsTold ==
    ASSUME ReportsOK(ui)
    PROVE  ReportRouteShown /\ (ui.loading => Waiting(ui.flying, "reports"))
<1>0. ui \in ReportsType /\ ReportListed(ui) /\ ListWhole(ui)
  BY DEF ReportsOK, ReportsCore
<1>1. ASSUME ui.tab = "reports", ui.route # NoReport, ~ui.loading, ~ui.error, ui.by = "page"
      PROVE  ui.route \in ToSet(ui.list)
  <2>1. ui.route \in ui.asked \ {NoReport}
    BY <1>1 DEF ReportsOK
  <2> QED
    BY <1>0, <1>1, <2>1 DEF ReportListed
<1>2. ui.whole => IsInjective(ui.list)
  BY <1>0 DEF ListWhole, IsInjective
<1>3. ui.loading => Waiting(ui.flying, "reports")
  BY DEF ReportsOK, ReportsCore, OneCall
<1> QED
  BY <1>1, <1>2, <1>3 DEF ReportRouteShown

-----------------------------------------------------------------------------
(* Which page is mounted *)

\* A step of a page is of the page that is mounted, and it stays so.
LEMMA PageSteps ==
    /\ HomeNext => page = "home" /\ page' = page
    /\ NotesNext => page = "notes" /\ page' = page
    /\ ETFNext => page = "etf" /\ page' = page
    /\ PortfolioNext => page = "portfolio" /\ page' = page
    /\ PaperPanelNext => page = "paper" /\ page' = page
    /\ AlertsNext => page = "alerts" /\ page' = page
    /\ QDIINext => page = "qdii" /\ page' = page
    /\ StockNext => page = "stock" /\ page' = page
    /\ DeskOrdersNext => page = "orders" /\ page' = page
    /\ DeskStateNext => page = "desk" /\ page' = page
    /\ ScanNext => page = "scan" /\ page' = page
    /\ CacheNext => page = "cache" /\ page' = page
    /\ AdminNext => page = "admin" /\ page' = page
    /\ FormNext => page = "form" /\ page' = page
    /\ SettingsNext => page = "settings" /\ page' = page
    /\ ShellNext => page = "shell" /\ page' = page
    /\ FreshNext => page = "fresh" /\ page' = page
    /\ RadarNext => page = "radar" /\ page' = page
    /\ GridNext => page = "grid" /\ page' = page
    /\ ChartNext => page = "chart" /\ page' = page
    /\ WatchlistNext => page = "watchlist" /\ page' = page
    /\ WhalesNext => page = "whales" /\ page' = page
    /\ ProfileNext => page = "profile" /\ page' = page
    /\ SocketNext => page = "socket" /\ page' = page
    /\ LabNext => page = "lab" /\ page' = page
    /\ ResearchNext => page = "research" /\ page' = page
    /\ CopilotNext => page = "copilot" /\ page' = page
    /\ CnToolsNext => page = "cn" /\ page' = page
    /\ JournalNext => page = "journal" /\ page' = page
    /\ MacroNext => page = "macro" /\ page' = page
    /\ GPUNext => page = "gpu" /\ page' = page
    /\ ReportsNext => page = "reports" /\ page' = page
    /\ FlashNext => page = "flash" /\ page' = page
    /\ ArenaNext => page = "arena" /\ page' = page
    /\ SelectorNext => page = "selector" /\ page' = page
    /\ PanelsNext => page = "panels" /\ page' = page
    /\ PulseNext => page = "pulse" /\ page' = page
    /\ HeatNext => page = "heat" /\ page' = page
<1>1. HomeNext => page = "home" /\ page' = page
  BY Zenon DEF HomeNext
<1>2. NotesNext => page = "notes" /\ page' = page
  BY Zenon DEF NotesNext
<1>3. ETFNext => page = "etf" /\ page' = page
  BY Zenon DEF ETFNext
<1>4. PortfolioNext => page = "portfolio" /\ page' = page
  BY Zenon DEF PortfolioNext
<1>5. PaperPanelNext => page = "paper" /\ page' = page
  BY Zenon DEF PaperPanelNext
<1>6. AlertsNext => page = "alerts" /\ page' = page
  BY Zenon DEF AlertsNext
<1>7. QDIINext => page = "qdii" /\ page' = page
  BY Zenon DEF QDIINext
<1>8. StockNext => page = "stock" /\ page' = page
  BY Zenon DEF StockNext
<1>9. DeskOrdersNext => page = "orders" /\ page' = page
  BY Zenon DEF DeskOrdersNext
<1>10. DeskStateNext => page = "desk" /\ page' = page
  BY Zenon DEF DeskStateNext
<1>11. ScanNext => page = "scan" /\ page' = page
  BY Zenon DEF ScanNext
<1>12. CacheNext => page = "cache" /\ page' = page
  BY Zenon DEF CacheNext
<1>13. AdminNext => page = "admin" /\ page' = page
  BY Zenon DEF AdminNext
<1>14. FormNext => page = "form" /\ page' = page
  BY Zenon DEF FormNext
<1>15. SettingsNext => page = "settings" /\ page' = page
  BY Zenon DEF SettingsNext
<1>16. ShellNext => page = "shell" /\ page' = page
  BY Zenon DEF ShellNext
<1>17. FreshNext => page = "fresh" /\ page' = page
  BY Zenon DEF FreshNext
<1>18. RadarNext => page = "radar" /\ page' = page
  BY Zenon DEF RadarNext
<1>19. GridNext => page = "grid" /\ page' = page
  BY Zenon DEF GridNext
<1>20. ChartNext => page = "chart" /\ page' = page
  BY Zenon DEF ChartNext
<1>21. WatchlistNext => page = "watchlist" /\ page' = page
  BY Zenon DEF WatchlistNext
<1>22. WhalesNext => page = "whales" /\ page' = page
  BY Zenon DEF WhalesNext
<1>23. ProfileNext => page = "profile" /\ page' = page
  BY Zenon DEF ProfileNext
<1>24. SocketNext => page = "socket" /\ page' = page
  BY Zenon DEF SocketNext
<1>25. LabNext => page = "lab" /\ page' = page
  BY Zenon DEF LabNext
<1>26. ResearchNext => page = "research" /\ page' = page
  BY Zenon DEF ResearchNext
<1>27. CopilotNext => page = "copilot" /\ page' = page
  BY Zenon DEF CopilotNext
<1>28. CnToolsNext => page = "cn" /\ page' = page
  BY Zenon DEF CnToolsNext
<1>29. JournalNext => page = "journal" /\ page' = page
  BY Zenon DEF JournalNext
<1>30. MacroNext => page = "macro" /\ page' = page
  BY Zenon DEF MacroNext
<1>31. GPUNext => page = "gpu" /\ page' = page
  BY Zenon DEF GPUNext
<1>32. ReportsNext => page = "reports" /\ page' = page
  BY Zenon DEF ReportsNext
<1>33. FlashNext => page = "flash" /\ page' = page
  BY Zenon DEF FlashNext
<1>34. ArenaNext => page = "arena" /\ page' = page
  BY Zenon DEF ArenaNext
<1>35. SelectorNext => page = "selector" /\ page' = page
  BY Zenon DEF SelectorNext
<1>36. PanelsNext => page = "panels" /\ page' = page
  BY Zenon DEF PanelsNext
<1>37. PulseNext => page = "pulse" /\ page' = page
  BY Zenon DEF PulseNext
<1>38. HeatNext => page = "heat" /\ page' = page
  BY Zenon DEF HeatNext
<1> QED
  BY <1>1, <1>2, <1>3, <1>4, <1>5, <1>6, <1>7, <1>8, <1>9, <1>10, <1>11, <1>12, <1>13, <1>14, <1>15, <1>16, <1>17, <1>18, <1>19, <1>20, <1>21, <1>22, <1>23, <1>24, <1>25, <1>26, <1>27, <1>28, <1>29, <1>30, <1>31, <1>32, <1>33, <1>34, <1>35, <1>36, <1>37, <1>38, Zenon

LEMMA PageStarts ==
    /\ HomeInit => page = "home"
    /\ NotesInit => page = "notes"
    /\ ETFInit => page = "etf"
    /\ PortfolioInit => page = "portfolio"
    /\ PaperPanelInit => page = "paper"
    /\ AlertsInit => page = "alerts"
    /\ QDIIInit => page = "qdii"
    /\ StockInit => page = "stock"
    /\ DeskOrdersInit => page = "orders"
    /\ DeskStateInit => page = "desk"
    /\ ScanInit => page = "scan"
    /\ CacheInit => page = "cache"
    /\ AdminInit => page = "admin"
    /\ FormInit => page = "form"
    /\ SettingsInit => page = "settings"
    /\ ShellInit => page = "shell"
    /\ FreshInit => page = "fresh"
    /\ RadarInit => page = "radar"
    /\ GridInit => page = "grid"
    /\ ChartInit => page = "chart"
    /\ WatchlistInit => page = "watchlist"
    /\ WhalesInit => page = "whales"
    /\ ProfileInit => page = "profile"
    /\ SocketInit => page = "socket"
    /\ LabInit => page = "lab"
    /\ ResearchInit => page = "research"
    /\ CopilotInit => page = "copilot"
    /\ CnToolsInit => page = "cn"
    /\ JournalInit => page = "journal"
    /\ MacroInit => page = "macro"
    /\ GPUInit => page = "gpu"
    /\ ReportsInit => page = "reports"
    /\ FlashInit => page = "flash"
    /\ ArenaInit => page = "arena"
    /\ SelectorInit => page = "selector"
    /\ PanelsInit => page = "panels"
    /\ PulseInit => page = "pulse"
    /\ HeatInit => page = "heat"
<1>1. HomeInit => page = "home"
  BY Zenon DEF HomeInit
<1>2. NotesInit => page = "notes"
  BY Zenon DEF NotesInit
<1>3. ETFInit => page = "etf"
  BY Zenon DEF ETFInit
<1>4. PortfolioInit => page = "portfolio"
  BY Zenon DEF PortfolioInit
<1>5. PaperPanelInit => page = "paper"
  BY Zenon DEF PaperPanelInit
<1>6. AlertsInit => page = "alerts"
  BY Zenon DEF AlertsInit
<1>7. QDIIInit => page = "qdii"
  BY Zenon DEF QDIIInit
<1>8. StockInit => page = "stock"
  BY Zenon DEF StockInit
<1>9. DeskOrdersInit => page = "orders"
  BY Zenon DEF DeskOrdersInit
<1>10. DeskStateInit => page = "desk"
  BY Zenon DEF DeskStateInit
<1>11. ScanInit => page = "scan"
  BY Zenon DEF ScanInit
<1>12. CacheInit => page = "cache"
  BY Zenon DEF CacheInit
<1>13. AdminInit => page = "admin"
  BY Zenon DEF AdminInit
<1>14. FormInit => page = "form"
  BY Zenon DEF FormInit
<1>15. SettingsInit => page = "settings"
  BY Zenon DEF SettingsInit
<1>16. ShellInit => page = "shell"
  BY Zenon DEF ShellInit
<1>17. FreshInit => page = "fresh"
  BY Zenon DEF FreshInit
<1>18. RadarInit => page = "radar"
  BY Zenon DEF RadarInit
<1>19. GridInit => page = "grid"
  BY Zenon DEF GridInit
<1>20. ChartInit => page = "chart"
  BY Zenon DEF ChartInit
<1>21. WatchlistInit => page = "watchlist"
  BY Zenon DEF WatchlistInit
<1>22. WhalesInit => page = "whales"
  BY Zenon DEF WhalesInit
<1>23. ProfileInit => page = "profile"
  BY Zenon DEF ProfileInit
<1>24. SocketInit => page = "socket"
  BY Zenon DEF SocketInit
<1>25. LabInit => page = "lab"
  BY Zenon DEF LabInit
<1>26. ResearchInit => page = "research"
  BY Zenon DEF ResearchInit
<1>27. CopilotInit => page = "copilot"
  BY Zenon DEF CopilotInit
<1>28. CnToolsInit => page = "cn"
  BY Zenon DEF CnToolsInit
<1>29. JournalInit => page = "journal"
  BY Zenon DEF JournalInit
<1>30. MacroInit => page = "macro"
  BY Zenon DEF MacroInit
<1>31. GPUInit => page = "gpu"
  BY Zenon DEF GPUInit
<1>32. ReportsInit => page = "reports"
  BY Zenon DEF ReportsInit
<1>33. FlashInit => page = "flash"
  BY Zenon DEF FlashInit
<1>34. ArenaInit => page = "arena"
  BY Zenon DEF ArenaInit
<1>35. SelectorInit => page = "selector"
  BY Zenon DEF SelectorInit
<1>36. PanelsInit => page = "panels"
  BY Zenon DEF PanelsInit
<1>37. PulseInit => page = "pulse"
  BY Zenon DEF PulseInit
<1>38. HeatInit => page = "heat"
  BY Zenon DEF HeatInit
<1> QED
  BY <1>1, <1>2, <1>3, <1>4, <1>5, <1>6, <1>7, <1>8, <1>9, <1>10, <1>11, <1>12, <1>13, <1>14, <1>15, <1>16, <1>17, <1>18, <1>19, <1>20, <1>21, <1>22, <1>23, <1>24, <1>25, <1>26, <1>27, <1>28, <1>29, <1>30, <1>31, <1>32, <1>33, <1>34, <1>35, <1>36, <1>37, <1>38, Zenon

LEMMA MountedSteps ==
    ASSUME Next
    PROVE  /\ page' = page
           /\ page = "admin" => AdminNext
           /\ page = "orders" => DeskOrdersNext
           /\ page = "cache" => CacheNext
           /\ page = "alerts" => AlertsNext
           /\ page = "qdii" => QDIINext
           /\ page = "socket" => SocketNext
           /\ page = "copilot" => CopilotNext
           /\ page = "pulse" => PulseNext
           /\ page = "journal" => JournalNext
           /\ page = "macro" => MacroNext
           /\ page = "settings" => SettingsNext
           /\ page = "form" => FormNext
           /\ page = "grid" => GridNext
           /\ page = "chart" => ChartNext
           /\ page = "gpu" => GPUNext
           /\ page = "shell" => ShellNext
           /\ page = "fresh" => FreshNext
           /\ page = "research" => ResearchNext
           /\ page = "radar" => RadarNext
           /\ page = "watchlist" => WatchlistNext
           /\ page = "stock" => StockNext
           /\ page = "home" => HomeNext
           /\ page = "panels" => PanelsNext
           /\ page = "flash" => FlashNext
           /\ page = "cn" => CnToolsNext
           /\ page = "etf" => ETFNext
           /\ page = "portfolio" => PortfolioNext
           /\ page = "notes" => NotesNext
           /\ page = "heat" => HeatNext
           /\ page = "lab" => LabNext
           /\ page = "profile" => ProfileNext
           /\ page = "whales" => WhalesNext
           /\ page = "arena" => ArenaNext
           /\ page = "selector" => SelectorNext
           /\ page = "paper" => PaperPanelNext
           /\ page = "desk" => DeskStateNext
           /\ page = "scan" => ScanNext
           /\ page = "reports" => ReportsNext
  BY PageSteps DEF Next

LEMMA MountedStarts ==
    ASSUME Init
    PROVE  /\ page = "admin" => AdminInit
           /\ page = "orders" => DeskOrdersInit
           /\ page = "cache" => CacheInit
           /\ page = "alerts" => AlertsInit
           /\ page = "qdii" => QDIIInit
           /\ page = "socket" => SocketInit
           /\ page = "copilot" => CopilotInit
           /\ page = "pulse" => PulseInit
           /\ page = "journal" => JournalInit
           /\ page = "macro" => MacroInit
           /\ page = "settings" => SettingsInit
           /\ page = "form" => FormInit
           /\ page = "grid" => GridInit
           /\ page = "chart" => ChartInit
           /\ page = "gpu" => GPUInit
           /\ page = "shell" => ShellInit
           /\ page = "fresh" => FreshInit
           /\ page = "research" => ResearchInit
           /\ page = "radar" => RadarInit
           /\ page = "watchlist" => WatchlistInit
           /\ page = "stock" => StockInit
           /\ page = "home" => HomeInit
           /\ page = "panels" => PanelsInit
           /\ page = "flash" => FlashInit
           /\ page = "cn" => CnToolsInit
           /\ page = "etf" => ETFInit
           /\ page = "portfolio" => PortfolioInit
           /\ page = "notes" => NotesInit
           /\ page = "heat" => HeatInit
           /\ page = "lab" => LabInit
           /\ page = "profile" => ProfileInit
           /\ page = "whales" => WhalesInit
           /\ page = "arena" => ArenaInit
           /\ page = "selector" => SelectorInit
           /\ page = "paper" => PaperPanelInit
           /\ page = "desk" => DeskStateInit
           /\ page = "scan" => ScanInit
           /\ page = "reports" => ReportsInit
  BY PageStarts DEF Init

-----------------------------------------------------------------------------
(* All the pages *)

\* The invariants of the pages, each for the time its page is mounted.
PagesOK ==
    /\ page = "admin" => AdminOK(ui) /\ AdminWaits(ui)
    /\ page = "orders" => DeskOK(ui)
    /\ page = "cache" => CacheOK(ui)
    /\ page = "alerts" => AlertsOK(ui)
    /\ page = "qdii" => QDIIOK(ui)
    /\ page = "socket" => SocketOK(ui)
    /\ page = "copilot" => CopilotOK(ui)
    /\ page = "pulse" => PulseOK(ui)
    /\ page = "journal" => JournalOK(ui)
    /\ page = "macro" => MacroOK(ui)
    /\ page = "settings" => SettingsOK(ui)
    /\ page = "form" => FormOK(ui)
    /\ page = "grid" => GridOK(ui)
    /\ page = "chart" => ChartOK(ui)
    /\ page = "gpu" => GPUOK(ui)
    /\ page = "shell" => ShellOK(ui)
    /\ page = "fresh" => FreshOK(ui)
    /\ page = "research" => ResearchOK(ui)
    /\ page = "radar" => RadarOK(ui)
    /\ page = "watchlist" => WatchlistOK(ui)
    /\ page = "stock" => StockOK(ui)
    /\ page = "home" => HomeOK(ui)
    /\ page = "panels" => PanelsOK(ui)
    /\ page = "flash" => FlashOK(ui) /\ CalendarWaits(ui)
    /\ page = "cn" => CnOK(ui)
    /\ page = "etf" => ETFOK(ui) /\ HoldingsOwn(ui) /\ ETFWaits(ui)
    /\ page = "portfolio" => LedgerOK(ui) /\ LedgerWaits(ui)
    /\ page = "notes" => NotesOK(ui)
    /\ page = "heat" => HeatOK(ui)
    /\ page = "lab" => LabOK(ui) /\ LabWaits(ui) /\ LabAdvised(ui)
    /\ page = "profile" => ProfileOK(ui)
    /\ page = "whales" => WhalesOK(ui)
    /\ page = "arena" => ArenaOK(ui)
    /\ page = "selector" => SelectorOK(ui)
    /\ page = "paper" => PaperPanelOK(ui) /\ BatchWaits(ui)
    /\ page = "desk" => DeskStateOK(ui) /\ DeskWaits(ui)
    /\ page = "scan" => ScanOK(ui)
    /\ page = "reports" => ReportsOK(ui)

LEMMA PagesStart == Init => PagesOK
<1> SUFFICES ASSUME Init PROVE PagesOK
  OBVIOUS
<1>1. page = "admin" => AdminOK(ui) /\ AdminWaits(ui)
  BY MountedStarts, AdminStarts
<1>2. page = "orders" => DeskOK(ui)
  BY MountedStarts, DeskStarts
<1>3. page = "cache" => CacheOK(ui)
  BY MountedStarts, CacheStarts
<1>4. page = "alerts" => AlertsOK(ui)
  BY MountedStarts, AlertsStart
<1>5. page = "qdii" => QDIIOK(ui)
  BY MountedStarts, QDIIStarts
<1>6. page = "socket" => SocketOK(ui)
  BY MountedStarts, SocketStarts
<1>7. page = "copilot" => CopilotOK(ui)
  BY MountedStarts, CopilotStarts
<1>8. page = "pulse" => PulseOK(ui)
  BY MountedStarts, PulseStarts
<1>9. page = "journal" => JournalOK(ui)
  BY MountedStarts, JournalStarts
<1>10. page = "macro" => MacroOK(ui)
  BY MountedStarts, MacroStarts
<1>11. page = "settings" => SettingsOK(ui)
  BY MountedStarts, SettingsStarts
<1>12. page = "form" => FormOK(ui)
  BY MountedStarts, FormStarts
<1>13. page = "grid" => GridOK(ui)
  BY MountedStarts, GridStarts
<1>14. page = "chart" => ChartOK(ui)
  BY MountedStarts, ChartStarts
<1>15. page = "gpu" => GPUOK(ui)
  BY MountedStarts, GPUStarts
<1>16. page = "shell" => ShellOK(ui)
  BY MountedStarts, ShellStarts
<1>17. page = "fresh" => FreshOK(ui)
  BY MountedStarts, FreshStarts
<1>18. page = "research" => ResearchOK(ui)
  BY MountedStarts, ResearchStarts
<1>19. page = "radar" => RadarOK(ui)
  BY MountedStarts, RadarStarts
<1>20. page = "watchlist" => WatchlistOK(ui)
  BY MountedStarts, WatchlistStarts
<1>21. page = "stock" => StockOK(ui)
  BY MountedStarts, StockStarts
<1>22. page = "home" => HomeOK(ui)
  BY MountedStarts, HomeStarts
<1>23. page = "panels" => PanelsOK(ui)
  BY MountedStarts, PanelsStart
<1>24. page = "flash" => FlashOK(ui) /\ CalendarWaits(ui)
  BY MountedStarts, FlashStarts
<1>25. page = "cn" => CnOK(ui)
  BY MountedStarts, CnToolsStart
<1>26. page = "etf" => ETFOK(ui) /\ HoldingsOwn(ui) /\ ETFWaits(ui)
  BY MountedStarts, ETFStarts, HoldingsStart, ETFWaitsStart
<1>27. page = "portfolio" => LedgerOK(ui) /\ LedgerWaits(ui)
  BY MountedStarts, PortfolioStarts, LedgerWaitsStart
<1>28. page = "notes" => NotesOK(ui)
  BY MountedStarts, NotesStarts
<1>29. page = "heat" => HeatOK(ui)
  BY MountedStarts, HeatStarts
<1>30. page = "lab" => LabOK(ui) /\ LabWaits(ui) /\ LabAdvised(ui)
  BY MountedStarts, LabStarts, LabWaitsStart, LabAdvisedStart
<1>31. page = "profile" => ProfileOK(ui)
  BY MountedStarts, ProfileStarts
<1>32. page = "whales" => WhalesOK(ui)
  BY MountedStarts, WhalesStarts
<1>33. page = "arena" => ArenaOK(ui)
  BY MountedStarts, ArenaStarts
<1>34. page = "selector" => SelectorOK(ui)
  BY MountedStarts, SelectorStarts
<1>35. page = "paper" => PaperPanelOK(ui) /\ BatchWaits(ui)
  BY MountedStarts, PaperPanelStarts, BatchWaitsStart
<1>36. page = "desk" => DeskStateOK(ui) /\ DeskWaits(ui)
  BY MountedStarts, DeskStateStarts, DeskWaitsStart
<1>37. page = "scan" => ScanOK(ui)
  BY MountedStarts, ScanStarts
<1>38. page = "reports" => ReportsOK(ui)
  BY MountedStarts, ReportsStarts
<1> QED
  BY <1>1, <1>2, <1>3, <1>4, <1>5, <1>6, <1>7, <1>8, <1>9, <1>10, <1>11, <1>12, <1>13, <1>14, <1>15, <1>16,
     <1>17, <1>18, <1>19, <1>20, <1>21, <1>22, <1>23, <1>24, <1>25, <1>26, <1>27, <1>28, <1>29, <1>30, <1>31,
     <1>32, <1>33, <1>34, <1>35, <1>36, <1>37, <1>38 DEF PagesOK

LEMMA PagesStep == PagesOK /\ [Next]_screen => PagesOK'
<1> SUFFICES ASSUME PagesOK, Next PROVE PagesOK'
  BY DEF PagesOK, screen
<1>1. page' = "admin" => AdminOK(ui') /\ AdminWaits(ui')
  BY MountedSteps, AdminSteps DEF PagesOK
<1>2. page' = "orders" => DeskOK(ui')
  BY MountedSteps, DeskSteps DEF PagesOK
<1>3. page' = "cache" => CacheOK(ui')
  BY MountedSteps, CacheSteps DEF PagesOK
<1>4. page' = "alerts" => AlertsOK(ui')
  BY MountedSteps, AlertsStep DEF PagesOK
<1>5. page' = "qdii" => QDIIOK(ui')
  BY MountedSteps, QDIISteps DEF PagesOK
<1>6. page' = "socket" => SocketOK(ui')
  BY MountedSteps, SocketSteps DEF PagesOK
<1>7. page' = "copilot" => CopilotOK(ui')
  BY MountedSteps, CopilotSteps DEF PagesOK
<1>8. page' = "pulse" => PulseOK(ui')
  BY MountedSteps, PulseSteps DEF PagesOK
<1>9. page' = "journal" => JournalOK(ui')
  BY MountedSteps, JournalSteps DEF PagesOK
<1>10. page' = "macro" => MacroOK(ui')
  BY MountedSteps, MacroSteps DEF PagesOK
<1>11. page' = "settings" => SettingsOK(ui')
  BY MountedSteps, SettingsSteps DEF PagesOK
<1>12. page' = "form" => FormOK(ui')
  BY MountedSteps, FormSteps DEF PagesOK
<1>13. page' = "grid" => GridOK(ui')
  BY MountedSteps, GridSteps DEF PagesOK
<1>14. page' = "chart" => ChartOK(ui')
  BY MountedSteps, ChartSteps DEF PagesOK
<1>15. page' = "gpu" => GPUOK(ui')
  BY MountedSteps, GPUSteps DEF PagesOK
<1>16. page' = "shell" => ShellOK(ui')
  BY MountedSteps, ShellSteps DEF PagesOK
<1>17. page' = "fresh" => FreshOK(ui')
  BY MountedSteps, FreshSteps DEF PagesOK
<1>18. page' = "research" => ResearchOK(ui')
  BY MountedSteps, ResearchSteps DEF PagesOK
<1>19. page' = "radar" => RadarOK(ui')
  BY MountedSteps, RadarSteps DEF PagesOK
<1>20. page' = "watchlist" => WatchlistOK(ui')
  BY MountedSteps, WatchlistSteps DEF PagesOK
<1>21. page' = "stock" => StockOK(ui')
  BY MountedSteps, StockSteps DEF PagesOK
<1>22. page' = "home" => HomeOK(ui')
  BY MountedSteps, HomeSteps DEF PagesOK
<1>23. page' = "panels" => PanelsOK(ui')
  BY MountedSteps, PanelsStep DEF PagesOK
<1>24. page' = "flash" => FlashOK(ui') /\ CalendarWaits(ui')
  BY MountedSteps, FlashSteps, CalendarSteps DEF PagesOK
<1>25. page' = "cn" => CnOK(ui')
  BY MountedSteps, CnToolsStep DEF PagesOK
<1>26. page' = "etf" => ETFOK(ui') /\ HoldingsOwn(ui') /\ ETFWaits(ui')
  BY MountedSteps, ETFSteps, HoldingsSteps, ETFWaitsSteps DEF PagesOK
<1>27. page' = "portfolio" => LedgerOK(ui') /\ LedgerWaits(ui')
  BY MountedSteps, PortfolioSteps, LedgerWaitsSteps DEF PagesOK
<1>28. page' = "notes" => NotesOK(ui')
  BY MountedSteps, NotesSteps DEF PagesOK
<1>29. page' = "heat" => HeatOK(ui')
  BY MountedSteps, HeatSteps DEF PagesOK
<1>30. page' = "lab" => LabOK(ui') /\ LabWaits(ui') /\ LabAdvised(ui')
  BY MountedSteps, LabSteps, LabWaitsSteps, LabAdvisedSteps DEF PagesOK
<1>31. page' = "profile" => ProfileOK(ui')
  BY MountedSteps, ProfileSteps DEF PagesOK
<1>32. page' = "whales" => WhalesOK(ui')
  BY MountedSteps, WhalesSteps DEF PagesOK
<1>33. page' = "arena" => ArenaOK(ui')
  BY MountedSteps, ArenaSteps DEF PagesOK
<1>34. page' = "selector" => SelectorOK(ui')
  BY MountedSteps, SelectorSteps DEF PagesOK
<1>35. page' = "paper" => PaperPanelOK(ui') /\ BatchWaits(ui')
  BY MountedSteps, PaperPanelSteps, BatchWaitsSteps DEF PagesOK
<1>36. page' = "desk" => DeskStateOK(ui') /\ DeskWaits(ui')
  BY MountedSteps, DeskStateSteps, DeskWaitsSteps DEF PagesOK
<1>37. page' = "scan" => ScanOK(ui')
  BY MountedSteps, ScanSteps DEF PagesOK
<1>38. page' = "reports" => ReportsOK(ui')
  BY MountedSteps, ReportsSteps DEF PagesOK
<1> QED
  BY <1>1, <1>2, <1>3, <1>4, <1>5, <1>6, <1>7, <1>8, <1>9, <1>10, <1>11, <1>12, <1>13, <1>14, <1>15, <1>16,
     <1>17, <1>18, <1>19, <1>20, <1>21, <1>22, <1>23, <1>24, <1>25, <1>26, <1>27, <1>28, <1>29, <1>30, <1>31,
     <1>32, <1>33, <1>34, <1>35, <1>36, <1>37, <1>38 DEF PagesOK

\* Of the page that is mounted, its invariant holds in every state.
THEOREM PagesInvariant == Spec => []PagesOK
  BY PagesStart, PagesStep, PTL DEF Spec

\* A call of the administrator that its session kept out was sent again with a
\* session of its own time, or the session is really gone.
THEOREM AdminRenewal == Spec => []AdminCallsRenewed
<1>1. PagesOK => AdminCallsRenewed
  BY AdminTold DEF PagesOK, AdminCallsRenewed
<1> QED
  BY <1>1, PagesInvariant, PTL

\* The desk takes no order and no fill for refused that the server may hold.
THEOREM DeskKnowledge == Spec => []DeskAnswersKnown
<1>1. PagesOK => DeskAnswersKnown
  BY DeskKnows DEF PagesOK, DeskAnswersKnown, DeskOrdersKnown, DeskFillsKnown
<1> QED
  BY <1>1, PagesInvariant, PTL

\* No cache hands out what was loaded before it was emptied, for another region
\* or in vain.
THEOREM CacheFreshness == Spec => []CacheIsFresh
<1>1. PagesOK => CacheIsFresh
  BY CacheTold, PulseTold DEF PagesOK, CacheIsFresh, CacheFresh, CacheHoldsNoFailure, PulseCacheFresh
<1> QED
  BY <1>1, PagesInvariant, PTL

\* Alerts, sockets and answers of the copilot come once.
THEOREM ToldNoMoreThanOnce == Spec => []ToldOnce
<1>1. PagesOK => ToldOnce
  BY AlertsTold, SocketTold, CopilotTold DEF PagesOK, ToldOnce, AlertsToldOnce, SocketSingle, CopilotAnswersPaired
<1> QED
  BY <1>1, PagesInvariant, PTL

\* A failure stays told until a call of its own kind succeeds.
THEOREM FailuresStayTold == Spec => []FailuresTold
<1>1. PagesOK => FailuresTold
  BY SettingsTold, FreshTold, ResearchTold, JournalTold
  DEF PagesOK, FailuresTold, SettingsKeptTold, FreshRefreshTold, DashboardFailureTold, JournalFailureTold
<1> QED
  BY <1>1, PagesInvariant, PTL

\* What is not live is shown with the notice that says so, or not at all.
THEOREM StaleStaysMarked == Spec => []StaleIsMarked
<1>1. PagesOK => HomeScoresValidated /\ HomeHistoryMarked
  BY HomeTold DEF PagesOK, HomeScoresValidated, HomeHistoryMarked
<1>2. PagesOK => ETFListMarked
  BY ETFTold DEF PagesOK, ETFListMarked
<1>3. PagesOK => PortfolioQuotesTold /\ PortfolioValuesMarked
  BY PortfolioTold DEF PagesOK, PortfolioQuotesTold, PortfolioValuesMarked
<1>4. PagesOK => QDIIItemsLive
  BY QDIITold DEF PagesOK, QDIIItemsLive
<1>5. PagesOK => StockPriceCurrent
  BY StockTold DEF PagesOK, StockPriceCurrent
<1>6. PagesOK => RadarFailureClears
  BY RadarTold DEF PagesOK, RadarFailureClears
<1>7. PagesOK => WatchlistPricesUsable
  BY WatchlistTold DEF PagesOK, WatchlistPricesUsable
<1>8. PagesOK => CopilotFactsTrusted
  BY CopilotTold DEF PagesOK, CopilotFactsTrusted
<1>9. PagesOK => CnNothingKept
  BY CnToolsTold DEF PagesOK, CnNothingKept
<1>10. PagesOK => FlashLiveTold
  BY FlashTold DEF PagesOK, FlashLiveTold
<1>11. PagesOK => PanelsTrusted
  BY PanelsTold DEF PagesOK, PanelsTrusted
<1>12. PagesOK => StaleIsMarked
  BY <1>1, <1>2, <1>3, <1>4, <1>5, <1>6, <1>7, <1>8, <1>9, <1>10, <1>11 DEF StaleIsMarked
<1> QED
  BY <1>12, PagesInvariant, PTL

\* Choices that depend on one another agree after every order of clicks and
\* answers.
THEOREM ChoicesStayFit == Spec => []ChoicesFit
<1>1. PagesOK => ChoicesFit
  BY FormTold, ShellTold, GridTold, ChartTold, MacroTold, GPUTold
  DEF PagesOK, ChoicesFit, FormFits, ShellMenuOwn, GridIntervalsAgree, ChartToldOwn, MacroDayExists, GPUHistoryQuoted
<1> QED
  BY <1>1, PagesInvariant, PTL

\* What is settled on a page is of what is selected now, however late an answer
\* of an earlier selection comes, and nothing of a private portfolio is shown
\* after its session ended.
THEOREM SelectionShown == Spec => []PagesShowOwn
<1>1. PagesOK => HomeShowsSelection
  BY HomeTold DEF PagesOK, HomeShowsSelection
<1>2. PagesOK => HeatDrawsCurrent
  BY HeatTold DEF PagesOK, HeatDrawsCurrent
<1>3. PagesOK => NotesShowsSelection /\ NotesRouteOpen
  BY NotesTold DEF PagesOK, NotesShowsSelection, NotesRouteOpen
<1>4. PagesOK => ETFShowsSelection
  BY ETFTold DEF PagesOK, ETFShowsSelection
<1>5. PagesOK => PaperPortfolioPrivate
  BY PaperPanelTold DEF PagesOK, PaperPortfolioPrivate
<1>6. PagesOK => StockShowsOwn
  BY StockTold DEF PagesOK, StockShowsOwn
<1>7. PagesOK => DeskQuoteOwn /\ DeskAuditOfOrders
  BY DeskStateTold DEF PagesOK, DeskQuoteOwn, DeskAuditOfOrders
<1>8. PagesOK => ScanStoreCurrent
  BY ScanTold DEF PagesOK, ScanStoreCurrent
<1>9. PagesOK => ShellResultsOwn
  BY ShellTold DEF PagesOK, ShellResultsOwn
<1>10. PagesOK => WhalesListsOwn
  BY WhalesTold DEF PagesOK, WhalesListsOwn
<1>11. PagesOK => ProfileShowsOwn
  BY ProfileTold DEF PagesOK, ProfileShowsOwn
<1>12. PagesOK => HistoryRunShown
  BY ResearchTold DEF PagesOK, HistoryRunShown
<1>13. PagesOK => LabAdvicePublished
  BY LabTold DEF PagesOK, LabAdvicePublished
<1>14. PagesOK => ReportRouteShown
  BY ReportsTold DEF PagesOK, ReportRouteShown
<1>15. PagesOK => ArenaShowsOwn
  BY ArenaTold DEF PagesOK, ArenaShowsOwn
<1>16. PagesOK => PagesShowOwn
  BY <1>1, <1>2, <1>3, <1>4, <1>5, <1>6, <1>7, <1>8, <1>9, <1>10, <1>11, <1>12, <1>13, <1>14, <1>15 DEF PagesShowOwn
<1> QED
  BY <1>16, PagesInvariant, PTL

\* Every mark of loading or of being busy has the call under way that lifts it,
\* or a timer that makes one: no page waits in vain.
THEOREM NobodyWaitsInVain == Spec => []PagesNeverStuck
<1>1. PagesOK => ETFNeverStuck
  BY ETFWaitsTold DEF PagesOK, ETFNeverStuck
<1>2. PagesOK => PortfolioNeverStuck
  BY LedgerWaitsTold DEF PagesOK, PortfolioNeverStuck
<1>3. PagesOK => BatchNeverStuck
  BY BatchWaitsTold DEF PagesOK, BatchNeverStuck
<1>4. PagesOK => AlertsNeverStuck
  BY AlertsTold DEF PagesOK, AlertsNeverStuck
<1>5. PagesOK => QDIINeverStuck
  BY QDIITold DEF PagesOK, QDIINeverStuck
<1>6. PagesOK => StockNeverStuck
  BY StockTold DEF PagesOK, StockNeverStuck
<1>7. PagesOK => DeskNeverStuck
  BY DeskWaitsTold DEF PagesOK, DeskNeverStuck
<1>8. PagesOK => ScanNeverStuck
  BY ScanTold DEF PagesOK, ScanNeverStuck
<1>9. PagesOK => AdminNeverStuck
  BY AdminTold DEF PagesOK, AdminNeverStuck
<1>10. PagesOK => FormNeverStuck
  BY FormTold DEF PagesOK, FormNeverStuck
<1>11. PagesOK => SettingsNeverStuck
  BY SettingsTold DEF PagesOK, SettingsNeverStuck
<1>12. PagesOK => ShellNeverStuck
  BY ShellTold DEF PagesOK, ShellNeverStuck
<1>13. PagesOK => FreshNeverStuck
  BY FreshTold DEF PagesOK, FreshNeverStuck
<1>14. PagesOK => RadarNeverStuck
  BY RadarTold DEF PagesOK, RadarNeverStuck
<1>15. PagesOK => ChartNeverStuck
  BY ChartTold DEF PagesOK, ChartNeverStuck
<1>16. PagesOK => WatchlistNeverStuck
  BY WatchlistTold DEF PagesOK, WatchlistNeverStuck
<1>17. PagesOK => WhalesNeverStuck
  BY WhalesTold DEF PagesOK, WhalesNeverStuck
<1>18. PagesOK => ProfileNeverStuck
  BY ProfileTold DEF PagesOK, ProfileNeverStuck
<1>19. PagesOK => LabNeverStuck
  BY LabWaitsTold DEF PagesOK, LabNeverStuck
<1>20. PagesOK => ResearchNeverStuck
  BY ResearchTold DEF PagesOK, ResearchNeverStuck
<1>21. PagesOK => CopilotNeverStuck
  BY CopilotTold DEF PagesOK, CopilotNeverStuck
<1>22. PagesOK => CnToolsNeverStuck
  BY CnToolsTold DEF PagesOK, CnToolsNeverStuck
<1>23. PagesOK => JournalNeverStuck
  BY JournalTold DEF PagesOK, JournalNeverStuck
<1>24. PagesOK => MacroNeverStuck
  BY MacroTold DEF PagesOK, MacroNeverStuck
<1>25. PagesOK => GPUPageNeverStuck
  BY GPUTold DEF PagesOK, GPUPageNeverStuck
<1>26. PagesOK => ReportsNeverStuck
  BY ReportsTold, FlashTold DEF PagesOK, ReportsNeverStuck
<1>27. PagesOK => ArenaNeverStuck
  BY ArenaTold DEF PagesOK, ArenaNeverStuck
<1>28. PagesOK => PanelsNeverStuck
  BY PanelsTold DEF PagesOK, PanelsNeverStuck
<1>29. PagesOK => PagesNeverStuck
  BY <1>1, <1>2, <1>3, <1>4, <1>5, <1>6, <1>7, <1>8, <1>9, <1>10, <1>11, <1>12, <1>13, <1>14,
     <1>15, <1>16, <1>17, <1>18, <1>19, <1>20, <1>21, <1>22, <1>23, <1>24, <1>25, <1>26, <1>27, <1>28
  DEF PagesNeverStuck
<1> QED
  BY <1>29, PagesInvariant, PTL

\* The list of articles read never loses one, although each answer writes it
\* from the list that was current when its request was sent.
THEOREM ArticlesStayRead == Spec => NotesReadKept
<1>1. PagesOK /\ [Next]_screen => [page = "notes" => ui.read \subseteq ui'.read]_screen
  <2> SUFFICES ASSUME PagesOK, Next, page = "notes" PROVE ui.read \subseteq ui'.read
    BY DEF screen
  <2> QED
    BY MountedSteps, NotesSteps DEF PagesOK
<1> QED
  BY <1>1, PagesInvariant, PTL DEF Spec, NotesReadKept
=============================================================================
