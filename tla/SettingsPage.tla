------------------------------- MODULE SettingsPage -------------------------------
(***************************************************************************)
(* pages/Settings.tsx in two screens: the administration, the readiness    *)
(* profiles with the status of the system and the refresh of the quotes;   *)
(* and the form with the configuration of the LLM providers, as the server *)
(* has it, as it is edited, saved and tested.                              *)
(***************************************************************************)
EXTENDS Screen

CONSTANT Profiles     \* the readiness profiles, the status of the system among them

\* fetchSystemStatus: the status and the profiles are asked for at once.
FetchStatus(s) == [s EXCEPT !.loading = TRUE, !.error = FALSE, !.flying = AskOnce(@, "status")]

\* The effect on the session and the input.
AdminEffect(s) ==
    [s EXCEPT !.admin = IF s.hook = "authorized" THEN "valid"
                        ELSE IF s.hook = "unavailable" /\ s.input = None THEN "invalid" ELSE @]

SettingsInit ==
    /\ page = "settings"
    /\ \E token \in {None, "token"}, hook \in {"checking", "authorized", "unavailable"} :
          /\ token # None => hook = "authorized"
          /\ ui = AdminEffect(FetchStatus(
                    [token |-> token, input |-> token, hook |-> hook,
                     admin |-> IF token = None THEN "invalid" ELSE "unknown",
                     known |-> {}, kept |-> {}, loading |-> FALSE, error |-> FALSE,
                     refreshing |-> FALSE, flying |-> <<>>]))

\* What arrives is shown; what fails keeps what was shown, and is told.
WithStatus(s, arrived) ==
    [s EXCEPT !.known = @ \cup arrived, !.kept = Profiles \ arrived,
              !.error = @ \/ arrived # Profiles, !.loading = FALSE]

StatusRoundAnswer(i, arrived) == ui.flying[i].what = "status" /\ Taken(i, WithStatus(ui, arrived))

\* The buttons of the status, those that are disabled while it loads and the
\* one that is not: the round on its way is not given up.
ReloadStatus == Room(ui.flying) /\ ui' = FetchStatus(ui)

\* The session changes by a call of another part of the page.
HookChanges(hook) == hook # ui.hook /\ ui' = AdminEffect([ui EXCEPT !.hook = hook])

\* enableLocalSession, by its button or for a refresh of the quotes.
Enable(s, for) == [s EXCEPT !.admin = "checking", !.flying = Append(@, [what |-> "enable", of |-> for, current |-> TRUE])]

EnableSession == ui.admin # "checking" /\ Room(ui.flying) /\ ui' = Enable(ui, "session")

\* refreshMarketData once it may, and its request.
RefreshQuotesStart(s) == [s EXCEPT !.refreshing = TRUE, !.flying = AskOnce(@, "market")]

\* `retry` answers whether there is a session, and the hook tells the others.
EnableAnswer(i, enabled) ==
    /\ ui.flying[i].what = "enable"
    /\ LET told == [AdminEffect([ui EXCEPT !.flying = Answered(@, i),
                                             !.hook = IF enabled THEN "authorized" ELSE "unavailable"])
                       EXCEPT !.admin = IF enabled THEN "valid" ELSE "invalid"]
       IN  ui' = IF enabled /\ ui.flying[i].of = "refresh" THEN RefreshQuotesStart(told) ELSE told

RefreshMarket ==
    /\ ~ui.refreshing /\ Room(ui.flying)
    /\ ui' = IF ui.admin = "valid" THEN RefreshQuotesStart(ui) ELSE Enable(ui, "refresh")

\* A refresh that went well, in part or in full, waits for the status.
MarketAnswer(i, ok) ==
    /\ ui.flying[i].what = "market"
    /\ LET rest == [ui EXCEPT !.flying = Answered(@, i)]
       IN  ui' = IF ok THEN [rest EXCEPT !.loading = TRUE, !.error = FALSE, !.flying = AskOnce(@, "after")]
                 ELSE [rest EXCEPT !.refreshing = FALSE]

\* The status of a refresh has arrived.
AfterRefresh(i, arrived) ==
    /\ ui.flying[i].what = "after"
    /\ Taken(i, [WithStatus(ui, arrived) EXCEPT !.refreshing = FALSE])

\* The input of the token and verifyAdminToken, which stores what was typed.
TypeToken(token) ==
    /\ token # ui.input
    /\ ui' = AdminEffect([ui EXCEPT !.input = token, !.admin = "unknown"])

VerifyToken ==
    /\ ui.admin # "checking" /\ Room(ui.flying)
    /\ ui' = [ui EXCEPT !.token = ui.input,
                        !.admin = IF ui.input = None THEN "invalid" ELSE "checking",
                        !.flying = IF ui.input = None THEN @ ELSE AskOnce(@, "verify")]

VerifyAnswer(i, ok) ==
    /\ ui.flying[i].what = "verify"
    /\ ui' = [AdminEffect([ui EXCEPT !.flying = Answered(@, i), !.hook = IF ok THEN "authorized" ELSE @])
                EXCEPT !.admin = IF ok THEN "valid" ELSE "invalid"]

\* The button that ends the session: the token goes at once, the session when
\* the server has answered.
EndAdmin ==
    /\ Room(ui.flying)
    /\ ui' = [AdminEffect([ui EXCEPT !.token = None, !.input = None, !.flying = AskOnce(@, "end")])
                EXCEPT !.admin = "invalid"]

EndAdminAnswer(i) ==
    ui.flying[i].what = "end" /\ Taken(i, AdminEffect([ui EXCEPT !.hook = "unavailable"]))

SettingsNext ==
    /\ page = "settings" /\ UNCHANGED page
    /\ \/ \E i \in DOMAIN ui.flying :
             \/ \E arrived \in SUBSET Profiles : StatusRoundAnswer(i, arrived) \/ AfterRefresh(i, arrived)
             \/ \E ok \in BOOLEAN : EnableAnswer(i, ok) \/ MarketAnswer(i, ok) \/ VerifyAnswer(i, ok)
             \/ EndAdminAnswer(i)
       \/ \E hook \in {"authorized", "unavailable"} : HookChanges(hook)
       \/ \E token \in {None, "token"} : TypeToken(token)
       \/ ReloadStatus \/ EnableSession \/ RefreshMarket \/ VerifyToken \/ EndAdmin

\* The readiness: a row for each profile that is known, with an alert above.
ReadinessPanel(s) ==
    s.known \cup {w \in {"alert", "no profiles"} :
        \/ w = "alert" /\ s.error
        \/ w = "no profiles" /\ ~s.loading /\ s.known = {}}

\* A row tells its status and its remedies, as of the round that brought it.
ReadinessRow(s, profile) == profile \in s.known /\ profile \notin s.kept

\* The buttons of the administration.
AdminButtons(s) ==
    {w \in {"enable", "enabling", "enabled", "verify"} :
        \/ w \in {"enable", "verify"} /\ s.admin # "checking"
        \/ w = "enabling" /\ s.admin = "checking"
        \/ w = "enabled" /\ s.admin = "valid"}

\* The table of the endpoints, and the list that stands for it on a phone.
StatusTable(s) ==
    {w \in {"refreshing", "checking", "nothing", "rows"} :
        \/ w = "refreshing" /\ s.refreshing
        \/ w = "checking" /\ s.known = {} /\ s.loading
        \/ w = "nothing" /\ s.known = {} /\ ~s.loading
        \/ w = "rows" /\ s.known # {}}

\* ------------------------------------------------------------

CONSTANT Providers     \* of google, deepseek, openai, dual, openai_compatible

\* A model is named by its family; "typed" is one that was typed by hand.
Families == {"gemini", "deepseek", "gpt"}

\* providerDefaults, the keys of a provider being its backend.
Defaults(provider) ==
    [deep  |-> CASE provider \in {"google", "dual"} -> "gemini" [] provider = "deepseek" -> "deepseek"
                 [] provider = "openai" -> "gpt" [] OTHER -> None,
     quick |-> CASE provider = "google" -> "gemini" [] provider \in {"deepseek", "dual"} -> "deepseek"
                 [] provider = "openai" -> "gpt" [] OTHER -> None,
     url   |-> CASE provider \in {"deepseek", "dual"} -> "deepseek" [] provider = "openai" -> "openai" [] OTHER -> None]

\* isProviderCompatibleModel
Fits(provider, model) ==
    /\ model # None
    /\ provider = "dual" => model \in {"deepseek", "gemini"}
    /\ provider = "google" => model = "gemini"
    /\ provider = "deepseek" => model = "deepseek"
    /\ provider = "openai" => model = "gpt"

Fitting(provider, model, default) == IF Fits(provider, model) THEN model ELSE default

\* What the server may hold, which earlier versions of the program wrote too.
Configs == [provider : Providers, deep : Families, quick : Families, url : {None, "deepseek"}]
NoConfig == [provider |-> None, deep |-> None, quick |-> None, url |-> None]

\* The effect on config: the form shows it.  kept says that the address is the
\* one of the configuration, which only google does not keep.
FormOf(config) ==
    [provider |-> config.provider,
     deep |-> Fitting(config.provider, config.deep, Defaults(config.provider).deep),
     quick |-> Fitting(config.provider, config.quick, Defaults(config.provider).quick),
     url |-> IF config.provider = "google" THEN None
             ELSE IF config.url # None THEN config.url ELSE Defaults(config.provider).url,
     kept |-> config.provider # "google" /\ config.url # None]

FetchConfig(s) == [s EXCEPT !.flying = AskOnce(@, "config")]

FormInit ==
    /\ page = "form"
    /\ ui = FetchConfig([form |-> [provider |-> "google", deep |-> "gemini", quick |-> "gemini", url |-> None, kept |-> FALSE],
                         testing |-> FALSE, result |-> None, flying |-> <<>>])

\* fetchConfig: without an answer there is no config and the form stays as it is.
ConfigAnswer(i, config) ==
    /\ ui.flying[i].what = "config"
    /\ Taken(i, IF config = NoConfig THEN ui ELSE [ui EXCEPT !.form = FormOf(config)])

\* Faulty: only the deep model follows the provider.
ProviderChosenDeep(form, provider) ==
    [form EXCEPT !.provider = provider, !.url = Defaults(provider).url, !.kept = FALSE,
                 !.deep = Fitting(provider, form.deep, Defaults(provider).deep)]

\* handleProviderChange
ProviderChosen(form, provider) ==
    [form EXCEPT !.provider = provider, !.url = Defaults(provider).url, !.kept = FALSE,
                 !.deep = Fitting(provider, form.deep, Defaults(provider).deep),
                 !.quick = Fitting(provider, form.quick, Defaults(provider).quick)]

ChooseProvider(provider) ==
    /\ provider # ui.form.provider
    /\ ui' = [ui EXCEPT !.form = ProviderChosen(@, provider), !.result = None]

\* The fields of the models and of the address, the last of which some
\* providers do not have.
UrlShown(form) == form.provider \in {"deepseek", "openai_compatible"}

TypeModel(field, value) == ui' = [ui EXCEPT !.form[field] = value]

TypeUrl == UrlShown(ui.form) /\ ui' = [ui EXCEPT !.form.url = "typed", !.form.kept = FALSE]

\* handleTestConnection and handleSave send the form; a save, once it is
\* answered, asks for the configuration.
TestConnection ==
    /\ ~ui.testing /\ Room(ui.flying)
    /\ ui' = [ui EXCEPT !.testing = TRUE, !.result = None, !.flying = AskOnce(@, "test")]

TestAnswer(i, ok) ==
    /\ ui.flying[i].what = "test"
    /\ Taken(i, [ui EXCEPT !.testing = FALSE, !.result = IF ok THEN "connected" ELSE "test failed"])

Save ==
    /\ Room(ui.flying)
    /\ ui' = [ui EXCEPT !.flying = AskOnce(@, "save")]

SaveAnswer(i, outcome) ==
    /\ ui.flying[i].what = "save"
    /\ LET rest == [ui EXCEPT !.flying = Answered(@, i)]
       IN  ui' = IF outcome = "failed" THEN [rest EXCEPT !.result = "save failed"]
                 ELSE [rest EXCEPT !.flying = Append(@, [what |-> "reload", of |-> outcome, current |-> TRUE])]

\* The configuration after a save, whose message waits for it.
ReloadAnswer(i, config) ==
    /\ ui.flying[i].what = "reload"
    /\ LET told == [ui EXCEPT !.result = ui.flying[i].of]
       IN  Taken(i, IF config = NoConfig THEN told ELSE [told EXCEPT !.form = FormOf(config)])

ReloadForm == Room(ui.flying) /\ ui' = FetchConfig(ui)

FormNext ==
    /\ page = "form" /\ UNCHANGED page
    /\ \/ \E i \in DOMAIN ui.flying :
             \/ \E config \in Configs \cup {NoConfig} : ConfigAnswer(i, config) \/ ReloadAnswer(i, config)
             \/ \E ok \in BOOLEAN : TestAnswer(i, ok)
             \/ \E outcome \in {"saved", "saved without llm", "failed"} : SaveAnswer(i, outcome)
       \/ \E provider \in Providers : ChooseProvider(provider)
       \/ \E field \in {"deep", "quick"}, value \in {"typed", None} : TypeModel(field, value)
       \/ TypeUrl \/ TestConnection \/ Save \/ ReloadForm

\* The fields the form shows, and below them the message and the buttons.
FormFields(s) ==
    {w \in {"models", "url", "key", "keys of the server"} :
        \/ w = "models"
        \/ w = "url" /\ UrlShown(s.form)
        \/ w = "key" /\ s.form.provider # "dual"
        \/ w = "keys of the server" /\ s.form.provider = "dual"}

FormButtons(s) ==
    {w \in {"message", "save", "test", "testing"} :
        \/ w = "message" /\ s.result # None
        \/ w = "save"
        \/ w = "test" /\ ~s.testing
        \/ w = "testing" /\ s.testing}
-----------------------------------------------------------------------------
\* A profile that is not the last round's, or is missing, is told: while nothing
\* is on its way, all rows are of the last round or there is an alert.
SettingsKeptTold ==
    page = "settings" /\ ui.flying = <<>> /\ "alert" \notin ReadinessPanel(ui) =>
        \A profile \in Profiles : ReadinessRow(ui, profile)

\* What is shown as under way is under way, so that no button stays disabled.
SettingsNeverStuck ==
    page = "settings" =>
        /\ "enabling" \in AdminButtons(ui) => \E i \in DOMAIN ui.flying : ui.flying[i].what \in {"enable", "verify"}
        /\ "refreshing" \in StatusTable(ui) => \E i \in DOMAIN ui.flying : ui.flying[i].what \in {"market", "after"}
        /\ "checking" \in StatusTable(ui) => \E i \in DOMAIN ui.flying : ui.flying[i].what \in {"status", "after"}

\* Neither an answer of the server nor any order of choices leaves a model of
\* another provider in the form, unless it was typed; nor, where the field of the
\* address is not shown, an address that was typed or is another provider's,
\* unless the configuration of the server has it: what that has for openai or
\* dual is kept, seen by nobody, until another provider is chosen.
FormFits ==
    page = "form" =>
        /\ \A field \in {"deep", "quick"} :
              ui.form[field] \notin {"typed", None} => Fits(ui.form.provider, ui.form[field])
        /\ "url" \notin FormFields(ui) /\ ~ui.form.kept => ui.form.url = Defaults(ui.form.provider).url

\* The button that says a test runs has one to wait for.
FormNeverStuck == page = "form" /\ "testing" \in FormButtons(ui) => Flying(ui.flying, "test") # {}
=============================================================================
