------------------------------- MODULE CopilotPage -------------------------------
(***************************************************************************)
(* pages/TradingCopilot.tsx with utils/copilotMarketData.ts: a chat that   *)
(* is kept in the storage of the browser, with market facts where the      *)
(* answer has them, beside the quotes of popular symbols.                  *)
(***************************************************************************)
EXTENDS Screen

CONSTANTS Questions,     \* what the user may ask
          MaxMessages    \* bound on the messages of a chat

\* A message: who wrote it, the question it asks or answers, the market facts
\* under it, and whether the chat was cleared between its question and it.
Message(role, of, facts, stray) == [role |-> role, of |-> of, facts |-> facts, stray |-> stray]
Welcome == Message("assistant", None, None, FALSE)

\* normalizeCopilotMarketData: facts without a source, a time or a mark that they
\* are not stale are left out.
Normalized(facts) == IF facts = "trusted" THEN facts ELSE None

\* The chat of the storage, empty if there is none that can be read, each of its
\* messages normalized.
Restored(saved) ==
    IF saved = <<>> THEN <<Welcome>>
    ELSE [k \in DOMAIN saved |-> [saved[k] EXCEPT !.facts = Normalized(@)]]

\* The messages change, and the effect saves them.
WithMessages(s, messages) == [s EXCEPT !.messages = messages, !.saved = messages]

\* The page is opened: it asks for the quotes, once.
OpenedCopilot(s) ==
    [WithMessages(s, Restored(s.saved)) EXCEPT
        !.loading = FALSE, !.quotes = "loading", !.bound = FALSE, !.copied = FALSE, !.flying = Ask(<<>>, "quotes", None)]

\* What was saved may be of an older page: with facts that nobody checked.
CopilotInit ==
    /\ page = "copilot"
    /\ \E saved \in {<<>>} \cup {<<Message("assistant", None, facts, FALSE)>> : facts \in {"trusted", "unchecked"}} :
          ui = OpenedCopilot([messages |-> <<>>, saved |-> saved, loading |-> FALSE, quotes |-> "loading",
                              bound |-> FALSE, copied |-> FALSE, flying |-> <<>>])

\* handleSend, from the input or by a preset question.
HandleSend(question) ==
    /\ ~ui.loading /\ Room(ui.flying) /\ Len(ui.messages) < MaxMessages
    /\ ui' = [WithMessages(ui, Append(ui.messages, Message("user", question, None, FALSE))) EXCEPT
                  !.loading = TRUE,
                  !.flying = Append(@, [what |-> "chat", of |-> question, current |-> TRUE])]

\* The answer with its facts, or the notice of a failure, joins whatever the chat
\* has become; current says that the chat was not cleared since.
ChatAnswer(i, facts) ==
    /\ ui.flying[i].what = "chat"
    /\ LET answer == Message("assistant", ui.flying[i].of, Normalized(facts), ~ui.flying[i].current)
       IN  Taken(i, [WithMessages(ui, Append(ui.messages, answer)) EXCEPT !.loading = FALSE])

\* handleClearChat keeps the question that waits.
HandleClearChat ==
    ui' = [WithMessages(ui, <<Welcome>>) EXCEPT !.flying = Superseded(@, "chat")]

\* Quotes that are not live are not shown, and the reason is.
QuotesOfPopular(i, quotes) ==
    /\ ui.flying[i].what = "quotes"
    /\ Taken(i, [ui EXCEPT !.quotes = quotes])

\* Left and opened again: what waits is heard by nobody.
RevisitCopilot == ui' = OpenedCopilot(ui)

BindSymbol == ui' = [ui EXCEPT !.bound = ~@]

\* copyContent marks the answer for two seconds.
CopyContent == ui' = [ui EXCEPT !.copied = ~@]

CopilotNext ==
    /\ page = "copilot" /\ UNCHANGED page
    /\ \/ \E question \in Questions : HandleSend(question)
       \/ \E i \in DOMAIN ui.flying :
             \/ \E facts \in {None, "trusted", "unchecked"} : ChatAnswer(i, facts)
             \/ \E quotes \in {"live", "hidden"} : QuotesOfPopular(i, quotes)
       \/ HandleClearChat \/ RevisitCopilot \/ BindSymbol \/ CopyContent

\* A message on the page: its facts and, of an answer, the button to copy it.
BubbleShows(message) ==
    (IF message.facts # None THEN {"facts"} ELSE {}) \cup (IF message.role = "user" THEN {} ELSE {"copy"})

\* The symbols show their change and the one that is bound can be freed.
SymbolsShow(s) == [quotes |-> s.quotes = "live", notice |-> s.quotes = "hidden", free |-> s.bound]

\* Questions can be asked, by the input or a preset, while none waits.
AskEnabled(s) == ~s.loading
-----------------------------------------------------------------------------
\* A market fact under an answer passed the gate of source and time, also one
\* that comes back from the storage, whoever saved it.
CopilotFactsTrusted ==
    page = "copilot" => \A k \in DOMAIN ui.messages : ui.messages[k].facts \in {None, "trusted"}

\* An answer stands under its own question unless the chat was cleared in between,
\* however often the page is left with a question that nobody will answer.
CopilotAnswersPaired ==
    page = "copilot" =>
        \A k \in DOMAIN ui.messages :
            LET m == ui.messages[k]
            IN  m.role = "assistant" /\ m.of # None /\ ~m.stray =>
                    k > 1 /\ ui.messages[k - 1].role = "user" /\ ui.messages[k - 1].of = m.of

\* While the chat shows that an answer is being made, one is.
CopilotNeverStuck ==
    page = "copilot" =>
        /\ ui.loading => Flying(ui.flying, "chat") # {}
        /\ ui.quotes = "loading" => Waiting(ui.flying, "quotes")
=============================================================================
