---------------------------- MODULE SettingsPage -----------------------------
(***************************************************************************)
(* The server-settings page of one browser tab (src/www/js/app.js), its     *)
(* requests (src/www/js/api.js), the routes that serve them                 *)
(* (src/lib/Server.js) and the settings they read and change.               *)
(*                                                                         *)
(* A request of the tab occupies a slot from the click to its answer; the   *)
(* server handles requests, and the tab receives answers, in any order.     *)
(* A handler that changes the settings or the key pair checks, awaits       *)
(* `down', changes them and awaits `up' (or `wg syncconf' alone), with other *)
(* handlers in between.  Other administrators, in tabs of their own or with *)
(* scripts, change the same settings.                                       *)
(*                                                                         *)
(* A handler of the tab is followed by Vue's flush, which runs the deep     *)
(* watcher of serverDraft and renders, before any other event.              *)
(***************************************************************************)
EXTENDS ServerSettings

CONSTANTS
    Null,         \* the null of the page's data
    MaxInFlight,  \* bound: requests of the tab that are not answered
    MaxHandlers,  \* bound: changes of the settings the server has under way
    MaxClicks,    \* bound: clicks that send a request
    MaxEvents,    \* bound: changes by others, requests whose connection fails
    Inputs,       \* what the user types: field -> values
    Patches,      \* what the other administrators post
    Stored,       \* config.server as wg0.json may hold it at the boot
    Seeds,        \* the defaults of the environment
    Keys          \* key pairs, named by their public halves

Slots   == 1 .. MaxInFlight
Workers == 1 .. MaxHandlers

ASSUME PageAssumption ==
    /\ MaxInFlight \in Nat \ {0} /\ {MaxHandlers, MaxClicks, MaxEvents} \subseteq Nat
    /\ Keys \subseteq Texts
    /\ DOMAIN Inputs \subseteq Fields \ {"publicKey"}
    /\ \A f \in DOMAIN Inputs : Inputs[f] \subseteq Values(f)
    /\ \A p \in Patches : IsPatch(p) /\ DOMAIN p \subseteq Fields \ {"publicKey"}
    /\ \A s \in Stored :
          /\ "publicKey" \in DOMAIN s /\ s["publicKey"] \in Keys
          /\ IsSettings(SeedServerDefaults(s, Seeds))

\* Nothing checks what wg0.json and the environment bring: that it is valid is
\* an assumption.
ASSUME BootAssumption ==
    \A s \in Stored : LET c == SeedServerDefaults(s, Seeds)
                      IN ValidateServerSettings(c, c) = {}

VARIABLES
    server,    \* config.server, but the private key
    key,       \* the key pair the private key belongs to
    handlers,  \* those that change the settings or the key pair, at their awaits
    page,      \* the data of the page
    net,       \* the requests of the tab
    client,    \* history: what a client imported and worked with, until an answer
               \* told to import again (Null)
    overlapped,     \* history: two changes of the settings were under way at once
    clicks, events  \* how often, see the bounds

config  == <<server, key>>
changes == <<handlers, overlapped>>
vars    == <<config, changes, page, net, client, clicks, events>>

NoRequest == [kind |-> "none", body |-> Null, answer |-> Null]

Ok(settings, restarted, reimport) ==
    [is |-> "ok", settings |-> settings, restarted |-> restarted,
     mustReimport |-> reimport]
Refused(errors) == [is |-> "refused", errors |-> errors]
Failed          == [is |-> "failed"]

\* Whom a handler answers: a slot of the tab, a script or another tab, or nobody.
Script == 0
Lost   == -1

\* patch: what it assigns; prev and key: what it captured.
Handler(slot, at, kind, patch, prev, k) ==
    [slot |-> slot, at |-> at, kind |-> kind, patch |-> patch, prev |-> prev, key |-> k]
NoHandler == Handler(Script, "none", "none", Null, Null, Null)

Idle == \A w \in Workers : handlers[w] = NoHandler

KeyPatch(k) == [f \in {"publicKey"} |-> k]

\* What the handshake of a client depends on.
TunnelFields == {"host", "port", "jc", "jmin", "jmax", "s1", "s2", "s3", "s4",
                 "h1", "h2", "h3", "h4"}
Tunnel(s, k) == <<k, [f \in Fields \cap TunnelFields |-> s[f]]>>

Init ==
    /\ \E s \in Stored : /\ server = SeedServerDefaults(s, Seeds)
                         /\ key = s["publicKey"]
    /\ page = [view |-> "clients", settings |-> Null, draft |-> Null,
               errors |-> {}, loading |-> FALSE, saving |-> FALSE,
               result |-> Null, confirm |-> FALSE]
    /\ net = [s \in Slots |-> NoRequest]
    /\ handlers = [w \in Workers |-> NoHandler]
    /\ client = Null /\ overlapped = FALSE /\ clicks = 0 /\ events = 0

-----------------------------------------------------------------------------
(* The tab: clicks and edits *)

\* The slot has no meaning: the first free one.
Send(kind, body) ==
    /\ \E s \in Slots :
        /\ net[s].kind = "none"
        /\ \A r \in Slots : r < s => net[r].kind # "none"
        /\ net' = [net EXCEPT ![s] = [kind |-> kind, body |-> body, answer |-> Null]]
    /\ clicks < MaxClicks /\ clicks' = clicks + 1
    /\ UNCHANGED <<config, changes, client, events>>

\* The watcher of serverDraft, after whatever changed the draft.
Watched(p) == [p EXCEPT !.errors = {}, !.result = Null]

FormShown == page.view = "server-settings" /\ ~ page.loading /\ page.draft # Null

ServerDirty == page.settings # Null /\ page.draft # Null /\ page.settings # page.draft

ServerCanSave ==
    ServerDirty /\ ValidateServerDraft(page.draft) = {} /\ ~ page.saving

\* The toolbar button; nothing disables it, not even on the page itself.
OpenServerSettings ==
    /\ Send("get", Null)
    /\ page' = [page EXCEPT !.view = "server-settings", !.errors = {},
                            !.result = Null, !.loading = TRUE]

CloseServerSettings ==
    /\ page.view = "server-settings"
    /\ page' = [page EXCEPT !.view = "clients"]
    /\ UNCHANGED <<config, changes, net, client, clicks, events>>

Edit(f, v) ==
    /\ FormShown
    /\ page.draft[f] # v
    /\ page' = Watched([page EXCEPT !.draft[f] = v])
    /\ UNCHANGED <<config, changes, net, client, clicks, events>>

\* Mutant: a second click while the first is being answered saves again.
SaveServerSettings_Twice ==
    /\ page.view = "server-settings"
    /\ ServerDirty /\ ValidateServerDraft(page.draft) = {}
    /\ Send("save", page.draft)
    /\ page' = [page EXCEPT !.saving = TRUE, !.errors = {}]

\* The whole draft is sent, the public key it shows included.
SaveServerSettings ==
    /\ page.view = "server-settings"
    /\ ServerCanSave
    /\ Send("save", page.draft)
    /\ page' = [page EXCEPT !.saving = TRUE, !.errors = {}]

AskRegenerate ==
    /\ FormShown /\ ~ page.confirm
    /\ page' = [page EXCEPT !.confirm = TRUE]
    /\ UNCHANGED <<config, changes, net, client, clicks, events>>

CancelRegenerate ==
    /\ page.confirm
    /\ page' = [page EXCEPT !.confirm = FALSE]
    /\ UNCHANGED <<config, changes, net, client, clicks, events>>

\* The handler has no guard: its button is disabled while serverSaving.
ConfirmRegenerateKeypair ==
    /\ page.confirm /\ ~ page.saving
    /\ Send("regen", Null)
    /\ page' = [page EXCEPT !.saving = TRUE]

-----------------------------------------------------------------------------
(* The server *)

\* A request that no handler has begun with.
Waiting(s, kind) ==
    /\ net[s].kind = kind /\ net[s].answer = Null
    /\ \A w \in Workers : handlers[w].slot # s

Answer(s, a) == net' = [net EXCEPT ![s].answer = a]

GetServerSettings(s) ==
    /\ Waiting(s, "get")
    /\ Answer(s, Ok(server, FALSE, FALSE))
    /\ UNCHANGED <<config, changes, page, client, clicks, events>>

RefuseSettings(s) ==
    /\ Waiting(s, "save")
    /\ LET errors == ValidateServerSettings(net[s].body, server) IN
           errors # {} /\ Answer(s, Refused(errors))
    /\ UNCHANGED <<config, changes, page, client, clicks, events>>

\* A handler captures what its rollback will assign, and awaits.
Begin(s, at, kind, patch) ==
    /\ \E w \in Workers :
          /\ handlers[w] = NoHandler
          /\ \A v \in Workers : v < w => handlers[v] # NoHandler
          /\ handlers' = [handlers EXCEPT
                ![w] = Handler(s, at, kind, patch, server, key)]
    /\ overlapped' = (overlapped \/ ~ Idle)
    /\ UNCHANGED <<key, page, net, client, clicks>>

\* updateServerSettings checks and classifies the patch.  A change that needs a
\* restart awaits `down'; another is assigned at once and synced.
BeginSave(s, patch) ==
    /\ ValidateServerSettings(patch, server) = {}
    /\ IF NeedsRestart(server, patch)
       THEN Begin(s, "down", "save", patch) /\ UNCHANGED server
       ELSE Begin(s, "sync", "save", patch) /\ server' = Assign(server, patch)

BeginRegenerate(s) == Begin(s, "down", "regen", Null) /\ UNCHANGED server

UpdateServerSettings(s) ==
    Waiting(s, "save") /\ BeginSave(s, net[s].body) /\ UNCHANGED events

RegenerateKeypair(s) ==
    Waiting(s, "regen") /\ BeginRegenerate(s) /\ UNCHANGED events

\* What happens beside the tab, at most MaxEvents times.
Event == events < MaxEvents /\ events' = events + 1

\* Other administrators, in tabs of their own or with scripts.
OthersSave(patch) == BeginSave(Script, patch) /\ Event
OthersRegenerate  == BeginRegenerate(Script) /\ Event

\* `down' returned: the patch is assigned, whatever was assigned since it was
\* checked; or both halves of a new key pair.
DownReturns(w) ==
    LET h == handlers[w]
    IN /\ h.at = "down"
       /\ \E patch \in IF h.kind = "save" THEN {h.patch} ELSE {KeyPatch(k) : k \in Keys \ {key}} :
             /\ server' = Assign(server, patch)
             /\ key' = IF h.kind = "save" THEN key ELSE patch["publicKey"]
             /\ handlers' = [handlers EXCEPT
                   ![w] = Handler(h.slot, "up", h.kind, patch, h.prev, h.key)]
       /\ UNCHANGED <<overlapped, page, net, client, clicks, events>>

\* Mutant: whether to re-import is asked after the patch was assigned.
Reimport_Late(h) ==
    h.kind = "save" => MustReimport(Assign(h.prev, h.patch), h.patch)

\* classify, of the settings the handler began with.
Reimport(h) == h.kind = "save" => MustReimport(h.prev, h.patch)

\* The handler answers; an answer that asks to import again, or an error, tells,
\* if somebody gets it.
End(w, a, tells) ==
    LET h == handlers[w]
    IN /\ handlers' = [handlers EXCEPT ![w] = NoHandler]
       /\ IF h.slot \in Slots THEN Answer(h.slot, a) ELSE UNCHANGED net
       /\ client' = IF tells /\ h.slot # Lost THEN Null ELSE client
       /\ UNCHANGED <<overlapped, page, clicks, events>>

\* The settings in the answer are those of the end.
Succeeds(w) ==
    LET h == handlers[w]
    IN /\ h.at \in {"up", "sync"}
       /\ End(w, IF h.kind = "save" THEN Ok(server, h.at = "up", Reimport(h))
                                     ELSE Ok(h.patch, TRUE, TRUE),
              Reimport(h))
       /\ UNCHANGED config

\* `up' refused: everything captured is assigned back; regenerateKeypair
\* captured the key pair alone.
RollBack(h) ==
    /\ server' = IF h.kind = "save" THEN Assign(server, h.prev)
                 ELSE Assign(server, KeyPatch(h.prev["publicKey"]))
    /\ key' = h.key

\* A command or a write fails (500).  Only a refused `up' is rolled back; if
\* `wg genkey' fails there is nothing to roll back.
Fails(w) ==
    LET h == handlers[w]
    IN /\ \/ h.at = "up" /\ RollBack(h)
          \/ (h.at = "down" => h.kind = "regen") /\ UNCHANGED config
       /\ h.at # "none"
       /\ End(w, Failed, TRUE)

\* The request or its answer is lost: the fetch is rejected, and a handler goes
\* on without it.
ConnectionFails(s) ==
    /\ net[s].kind # "none" /\ net[s].answer # Failed
    /\ Answer(s, Failed)
    /\ handlers' = [w \in Workers |->
                       IF handlers[w].slot = s THEN [handlers[w] EXCEPT !.slot = Lost]
                       ELSE handlers[w]]
    /\ client' = Null
    /\ Event /\ UNCHANGED <<config, overlapped, page, clicks>>

\* A client imports its configuration, and works.  One that imports while a
\* change is under way may not work for long, and with a public key that is not
\* that of the private key (KeyPairMatches) it never does.
ImportClient ==
    /\ client = Null /\ Idle
    /\ server["publicKey"] = key
    /\ client' = Tunnel(server, key)
    /\ UNCHANGED <<config, changes, page, net, clicks, events>>

-----------------------------------------------------------------------------
(* The tab: answers *)

Receive(s, kind) ==
    /\ net[s].kind = kind /\ net[s].answer # Null
    /\ net' = [net EXCEPT ![s] = NoRequest]
    /\ UNCHANGED <<config, changes, client, clicks, events>>

SettingsArrive(s) ==
    /\ Receive(s, "get")
    /\ LET a == net[s].answer
           p == [page EXCEPT !.loading = FALSE]
       IN page' = IF a.is = "ok"
                  THEN Watched([p EXCEPT !.settings = a.settings, !.draft = a.settings])
                  ELSE p

\* Mutant: the page takes the whole answer for the settings.
SaveAnswered_Envelope(s) ==
    /\ Receive(s, "save")
    /\ LET a == net[s].answer
           p == [page EXCEPT !.saving = FALSE]
       IN page' =
            CASE a.is = "ok"      -> Watched([p EXCEPT !.settings = a, !.draft = a])
              [] a.is = "refused" -> [p EXCEPT !.errors = a.errors]
              [] a.is = "failed"  -> p

SaveAnswered(s) ==
    /\ Receive(s, "save")
    /\ LET a == net[s].answer
           p == [page EXCEPT !.saving = FALSE]
       IN page' =
            CASE a.is = "ok" ->
                    Watched([p EXCEPT !.settings = a.settings, !.draft = a.settings,
                                      !.result = [restarted |-> a.restarted,
                                                  mustReimport |-> a.mustReimport]])
              [] a.is = "refused" -> [p EXCEPT !.errors = a.errors]
              [] a.is = "failed"  -> p

\* serverSettings and serverDraft, if they are there, get the public key; the
\* watcher runs only if the draft had another one.
WithKey(s, k) == IF s = Null THEN Null ELSE [s EXCEPT !["publicKey"] = k]

KeypairAnswered(s) ==
    /\ Receive(s, "regen")
    /\ LET a == net[s].answer
           p == [page EXCEPT !.saving = FALSE, !.confirm = FALSE]
       IN page' =
            IF a.is = "ok"
            THEN LET k == a.settings["publicKey"]
                     q == [p EXCEPT !.settings = WithKey(@, k), !.draft = WithKey(@, k),
                                    !.result = [restarted |-> TRUE, mustReimport |-> TRUE]]
                 IN IF q.draft = page.draft THEN q ELSE Watched(q)
            ELSE p

-----------------------------------------------------------------------------
User ==
    \/ OpenServerSettings \/ CloseServerSettings \/ SaveServerSettings
    \/ AskRegenerate \/ CancelRegenerate \/ ConfirmRegenerateKeypair
    \/ \E f \in DOMAIN Inputs : \E v \in Inputs[f] : Edit(f, v)

Handle(s) ==
    \/ GetServerSettings(s) \/ RefuseSettings(s) \/ UpdateServerSettings(s)
    \/ RegenerateKeypair(s) \/ ConnectionFails(s)

Proceed(w) == DownReturns(w) \/ Succeeds(w) \/ Fails(w)

Arrive(s) == SettingsArrive(s) \/ SaveAnswered(s) \/ KeypairAnswered(s)

Others ==
    \/ \E patch \in Patches : OthersSave(patch)
    \/ OthersRegenerate \/ ImportClient

Next ==
    \/ User \/ Others
    \/ \E s \in Slots : Handle(s) \/ Arrive(s)
    \/ \E w \in Workers : Proceed(w)

Spec == Init /\ [][Next]_vars

-----------------------------------------------------------------------------
(* Properties *)

IsAnswer(a, kind) ==
    \/ a = Failed
    \/ kind = "save" /\ a \in [is: {"refused"}, errors: SUBSET Fields]
    \/ /\ a = Ok(a.settings, a.restarted, a.mustReimport)
       /\ a.restarted \in BOOLEAN /\ a.mustReimport \in BOOLEAN
       /\ IF kind = "regen" THEN a.settings \in [{"publicKey"} -> Keys]
                            ELSE IsSettings(a.settings)

IsRequest(r) ==
    \/ r = NoRequest
    \/ /\ r = [kind |-> r.kind, body |-> r.body, answer |-> r.answer]
       /\ r.kind \in {"get", "save", "regen"}
       /\ IF r.kind = "save" THEN IsSettings(r.body) ELSE r.body = Null
       /\ r.answer = Null \/ IsAnswer(r.answer, r.kind)

PageOK(p) ==
    /\ p = [view |-> p.view, settings |-> p.settings, draft |-> p.draft,
            errors |-> p.errors, loading |-> p.loading, saving |-> p.saving,
            result |-> p.result, confirm |-> p.confirm]
    /\ p.view \in {"clients", "server-settings"}
    /\ p.settings = Null \/ IsSettings(p.settings)
    /\ p.draft = Null \/ IsSettings(p.draft)
    /\ p.errors \subseteq Fields
    /\ p.loading \in BOOLEAN /\ p.saving \in BOOLEAN /\ p.confirm \in BOOLEAN
    /\ p.result = Null \/ p.result \in [restarted: BOOLEAN, mustReimport: BOOLEAN]

IsHandler(h) ==
    \/ h = NoHandler
    \/ /\ h = Handler(h.slot, h.at, h.kind, h.patch, h.prev, h.key)
       /\ h.slot \in Slots \cup {Script, Lost}
       /\ h.at \in {"down", "up"} \/ (h.at = "sync" /\ h.kind = "save")
       /\ IF h.kind = "save" THEN IsPatch(h.patch)
          ELSE /\ h.kind = "regen"
               /\ h.at = "up" => h.patch \in [{"publicKey"} -> Keys]
       /\ IsSettings(h.prev) /\ h.key \in Keys

ServerOK   == IsSettings(server) /\ key \in Keys
NetOK      == DOMAIN net = Slots /\ \A s \in Slots : IsRequest(net[s])
HandlersOK == DOMAIN handlers = Workers /\ \A w \in Workers : IsHandler(handlers[w])

\* The request a handler answers waits for it, and for no other.
AwaitedOK ==
    \A w \in Workers : handlers[w].slot \in Slots =>
        /\ net[handlers[w].slot].kind = handlers[w].kind
        /\ net[handlers[w].slot].answer = Null
        /\ \A v \in Workers : handlers[v].slot = handlers[w].slot => v = w

PageTypeOK ==
    /\ ServerOK /\ PageOK(page) /\ NetOK /\ HandlersOK /\ AwaitedOK
    /\ overlapped \in BOOLEAN
    /\ clicks \in 0 .. MaxClicks /\ events \in 0 .. MaxEvents

\* Whatever is saved, in whole or in part, by whomever, and whatever is rolled
\* back: as long as no two changes were under way at once, the settings in force
\* are settings the validator accepts (validateServerSettings checks a patch
\* against the values it does not bring).
SettingsValid == ~ overlapped => ValidateServerSettings(server, server) = {}

\* The same without that condition (MCPartialPatches).
AlwaysValid == ValidateServerSettings(server, server) = {}

\* When no change is under way, a client that worked works still, or an answer
\* has asked to import again, or failed (classify and what the handlers answer).
ClientsAreTold == Idle /\ client # Null => client = Tunnel(server, key)

\* serverSaving means a save or a regeneration in flight, and there is never a
\* second; serverLoading means a GET in flight.
InFlight(kinds) == {s \in Slots : net[s].kind \in kinds}
OneWriteAtATime ==
    /\ page.saving <=> InFlight({"save", "regen"}) # {}
    /\ \A s, r \in InFlight({"save", "regen"}) : s = r
    /\ page.loading => InFlight({"get"}) # {}

\* On numbers and ranges the instant check of the UI says what the server will
\* say ("Mirrors src/lib/serverSettings.js").
NumbersMirrored ==
    page.draft # Null =>
        ValidateServerDraft(page.draft) \ TextFields =
        ValidateServerSettings(page.draft, server) \ TextFields

\* The public key the clients are given is that of the private key ("resending
\* unchanged fields is harmless").
KeyPairMatches == server["publicKey"] = key

\* The answer of a save that asks to re-import shows the hint ("drives the
\* post-save hint").
HintShown ==
    [][\A s \in Slots :
          net[s].kind = "save" /\ net'[s].kind = "none" /\ net[s].answer.is = "ok"
              => page'.result # Null]_vars
=============================================================================
