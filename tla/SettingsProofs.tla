--------------------------- MODULE SettingsProofs ----------------------------
(***************************************************************************)
(* For any fields, texts, verdicts of the validators, inputs and patches:   *)
(* SettingsPage keeps its types, the settings in force stay valid as long   *)
(* as no two changes overlap, the two validators agree on numbers and       *)
(* ranges, one write is in flight at a time, and a client is told when it   *)
(* is cut off, however many changes overlap.  For every header space with   *)
(* room for four ranges, the ranges a new server draws are disjoint.        *)
(***************************************************************************)
EXTENDS SettingsPage, TLAPS

-----------------------------------------------------------------------------
(* Settings *)

LEMMA SettingsArePatch ==
    ASSUME NEW s, IsSettings(s)
    PROVE  IsPatch(s)
BY DEF IsSettings

LEMMA AssignOK ==
    ASSUME NEW s, IsSettings(s), NEW p, IsPatch(p)
    PROVE  IsSettings(Assign(s, p))
<1>. DEFINE n == Assign(s, p)
<1>1. /\ DOMAIN n = DOMAIN s /\ n = [f \in DOMAIN n |-> n[f]]
      /\ \A f \in DOMAIN s : n[f] = IF f \in DOMAIN p THEN p[f] ELSE s[f]
    BY DEF Assign
<1>. HIDE DEF n
<1>2. \A f \in DOMAIN n : n[f] \in Values(f)
    BY <1>1 DEF IsSettings, IsPatch
<1>3. IsSettings(n)
    BY <1>1, <1>2 DEF IsSettings, IsPatch
<1>. QED
    BY <1>3 DEF n

LEMMA KeyIsText ==
    Values("publicKey") = Texts
BY DEF Values, NumberFields, RangeFields

LEMMA FieldOK ==
    ASSUME NEW s, IsSettings(s), NEW f, NEW v \in Values(f)
    PROVE  IsSettings([s EXCEPT ![f] = v])
BY DEF IsSettings, IsPatch

LEMMA KeyOK ==
    ASSUME NEW s, IsSettings(s), NEW k \in Keys
    PROVE  IsSettings([s EXCEPT !["publicKey"] = k])
BY FieldOK, KeyIsText, PageAssumption

LEMMA ErrorsAreFields ==
    ASSUME NEW p, IsSettings(p), NEW s, IsSettings(s)
    PROVE  ValidateServerSettings(p, s) \subseteq Fields
<1>1. DOMAIN Assign(s, p) = Fields /\ DOMAIN p = Fields
    BY DEF Assign, IsSettings
<1>. QED
    BY <1>1 DEF ValidateServerSettings, CrossError

-----------------------------------------------------------------------------
(* Types *)

\* Settings and pages as sets, which the provers like better.
SettingsSet == {s \in [Fields -> UNION {Values(f) : f \in Fields}] :
                    \A f \in Fields : s[f] \in Values(f)}

PageSet == [view: {"clients", "server-settings"}, settings: SettingsSet \cup {Null},
            draft: SettingsSet \cup {Null}, errors: SUBSET Fields, loading: BOOLEAN,
            saving: BOOLEAN,
            result: [restarted: BOOLEAN, mustReimport: BOOLEAN] \cup {Null},
            confirm: BOOLEAN]

LEMMA SettingsInSet ==
    ASSUME NEW s
    PROVE  IsSettings(s) <=> s \in SettingsSet
BY DEF IsSettings, IsPatch, SettingsSet

LEMMA PageInSet ==
    ASSUME NEW p
    PROVE  PageOK(p) <=> p \in PageSet
BY SettingsInSet DEF PageOK, PageSet

LEMMA WatchedOK ==
    ASSUME NEW p \in PageSet
    PROVE  Watched(p) \in PageSet
BY DEF PageSet, Watched

LEMMA SendOK ==
    ASSUME NetOK, NEW kind, NEW body, Send(kind, body),
           kind \in {"get", "save", "regen"},
           IF kind = "save" THEN IsSettings(body) ELSE body = Null
    PROVE  NetOK'
<1>. DEFINE r == [kind |-> kind, body |-> body, answer |-> Null]
<1>1. IsRequest(r)
    BY DEF IsRequest
<1>2. PICK s \in Slots : net' = [net EXCEPT ![s] = r]
    BY DEF Send
<1>. HIDE DEF r
<1>. QED
    BY <1>1, <1>2 DEF NetOK

LEMMA AnswerOK ==
    ASSUME NetOK, NEW s \in Slots, net[s].kind # "none", NEW a, IsAnswer(a, net[s].kind),
           Answer(s, a)
    PROVE  NetOK'
<1>1. IsRequest(net[s]) /\ net[s] # NoRequest
    BY DEF NetOK, NoRequest
<1>2. IsRequest([net[s] EXCEPT !.answer = a])
    BY <1>1 DEF IsRequest
<1>3. net' = [net EXCEPT ![s] = [net[s] EXCEPT !.answer = a]]
    BY DEF Answer
<1>. QED
    BY <1>2, <1>3 DEF NetOK

LEMMA OkAnswer ==
    ASSUME NEW s, NEW r \in BOOLEAN, NEW m \in BOOLEAN, NEW kind,
           IF kind = "regen" THEN s \in [{"publicKey"} -> Keys] ELSE IsSettings(s)
    PROVE  IsAnswer(Ok(s, r, m), kind)
BY DEF IsAnswer, Ok

LEMMA SaveAnswer ==
    ASSUME NEW s, IsSettings(s), NEW r \in BOOLEAN, NEW m \in BOOLEAN
    PROVE  IsAnswer(Ok(s, r, m), "save")
BY DEF IsAnswer, Ok

\* What the body and the answer of a request are, by its kind.
LEMMA RequestOK ==
    ASSUME NetOK, NEW s \in Slots, net[s].kind # "none"
    PROVE  LET r == net[s] IN
           /\ r.kind \in {"get", "save", "regen"}
           /\ r.kind = "save" => IsSettings(r.body)
           /\ r.answer = Null \/ IsAnswer(r.answer, r.kind)
<1>1. IsRequest(net[s]) /\ net[s] # NoRequest
    BY DEF NetOK, NoRequest
<1>. QED
    BY <1>1 DEF IsRequest

LEMMA AnswerTypes ==
    ASSUME NEW a, NEW kind, IsAnswer(a, kind)
    PROVE  /\ a.is = "ok" /\ kind # "regen" => IsSettings(a.settings)
           /\ a.is = "ok" => a.restarted \in BOOLEAN /\ a.mustReimport \in BOOLEAN
           /\ a.is = "ok" /\ kind = "regen" => a.settings["publicKey"] \in Keys
           /\ a.is = "refused" => a.errors \subseteq Fields
           /\ a.is \in {"ok", "refused", "failed"}
BY DEF IsAnswer, Failed, Ok

LEMMA KeyPatchOK ==
    ASSUME NEW s, IsSettings(s), NEW k, "publicKey" \in Fields => k \in Texts
    PROVE  IsSettings(Assign(s, KeyPatch(k)))
<1>. DEFINE n == Assign(s, KeyPatch(k))
<1>1. /\ DOMAIN n = DOMAIN s /\ n = [f \in DOMAIN n |-> n[f]]
      /\ \A f \in DOMAIN s : n[f] = IF f = "publicKey" THEN k ELSE s[f]
    BY DEF Assign, KeyPatch
<1>. HIDE DEF n
<1>2. \A f \in DOMAIN n : n[f] \in Values(f)
    BY <1>1, KeyIsText DEF IsSettings, IsPatch
<1>3. IsSettings(n)
    BY <1>1, <1>2 DEF IsSettings, IsPatch
<1>. QED
    BY <1>3 DEF n

LEMMA HandlerOK ==
    ASSUME HandlersOK, NEW w \in Workers, handlers[w].at # "none"
    PROVE  LET h == handlers[w] IN
           /\ handlers[w] # NoHandler
           /\ h.slot \in Slots \cup {Script, Lost} /\ h.kind \in {"save", "regen"}
           /\ h.at \in {"down", "up", "sync"} /\ (h.at = "sync" => h.kind = "save")
           /\ h.kind = "save" => IsPatch(h.patch)
           /\ h.kind = "regen" /\ h.at = "up" => h.patch \in [{"publicKey"} -> Keys]
           /\ IsSettings(h.prev) /\ h.key \in Keys
<1>1. IsHandler(handlers[w]) /\ handlers[w] # NoHandler
    BY DEF HandlersOK, NoHandler, Handler
<1>. QED
    BY <1>1 DEF IsHandler

\* What a step does to the settings, and to the handlers that change them.
LEMMA Steps ==
    ASSUME PageTypeOK, [Next]_vars
    PROVE  \/ UNCHANGED <<config, changes, client>>
           \/ ImportClient
           \/ \E s \in Slots : ConnectionFails(s)
           \/ \E s \in Slots \cup {Script} : \E p : IsPatch(p) /\ BeginSave(s, p)
           \/ \E s \in Slots \cup {Script} : BeginRegenerate(s)
           \/ \E w \in Workers : Proceed(w)
<1>1. ASSUME NEW s \in Slots, UpdateServerSettings(s)
      PROVE  IsPatch(net[s].body) /\ BeginSave(s, net[s].body)
    BY <1>1, RequestOK, SettingsArePatch DEF PageTypeOK, UpdateServerSettings, Waiting
<1>2. ASSUME NEW p \in Patches, OthersSave(p)
      PROVE  IsPatch(p) /\ BeginSave(Script, p)
    BY <1>2, PageAssumption DEF OthersSave
<1>3. ASSUME User \/ \E s \in Slots : Arrive(s) \/ GetServerSettings(s) \/ RefuseSettings(s)
      PROVE  UNCHANGED <<config, changes, client>>
    BY <1>3 DEF User, Arrive, OpenServerSettings, CloseServerSettings, SaveServerSettings,
       AskRegenerate, CancelRegenerate, ConfirmRegenerateKeypair, Edit, Send,
       GetServerSettings, RefuseSettings, SettingsArrive, SaveAnswered, KeypairAnswered,
       Receive
<1>. QED
    BY <1>1, <1>2, <1>3 DEF Next, Others, Handle, RegenerateKeypair, OthersRegenerate, vars

LEMMA ServerInductive ==
    ASSUME PageTypeOK, [Next]_vars
    PROVE  ServerOK'
<1>. USE DEF PageTypeOK
<1>1. ASSUME UNCHANGED config  PROVE ServerOK'
    BY <1>1 DEF config, ServerOK
<1>2. ASSUME NEW s, NEW p, IsPatch(p), BeginSave(s, p)  PROVE ServerOK'
    BY <1>2, AssignOK DEF BeginSave, Begin, ServerOK
<1>3. ASSUME NEW s, BeginRegenerate(s)  PROVE ServerOK'
    BY <1>3 DEF BeginRegenerate, Begin, ServerOK
<1>4. ASSUME NEW w \in Workers, DownReturns(w)  PROVE ServerOK'
    <2>1. handlers[w].at # "none"
        BY <1>4 DEF DownReturns
    <2>2. CASE handlers[w].kind = "save"
        BY <1>4, <2>1, <2>2, HandlerOK, AssignOK DEF DownReturns, ServerOK
    <2>3. CASE handlers[w].kind # "save"
        <3>1. PICK k \in Keys : server' = Assign(server, KeyPatch(k)) /\ key' = KeyPatch(k)["publicKey"]
            BY <1>4, <2>3 DEF DownReturns
        <3>. QED
            BY <3>1, KeyPatchOK, PageAssumption DEF ServerOK, KeyPatch
    <2>. QED
        BY <2>2, <2>3
<1>5. ASSUME NEW w \in Workers, handlers[w].at # "none", RollBack(handlers[w])
      PROVE  ServerOK'
    <2>1. IsSettings(handlers[w].prev) /\ handlers[w].key \in Keys
        BY <1>5, HandlerOK
    <2>2. "publicKey" \in Fields => handlers[w].prev["publicKey"] \in Texts
        BY <2>1, KeyIsText DEF IsSettings, IsPatch
    <2>. QED
        BY <1>5, <2>1, <2>2, AssignOK, KeyPatchOK, SettingsArePatch DEF RollBack, ServerOK
<1>6. ASSUME NEW w \in Workers, Proceed(w)  PROVE ServerOK'
    BY <1>1, <1>4, <1>5, <1>6 DEF Proceed, Succeeds, Fails
<1>. QED
    BY <1>1, <1>2, <1>3, <1>6, Steps DEF ImportClient, ConnectionFails

-----------------------------------------------------------------------------
(* Handlers and the requests they answer *)

LEMMA HandlersInductive ==
    ASSUME PageTypeOK, [Next]_vars
    PROVE  HandlersOK'
<1>. USE DEF PageTypeOK
<1>1. ASSUME UNCHANGED changes  PROVE HandlersOK'
    BY <1>1 DEF changes, HandlersOK
<1>2. ASSUME NEW w \in Workers, NEW h, IsHandler(h), handlers' = [handlers EXCEPT ![w] = h]
      PROVE  HandlersOK'
    BY <1>2 DEF HandlersOK
<1>3. ASSUME NEW s \in Slots \cup {Script}, NEW p, IsPatch(p), BeginSave(s, p)
      PROVE  HandlersOK'
    <2>1. PICK w \in Workers, at \in {"down", "sync"} :
             handlers' = [handlers EXCEPT ![w] = Handler(s, at, "save", p, server, key)]
        BY <1>3 DEF BeginSave, Begin
    <2>2. IsHandler(Handler(s, at, "save", p, server, key))
        BY <1>3 DEF IsHandler, Handler, ServerOK
    <2>. QED
        BY <1>2, <2>1, <2>2
<1>4. ASSUME NEW s \in Slots \cup {Script}, BeginRegenerate(s)  PROVE HandlersOK'
    <2>1. PICK w \in Workers :
             handlers' = [handlers EXCEPT ![w] = Handler(s, "down", "regen", Null, server, key)]
        BY <1>4 DEF BeginRegenerate, Begin
    <2>2. IsHandler(Handler(s, "down", "regen", Null, server, key))
        BY DEF IsHandler, Handler, ServerOK
    <2>. QED
        BY <1>2, <2>1, <2>2
<1>5. ASSUME NEW w \in Workers, DownReturns(w)  PROVE HandlersOK'
    <2>. DEFINE h == handlers[w]
    <2>1. PICK patch \in IF h.kind = "save" THEN {h.patch} ELSE {KeyPatch(k) : k \in Keys \ {key}} :
             handlers' = [handlers EXCEPT
                ![w] = Handler(h.slot, "up", h.kind, patch, h.prev, h.key)]
        BY <1>5 DEF DownReturns
    <2>2. /\ h.slot \in Slots \cup {Script, Lost} /\ h.kind \in {"save", "regen"}
          /\ h.kind = "save" => IsPatch(h.patch)
          /\ IsSettings(h.prev) /\ h.key \in Keys
        BY <1>5, HandlerOK DEF DownReturns
    <2>3. IF h.kind = "save" THEN IsPatch(patch) ELSE patch \in [{"publicKey"} -> Keys]
        BY <2>1, <2>2 DEF KeyPatch
    <2>. HIDE DEF h
    <2>4. IsHandler(Handler(h.slot, "up", h.kind, patch, h.prev, h.key))
        BY <2>2, <2>3 DEF IsHandler, Handler
    <2>. QED
        BY <1>2, <2>1, <2>4 DEF h
<1>6. ASSUME NEW w \in Workers, Succeeds(w) \/ Fails(w)  PROVE HandlersOK'
    BY <1>2, <1>6 DEF Succeeds, Fails, End, IsHandler
<1>7. ASSUME NEW s \in Slots, ConnectionFails(s)  PROVE HandlersOK'
    <2>1. ASSUME NEW w \in Workers, handlers[w].slot = s
          PROVE  IsHandler([handlers[w] EXCEPT !.slot = Lost])
        <3>1. IsHandler(handlers[w]) /\ handlers[w] # NoHandler
            BY <2>1 DEF HandlersOK, NoHandler, Handler, Script, Slots
        <3>. QED
            BY <3>1 DEF IsHandler, Handler
    <2>. QED
        BY <1>7, <2>1 DEF ConnectionFails, HandlersOK
<1>. QED
    BY <1>1, <1>3, <1>4, <1>5, <1>6, <1>7, Steps DEF Proceed, ImportClient

\* A slot that a handler answers to holds a request without an answer.
LEMMA AwaitedKinds ==
    ASSUME PageTypeOK, NEW w \in Workers, NEW s \in Slots, handlers[w].slot = s
    PROVE  /\ handlers[w].at # "none" /\ handlers[w].kind \in {"save", "regen"}
           /\ net[s].kind = handlers[w].kind /\ net[s].answer = Null
<1>1. handlers[w].at # "none"
    BY DEF PageTypeOK, HandlersOK, IsHandler, NoHandler, Handler, Script, Slots
<1>. QED
    BY <1>1, HandlerOK DEF PageTypeOK, AwaitedOK

LEMMA AwaitedKept ==
    ASSUME PageTypeOK, handlers' = handlers, NEW s \in Slots, NEW r,
           \A w \in Workers : handlers[w].slot # s, net' = [net EXCEPT ![s] = r]
    PROVE  AwaitedOK'
<1>1. \A q \in Slots : q # s => net'[q] = net[q]
    BY DEF PageTypeOK, NetOK
<1>. QED
    BY <1>1 DEF PageTypeOK, AwaitedOK

LEMMA AwaitedInductive ==
    ASSUME PageTypeOK, [Next]_vars
    PROVE  AwaitedOK'
<1>0. AwaitedOK /\ DOMAIN handlers = Workers /\ DOMAIN net = Slots
    BY DEF PageTypeOK, HandlersOK, NetOK
<1>1. ASSUME UNCHANGED net, UNCHANGED handlers  PROVE AwaitedOK'
    BY <1>0, <1>1 DEF AwaitedOK
<1>2. ASSUME NEW kind, NEW body, Send(kind, body)  PROVE AwaitedOK'
    <2>1. PICK s \in Slots : /\ net[s].kind = "none"
                             /\ net' = [net EXCEPT ![s] = [kind |-> kind, body |-> body,
                                                           answer |-> Null]]
        BY <1>2 DEF Send
    <2>2. handlers' = handlers
        BY <1>2 DEF Send, changes
    <2>. QED
        BY <2>1, <2>2, AwaitedKinds, AwaitedKept
<1>3. ASSUME NEW s \in Slots, GetServerSettings(s) \/ RefuseSettings(s)
      PROVE  AwaitedOK'
    <2>1. PICK a : net' = [net EXCEPT ![s] = [net[s] EXCEPT !.answer = a]]
        BY <1>3 DEF GetServerSettings, RefuseSettings, Answer
    <2>2. (\A w \in Workers : handlers[w].slot # s) /\ handlers' = handlers
        BY <1>3 DEF GetServerSettings, RefuseSettings, Waiting, changes
    <2>. QED
        BY <2>1, <2>2, AwaitedKept
<1>4. ASSUME NEW s \in Slots, Arrive(s)  PROVE AwaitedOK'
    <2>1. PICK kind : Receive(s, kind)
        BY <1>4 DEF Arrive, SettingsArrive, SaveAnswered, KeypairAnswered
    <2>2. /\ net[s].answer # Null /\ net' = [net EXCEPT ![s] = NoRequest]
          /\ handlers' = handlers
        BY <2>1 DEF Receive, changes
    <2>. QED
        BY <2>2, AwaitedKinds, AwaitedKept
<1>5. ASSUME NEW s \in Slots \cup {Script}, NEW at, NEW kind, NEW patch, UNCHANGED net,
             Begin(s, at, kind, patch),
             s \in Slots => /\ net[s].kind = kind /\ net[s].answer = Null
                            /\ \A w \in Workers : handlers[w].slot # s
      PROVE  AwaitedOK'
    <2>1. PICK w \in Workers :
             handlers' = [handlers EXCEPT ![w] = Handler(s, at, kind, patch, server, key)]
        BY <1>5 DEF Begin
    <2>2. /\ handlers'[w].slot = s /\ handlers'[w].kind = kind
          /\ \A v \in Workers \ {w} : handlers'[v] = handlers[v]
        BY <1>0, <2>1 DEF Handler
    <2>. QED
        BY <1>0, <1>5, <2>2 DEF AwaitedOK
<1>6. ASSUME NEW s \in Slots, UpdateServerSettings(s) \/ RegenerateKeypair(s)
      PROVE  AwaitedOK'
    BY <1>5, <1>6 DEF UpdateServerSettings, RegenerateKeypair, BeginSave, BeginRegenerate,
       Begin, Waiting
<1>7. ASSUME OthersRegenerate \/ \E p \in Patches : OthersSave(p)  PROVE AwaitedOK'
    BY <1>5, <1>7 DEF OthersRegenerate, OthersSave, BeginSave, BeginRegenerate, Begin,
       Script, Slots
<1>8. ASSUME NEW w \in Workers, DownReturns(w)  PROVE AwaitedOK'
    <2>1. /\ handlers'[w].slot = handlers[w].slot /\ handlers'[w].kind = handlers[w].kind
          /\ \A v \in Workers \ {w} : handlers'[v] = handlers[v]
          /\ UNCHANGED net
        BY <1>0, <1>8 DEF DownReturns, Handler
    <2>. QED
        BY <1>0, <2>1 DEF AwaitedOK
<1>9. ASSUME NEW w \in Workers, NEW a, NEW tells, End(w, a, tells)  PROVE AwaitedOK'
    <2>. DEFINE s == handlers[w].slot
    <2>1. /\ handlers'[w].slot \notin Slots
          /\ \A v \in Workers \ {w} : handlers'[v] = handlers[v]
        BY <1>0, <1>9 DEF End, NoHandler, Handler, Script, Slots
    <2>2. IF s \in Slots THEN net' = [net EXCEPT ![s].answer = a] ELSE UNCHANGED net
        BY <1>9 DEF End, Answer
    <2>3. ASSUME NEW q \in Slots, q # s  PROVE net'[q] = net[q]
        BY <1>0, <2>2, <2>3
    <2>4. ASSUME NEW v \in Workers \ {w}, handlers[v].slot \in Slots
          PROVE  handlers[v].slot # s
        BY <1>0, <2>4 DEF AwaitedOK
    <2>. HIDE DEF s
    <2>. QED
        BY <1>0, <2>1, <2>3, <2>4 DEF AwaitedOK
<1>10. ASSUME NEW w \in Workers, Succeeds(w) \/ Fails(w)  PROVE AwaitedOK'
    BY <1>9, <1>10 DEF Succeeds, Fails
<1>11. ASSUME NEW s \in Slots, ConnectionFails(s)  PROVE AwaitedOK'
    <2>1. ASSUME NEW q \in Slots, q # s  PROVE net'[q] = net[q]
        BY <1>0, <1>11, <2>1 DEF ConnectionFails, Answer
    <2>2. ASSUME NEW v \in Workers
          PROVE  IF handlers[v].slot = s THEN handlers'[v].slot = Lost
                 ELSE handlers'[v] = handlers[v]
        <3>1. handlers[v].slot = s => [handlers[v] EXCEPT !.slot = Lost].slot = Lost
            BY AwaitedKinds, HandlerOK DEF PageTypeOK, HandlersOK, IsHandler, Handler, NoHandler
        <3>. QED
            BY <1>11, <3>1 DEF ConnectionFails
    <2>3. Lost \notin Slots
        BY DEF Lost, Slots
    <2>. QED
        BY <1>0, <2>1, <2>2, <2>3 DEF AwaitedOK
<1>. QED
    BY <1>1, <1>2, <1>3, <1>4, <1>6, <1>7, <1>8, <1>10, <1>11 DEF Next, User, Others,
       Handle, Proceed, OpenServerSettings, SaveServerSettings, ConfirmRegenerateKeypair,
       CloseServerSettings, AskRegenerate, CancelRegenerate, Edit, ImportClient, changes,
       vars

LEMMA NetInductive ==
    ASSUME PageTypeOK, [Next]_vars
    PROVE  NetOK'
<1>. USE DEF PageTypeOK
<1>1. ASSUME OpenServerSettings \/ ConfirmRegenerateKeypair  PROVE NetOK'
    BY <1>1, SendOK DEF OpenServerSettings, ConfirmRegenerateKeypair
<1>2. ASSUME SaveServerSettings  PROVE NetOK'
    BY <1>2, SendOK DEF SaveServerSettings, ServerCanSave, ServerDirty, PageOK
<1>3. ASSUME UNCHANGED net  PROVE NetOK'
    BY <1>3 DEF NetOK
<1>4. ASSUME NEW s \in Slots, GetServerSettings(s)  PROVE NetOK'
    BY <1>4, OkAnswer, AnswerOK DEF GetServerSettings, Waiting, ServerOK
<1>5. ASSUME NEW s \in Slots, RefuseSettings(s)  PROVE NetOK'
    <2>. DEFINE errors == ValidateServerSettings(net[s].body, server)
    <2>1. net[s].kind = "save" /\ IsSettings(net[s].body) /\ Answer(s, Refused(errors))
        BY <1>5, RequestOK DEF RefuseSettings, Waiting
    <2>2. errors \subseteq Fields
        BY <2>1, ErrorsAreFields DEF ServerOK
    <2>. HIDE DEF errors
    <2>3. IsAnswer(Refused(errors), "save")
        BY <2>2 DEF IsAnswer, Refused
    <2>. QED
        BY <2>1, <2>3, AnswerOK
<1>6. ASSUME NEW w \in Workers, NEW a, NEW tells, End(w, a, tells),
             handlers[w].slot \in Slots => IsAnswer(a, handlers[w].kind)
      PROVE  NetOK'
    <2>1. CASE handlers[w].slot \in Slots
        <3>1. /\ net[handlers[w].slot].kind = handlers[w].kind
              /\ handlers[w].kind \in {"save", "regen"}
            BY <2>1, AwaitedKinds
        <3>. QED
            BY <1>6, <2>1, <3>1, AnswerOK DEF End
    <2>2. CASE handlers[w].slot \notin Slots
        BY <1>3, <1>6, <2>2 DEF End
    <2>. QED
        BY <2>1, <2>2
<1>7. ASSUME NEW w \in Workers, Succeeds(w) \/ Fails(w)  PROVE NetOK'
    <2>. DEFINE h == handlers[w]
    <2>1. handlers[w].at # "none"
        BY <1>7 DEF Succeeds, Fails
    <2>2. CASE Fails(w)
        BY <1>6, <2>2 DEF Fails, IsAnswer
    <2>3. CASE Succeeds(w) /\ h.kind = "save"
        <3>1. End(w, Ok(server, h.at = "up", Reimport(h)), Reimport(h))
            BY <2>3 DEF Succeeds
        <3>2. Reimport(h) \in BOOLEAN /\ (h.at = "up") \in BOOLEAN
            BY DEF Reimport, MustReimport
        <3>3. IsSettings(server)
            BY DEF ServerOK
        <3>4. IsAnswer(Ok(server, h.at = "up", Reimport(h)), "save")
            BY <3>2, <3>3, SaveAnswer
        <3>. QED
            BY <1>6, <2>3, <3>1, <3>4
    <2>4. CASE Succeeds(w) /\ h.kind # "save"
        <3>1. /\ End(w, Ok(h.patch, TRUE, TRUE), Reimport(h))
              /\ h.kind = "regen" /\ h.patch \in [{"publicKey"} -> Keys]
            BY <2>1, <2>4, HandlerOK DEF Succeeds
        <3>2. IsAnswer(Ok(h.patch, TRUE, TRUE), "regen")
            BY <3>1, OkAnswer
        <3>. QED
            BY <1>6, <3>1, <3>2
    <2>. QED
        BY <1>7, <2>2, <2>3, <2>4
<1>8. ASSUME NEW s \in Slots, ConnectionFails(s)  PROVE NetOK'
    BY <1>8, AnswerOK DEF ConnectionFails, IsAnswer
<1>9. ASSUME NEW s \in Slots, Arrive(s)  PROVE NetOK'
    <2>1. net' = [net EXCEPT ![s] = NoRequest]
        BY <1>9 DEF Arrive, SettingsArrive, SaveAnswered, KeypairAnswered, Receive
    <2>. QED
        BY <2>1 DEF NetOK, IsRequest
<1>. QED
    BY <1>1, <1>2, <1>3, <1>4, <1>5, <1>7, <1>8, <1>9 DEF Next, User, Others,
       Handle, Proceed, CloseServerSettings, AskRegenerate, CancelRegenerate, Edit,
       ImportClient, OthersSave, OthersRegenerate, UpdateServerSettings,
       RegenerateKeypair, BeginSave, BeginRegenerate, Begin, DownReturns, vars

LEMMA PageInductive ==
    ASSUME PageTypeOK, [Next]_vars
    PROVE  PageOK(page)'
<1>. page \in PageSet
    BY PageInSet DEF PageTypeOK
<1>. SUFFICES page' \in PageSet
    BY PageInSet
<1>. USE DEF PageTypeOK
<1>1. ASSUME OpenServerSettings \/ CloseServerSettings \/ SaveServerSettings
             \/ AskRegenerate \/ CancelRegenerate \/ ConfirmRegenerateKeypair
      PROVE  page' \in PageSet
    <2>1. CASE OpenServerSettings
        BY <2>1 DEF PageSet, OpenServerSettings
    <2>2. CASE SaveServerSettings
        BY <2>2 DEF PageSet, SaveServerSettings
    <2>3. CASE CloseServerSettings \/ AskRegenerate
        BY <2>3 DEF PageSet, CloseServerSettings, AskRegenerate
    <2>4. CASE CancelRegenerate \/ ConfirmRegenerateKeypair
        BY <2>4 DEF PageSet, CancelRegenerate, ConfirmRegenerateKeypair
    <2>. QED
        BY <1>1, <2>1, <2>2, <2>3, <2>4
<1>2. ASSUME NEW f \in DOMAIN Inputs, NEW v \in Inputs[f], Edit(f, v)
      PROVE  page' \in PageSet
    <2>. DEFINE d == [page.draft EXCEPT ![f] = v]
                p == [page EXCEPT !.draft = d]
    <2>1. v \in Values(f) /\ IsSettings(page.draft)
        BY <1>2, PageAssumption, SettingsInSet DEF Edit, FormShown, PageSet
    <2>2. d \in SettingsSet
        BY <2>1, FieldOK, SettingsInSet
    <2>3. page' = Watched(p)
        BY <1>2 DEF Edit
    <2>. HIDE DEF d
    <2>4. p \in PageSet
        BY <2>2 DEF PageSet
    <2>. HIDE DEF p
    <2>. QED
        BY <2>3, <2>4, WatchedOK
<1>3. ASSUME UNCHANGED page  PROVE page' \in PageSet
    BY <1>3
<1>4. ASSUME NEW s \in Slots, SettingsArrive(s)  PROVE page' \in PageSet
    <2>. DEFINE a == net[s].answer
                p == [page EXCEPT !.loading = FALSE]
                q == [p EXCEPT !.settings = a.settings, !.draft = a.settings]
    <2>1. a.is = "ok" => a.settings \in SettingsSet
        BY <1>4, RequestOK, AnswerTypes, SettingsInSet DEF SettingsArrive, Receive
    <2>2. page' = IF a.is = "ok" THEN Watched(q) ELSE p
        BY <1>4 DEF SettingsArrive
    <2>. HIDE DEF a
    <2>3. p \in PageSet
        BY DEF PageSet
    <2>. HIDE DEF p
    <2>4. a.is = "ok" => q \in PageSet
        BY <2>1, <2>3 DEF PageSet
    <2>. HIDE DEF q
    <2>. QED
        BY <2>2, <2>3, <2>4, WatchedOK
<1>5. ASSUME NEW s \in Slots, SaveAnswered(s)  PROVE page' \in PageSet
    <2>. DEFINE a == net[s].answer
                p == [page EXCEPT !.saving = FALSE]
                hint == [restarted |-> a.restarted, mustReimport |-> a.mustReimport]
                q == [p EXCEPT !.settings = a.settings, !.draft = a.settings,
                               !.result = hint]
                r == [p EXCEPT !.errors = a.errors]
    <2>1. /\ a.is = "ok" => /\ a.settings \in SettingsSet
                            /\ hint \in [restarted: BOOLEAN, mustReimport: BOOLEAN]
          /\ a.is = "refused" => a.errors \subseteq Fields
          /\ a.is \in {"ok", "refused", "failed"}
        BY <1>5, RequestOK, AnswerTypes, SettingsInSet DEF SaveAnswered, Receive
    <2>2. /\ a.is = "ok" => page' = Watched(q)
          /\ a.is = "refused" => page' = r
          /\ a.is = "failed" => page' = p
        BY <1>5 DEF SaveAnswered
    <2>. HIDE DEF a, hint
    <2>3. p \in PageSet
        BY DEF PageSet
    <2>. HIDE DEF p
    <2>4. /\ a.is = "refused" => r \in PageSet
          /\ a.is = "ok" => q \in PageSet
        BY <2>1, <2>3 DEF PageSet
    <2>. HIDE DEF q, r
    <2>. QED
        BY <2>1, <2>2, <2>3, <2>4, WatchedOK
<1>6. ASSUME NEW s \in Slots, KeypairAnswered(s)  PROVE page' \in PageSet
    <2>. DEFINE a == net[s].answer
                p == [page EXCEPT !.saving = FALSE, !.confirm = FALSE]
                k == a.settings["publicKey"]
                hint == [restarted |-> TRUE, mustReimport |-> TRUE]
                q == [p EXCEPT !.settings = WithKey(@, k), !.draft = WithKey(@, k),
                               !.result = hint]
    <2>1. a.is = "ok" => k \in Keys
        BY <1>6, RequestOK, AnswerTypes DEF KeypairAnswered, Receive
    <2>2. page' \in IF a.is = "ok" THEN {q, Watched(q)} ELSE {p}
        BY <1>6 DEF KeypairAnswered
    <2>3. ASSUME NEW t \in SettingsSet \cup {Null}, a.is = "ok"
          PROVE  WithKey(t, k) \in SettingsSet \cup {Null}
        <3>. HIDE DEF a, k
        <3>. QED
            BY <2>1, <2>3, KeyOK, SettingsInSet DEF WithKey
    <2>4. hint \in [restarted: BOOLEAN, mustReimport: BOOLEAN]
        OBVIOUS
    <2>. HIDE DEF a, k, hint
    <2>5. p \in PageSet
        BY DEF PageSet
    <2>. HIDE DEF p
    <2>6. a.is = "ok" => q \in PageSet
        BY <2>3, <2>4, <2>5 DEF PageSet
    <2>. HIDE DEF q
    <2>. QED
        BY <2>2, <2>5, <2>6, WatchedOK
<1>. QED
    BY <1>1, <1>2, <1>3, <1>4, <1>5, <1>6 DEF Next, User, Others, Handle, Arrive,
       GetServerSettings, RefuseSettings, UpdateServerSettings, RegenerateKeypair,
       ConnectionFails, OthersSave, OthersRegenerate, ImportClient, BeginSave,
       BeginRegenerate, Begin, Proceed, DownReturns, Succeeds, Fails, End, vars

\* The variables of SettingsPage keep their types.
THEOREM PageTypeCorrect == Spec => []PageTypeOK
<1>1. Init => PageTypeOK
    <2>. SUFFICES ASSUME Init  PROVE PageTypeOK
        OBVIOUS
    <2>1. ServerOK
        BY PageAssumption DEF Init, ServerOK
    <2>2. PageOK(page)
        BY DEF Init, PageOK
    <2>3. NetOK
        BY DEF Init, NetOK, IsRequest
    <2>4. HandlersOK /\ AwaitedOK
        BY DEF Init, HandlersOK, AwaitedOK, IsHandler, NoHandler, Handler, Script, Slots
    <2>5. MaxClicks \in Nat /\ MaxEvents \in Nat
        BY PageAssumption
    <2>6. clicks \in 0 .. MaxClicks /\ events \in 0 .. MaxEvents
        BY <2>5 DEF Init
    <2>7. overlapped \in BOOLEAN
        BY DEF Init
    <2>. QED
        BY <2>1, <2>2, <2>3, <2>4, <2>6, <2>7 DEF PageTypeOK
<1>2. PageTypeOK /\ [Next]_vars => PageTypeOK'
    <2>. SUFFICES ASSUME PageTypeOK, [Next]_vars  PROVE PageTypeOK'
        OBVIOUS
    <2>1. /\ clicks' = clicks \/ (clicks < MaxClicks /\ clicks' = clicks + 1)
          /\ events' = events \/ (events < MaxEvents /\ events' = events + 1)
        BY DEF Next, User, Others, Handle, Arrive, Proceed, OpenServerSettings,
           CloseServerSettings, SaveServerSettings, AskRegenerate, CancelRegenerate,
           ConfirmRegenerateKeypair, Edit, Send, ImportClient, GetServerSettings,
           RefuseSettings, UpdateServerSettings, RegenerateKeypair, BeginSave,
           BeginRegenerate, Begin, ConnectionFails, OthersSave, OthersRegenerate, Event,
           DownReturns, Succeeds, Fails, End, SettingsArrive, SaveAnswered,
           KeypairAnswered, Receive, vars
    <2>2. clicks' \in 0 .. MaxClicks /\ events' \in 0 .. MaxEvents
        BY <2>1, PageAssumption DEF PageTypeOK
    <2>3. overlapped' \in BOOLEAN
        <3>1. UNCHANGED overlapped \/ overlapped' = (overlapped \/ ~ Idle)
            BY Steps DEF ImportClient, ConnectionFails, BeginSave, BeginRegenerate, Begin,
               Proceed, DownReturns, Succeeds, Fails, End, changes
        <3>. QED
            BY <3>1 DEF PageTypeOK
    <2>. QED
        BY <2>2, <2>3, ServerInductive, PageInductive, NetInductive, HandlersInductive,
           AwaitedInductive DEF PageTypeOK
<1>. QED
    BY <1>1, <1>2, PTL DEF Spec

-----------------------------------------------------------------------------
(* Valid settings *)

\* The fields one by one, and Jmin against Jmax.
AllValid(s) == (\A f \in DOMAIN s : ValidField(f, s[f])) /\ ~ CrossError({}, s)

LEMMA AssignSelf ==
    ASSUME NEW s, IsSettings(s)
    PROVE  Assign(s, s) = s
BY DEF Assign, IsSettings, IsPatch

LEMMA AcceptedPatch ==
    ASSUME NEW p, NEW s
    PROVE  ValidateServerSettings(p, s) = {} <=>
               (\A f \in DOMAIN p : ValidField(f, p[f])) /\ ~ CrossError({}, Assign(s, p))
<1>. DEFINE bad == {f \in DOMAIN p : ~ ValidField(f, p[f])}
            extra == IF CrossError(bad, Assign(s, p)) THEN {"jmax"} ELSE {}
<1>1. ValidateServerSettings(p, s) = bad \cup extra
    BY DEF ValidateServerSettings
<1>2. bad = {} <=> \A f \in DOMAIN p : ValidField(f, p[f])
    OBVIOUS
<1>3. bad = {} => (extra = {} <=> ~ CrossError({}, Assign(s, p)))
    OBVIOUS
<1>. HIDE DEF bad, extra
<1>. QED
    BY <1>1, <1>2, <1>3

LEMMA ValidSettings ==
    ASSUME NEW s, IsSettings(s)
    PROVE  ValidateServerSettings(s, s) = {} <=> AllValid(s)
BY AcceptedPatch, AssignSelf DEF AllValid

LEMMA AssignValid ==
    ASSUME NEW s, AllValid(s), NEW p, ValidateServerSettings(p, s) = {}
    PROVE  AllValid(Assign(s, p))
<1>1. /\ \A f \in DOMAIN p : ValidField(f, p[f])
      /\ ~ CrossError({}, Assign(s, p))
    BY AcceptedPatch
<1>2. \A f \in DOMAIN Assign(s, p) : ValidField(f, Assign(s, p)[f])
    BY <1>1 DEF Assign, AllValid
<1>. QED
    BY <1>1, <1>2 DEF AllValid

LEMMA KeyValid ==
    ASSUME NEW s, AllValid(s), NEW k
    PROVE  AllValid(Assign(s, KeyPatch(k)))
<1>. DEFINE n == Assign(s, KeyPatch(k))
<1>1. /\ DOMAIN n = DOMAIN s
      /\ \A f \in DOMAIN s : f # "publicKey" => n[f] = s[f]
    BY DEF Assign, KeyPatch
<1>2. ValidField("publicKey", n["publicKey"])
    BY DEF ValidField, NumberFields, RangeFields, TextFields
<1>. HIDE DEF n
<1>3. AllValid(n)
    BY <1>1, <1>2 DEF AllValid, CrossError
<1>. QED
    BY <1>3 DEF n

\* A handler that is alone at its await: what it captured is valid, what it
\* will assign too, and nobody has changed what it checked.
AloneIsValid(w) ==
    LET h == handlers[w] IN
    /\ \A v \in Workers : handlers[v] # NoHandler => v = w
    /\ AllValid(h.prev)
    /\ h.at = "down" /\ h.kind = "save" =>
          server = h.prev /\ ValidateServerSettings(h.patch, server) = {}

ValidInv ==
    ~ overlapped =>
        /\ AllValid(server)
        /\ \A w \in Workers : handlers[w] # NoHandler => AloneIsValid(w)

LEMMA ValidInductive ==
    ASSUME PageTypeOK, ValidInv, [Next]_vars
    PROVE  ValidInv'
<1>0. DOMAIN handlers = Workers /\ HandlersOK /\ IsSettings(server)
    BY DEF PageTypeOK, HandlersOK, ServerOK
<1>1. ASSUME UNCHANGED <<config, changes>>  PROVE ValidInv'
    BY <1>1 DEF config, changes, ValidInv, AloneIsValid
<1>2. ASSUME NEW s, NEW at, NEW kind, NEW patch, Begin(s, at, kind, patch), ~ overlapped',
             AllValid(server'),
             at = "down" /\ kind = "save" =>
                 server' = server /\ ValidateServerSettings(patch, server) = {}
      PROVE  ValidInv'
    <2>1. Idle /\ AllValid(server)
        BY <1>2 DEF Begin, ValidInv
    <2>2. PICK w \in Workers :
             handlers' = [handlers EXCEPT ![w] = Handler(s, at, kind, patch, server, key)]
        BY <1>2 DEF Begin
    <2>3. /\ handlers'[w] = Handler(s, at, kind, patch, server, key)
          /\ \A v \in Workers \ {w} : handlers'[v] = NoHandler
        BY <1>0, <2>1, <2>2 DEF Idle
    <2>. QED
        BY <1>2, <2>1, <2>3 DEF ValidInv, AloneIsValid, Handler
<1>3. ASSUME NEW s, NEW p, BeginSave(s, p)  PROVE ValidInv'
    <2>. SUFFICES ASSUME ~ overlapped'  PROVE ValidInv'
        BY DEF ValidInv
    <2>1. AllValid(server)
        BY <1>3 DEF BeginSave, Begin, ValidInv
    <2>2. CASE NeedsRestart(server, p)
        BY <1>2, <1>3, <2>1, <2>2 DEF BeginSave
    <2>3. CASE ~ NeedsRestart(server, p)
        BY <1>2, <1>3, <2>1, <2>3, AssignValid DEF BeginSave
    <2>. QED
        BY <2>2, <2>3
<1>4. ASSUME NEW s, BeginRegenerate(s)  PROVE ValidInv'
    <2>. SUFFICES ASSUME ~ overlapped'  PROVE ValidInv'
        BY DEF ValidInv
    <2>. QED
        BY <1>2, <1>4 DEF BeginRegenerate, Begin, ValidInv
<1>5. ASSUME NEW w \in Workers, DownReturns(w)  PROVE ValidInv'
    <2>. SUFFICES ASSUME ~ overlapped  PROVE ValidInv'
        BY <1>5 DEF ValidInv, DownReturns
    <2>1. handlers[w] # NoHandler /\ AloneIsValid(w) /\ AllValid(server)
        BY <1>0, <1>5, HandlerOK DEF DownReturns, ValidInv
    <2>2. PICK patch : /\ handlers' = [handlers EXCEPT ![w] =
                             Handler(handlers[w].slot, "up", handlers[w].kind, patch,
                                     handlers[w].prev, handlers[w].key)]
                       /\ server' = Assign(server, patch)
                       /\ IF handlers[w].kind = "save" THEN patch = handlers[w].patch
                          ELSE \E k \in Keys : patch = KeyPatch(k)
        BY <1>5 DEF DownReturns
    <2>3. AllValid(server')
        BY <1>5, <2>1, <2>2, AssignValid, KeyValid DEF AloneIsValid, DownReturns
    <2>4. /\ handlers'[w].at = "up" /\ handlers'[w].prev = handlers[w].prev
          /\ \A v \in Workers \ {w} : handlers'[v] = handlers[v]
        BY <1>0, <2>2 DEF Handler
    <2>. QED
        BY <2>1, <2>3, <2>4 DEF ValidInv, AloneIsValid
<1>6. ASSUME NEW w \in Workers, NEW a, NEW tells, End(w, a, tells), handlers[w].at # "none",
             UNCHANGED server \/ RollBack(handlers[w])
      PROVE  ValidInv'
    <2>. SUFFICES ASSUME ~ overlapped  PROVE ValidInv'
        BY <1>6 DEF ValidInv, End
    <2>1. handlers[w] # NoHandler /\ AloneIsValid(w) /\ AllValid(server)
          /\ IsSettings(handlers[w].prev)
        BY <1>0, <1>6, HandlerOK DEF ValidInv
    <2>2. Assign(server, handlers[w].prev) = handlers[w].prev
        BY <1>0, <2>1 DEF Assign, IsSettings, IsPatch
    <2>3. AllValid(server')
        BY <1>6, <2>1, <2>2, KeyValid DEF RollBack, AloneIsValid
    <2>4. \A v \in Workers : handlers'[v] = NoHandler
        BY <1>0, <1>6, <2>1 DEF End, AloneIsValid
    <2>. QED
        BY <2>3, <2>4 DEF ValidInv
<1>7. ASSUME NEW w \in Workers, Succeeds(w) \/ Fails(w)  PROVE ValidInv'
    BY <1>6, <1>7 DEF Succeeds, Fails, config
<1>8. ASSUME NEW s \in Slots, ConnectionFails(s)  PROVE ValidInv'
    <2>1. ASSUME NEW w \in Workers
          PROVE  IF handlers[w].slot = s
                 THEN handlers[w] # NoHandler
                      /\ handlers'[w] = [handlers[w] EXCEPT !.slot = Lost]
                 ELSE handlers'[w] = handlers[w]
        BY <1>8, AwaitedKinds, HandlerOK DEF ConnectionFails, PageTypeOK
    <2>2. UNCHANGED <<server, overlapped>>
        BY <1>8 DEF ConnectionFails, config
    <2>3. ASSUME NEW w \in Workers
          PROVE  /\ handlers'[w] # NoHandler => handlers[w] # NoHandler
                 /\ handlers'[w].prev = handlers[w].prev
                 /\ handlers'[w].at = handlers[w].at /\ handlers'[w].kind = handlers[w].kind
                 /\ handlers'[w].patch = handlers[w].patch
        <3>1. handlers[w] = Handler(handlers[w].slot, handlers[w].at, handlers[w].kind,
                               handlers[w].patch, handlers[w].prev, handlers[w].key)
            BY <1>0 DEF HandlersOK, IsHandler, NoHandler, Handler
        <3>. QED
            BY <2>1, <3>1 DEF Handler
    <2>. QED
        BY <2>2, <2>3 DEF ValidInv, AloneIsValid
<1>. QED
    BY <1>1, <1>3, <1>4, <1>5, <1>7, <1>8, Steps DEF Proceed, ImportClient

\* Settings that were valid at the boot stay valid, whatever patches are posted
\* and whatever is rolled back, as long as no two changes are under way at once.
THEOREM SettingsStayValid == Spec => []SettingsValid
<1>1. PageTypeOK /\ ValidInv => SettingsValid
    BY ValidSettings DEF PageTypeOK, ServerOK, ValidInv, SettingsValid
<1>2. Init => ValidInv
    <2>. SUFFICES ASSUME Init  PROVE ValidInv
        OBVIOUS
    <2>1. IsSettings(server) /\ ValidateServerSettings(server, server) = {}
        BY PageAssumption, BootAssumption DEF Init
    <2>. QED
        BY <2>1, ValidSettings DEF Init, ValidInv
<1>3. PageTypeOK /\ ValidInv /\ [Next]_vars => ValidInv'
    BY ValidInductive
<1>. QED
    BY <1>1, <1>2, <1>3, PageTypeCorrect, PTL DEF Spec

-----------------------------------------------------------------------------
(* The two validators *)

LEMMA SameVerdict ==
    ASSUME NEW f, f \notin TextFields, NEW v \in Values(f)
    PROVE  UiValidField(f, v) <=> ValidField(f, v)
<1>1. UiLimits(f) = Limits(f)
    BY DEF UiLimits, Limits
<1>2. CASE f \in NumberFields
    BY <1>1, <1>2 DEF UiValidField, ValidField
<1>3. CASE f \in RangeFields /\ f \notin NumberFields
    <2>1. UiHSpace = HSpace
        <3>1. HSpaceMin = 5
            BY DEF HSpaceMin
        <3>2. HSpaceMax = UiHSpaceMax
            BY SMT DEF HSpaceMax, UiHSpaceMax
        <3>. QED
            BY <3>1, <3>2 DEF UiHSpace, HSpace
    <2>. QED
        BY <1>3, <2>1 DEF UiValidField, ValidField, IsHeaderRange
<1>4. CASE f \notin NumberFields /\ f \notin RangeFields
    BY <1>4 DEF UiValidField, ValidField
<1>. QED
    BY <1>2, <1>3, <1>4

\* On numbers and ranges the inline errors of the UI are the errors the server
\* would answer.
THEOREM ValidatorsAgree ==
    ASSUME NEW draft, IsSettings(draft), NEW s, IsSettings(s)
    PROVE  ValidateServerDraft(draft) \ TextFields =
           ValidateServerSettings(draft, s) \ TextFields
<1>. DEFINE bad == {f \in DOMAIN draft : ~ ValidField(f, draft[f])}
            ui  == {f \in DOMAIN draft : ~ UiValidField(f, draft[f])}
            u   == IF CrossError(ui, draft) THEN {"jmax"} ELSE {}
            b   == IF CrossError(bad, draft) THEN {"jmax"} ELSE {}
<1>1. Assign(s, draft) = draft
    BY DEF Assign, IsSettings, IsPatch
<1>2. \A f \in DOMAIN draft : f \notin TextFields => (f \in bad <=> f \in ui)
    BY SameVerdict DEF IsSettings, IsPatch
<1>3. bad \subseteq DOMAIN draft /\ ui \subseteq DOMAIN draft
    OBVIOUS
<1>4. bad \ TextFields = ui \ TextFields
    <2>. HIDE DEF bad, ui
    <2>. QED
        BY <1>2, <1>3
<1>5. bad \cap {"jmin", "jmax"} = ui \cap {"jmin", "jmax"}
    <2>1. "jmin" \notin TextFields /\ "jmax" \notin TextFields
        BY DEF TextFields
    <2>. HIDE DEF bad, ui
    <2>. QED
        BY <1>4, <2>1
<1>6. u = b
    <2>. HIDE DEF bad, ui
    <2>. QED
        BY <1>5 DEF CrossError
<1>7. ValidateServerDraft(draft) = ui \cup u /\ ValidateServerSettings(draft, s) = bad \cup b
    BY <1>1 DEF ValidateServerDraft, ValidateServerSettings
<1>. HIDE DEF bad, ui, u, b
<1>. QED
    BY <1>4, <1>6, <1>7

(* The inline errors on numbers and header ranges stay those the server would   *)
(* give, whatever is typed and whatever others save meanwhile.                  *)
THEOREM NumbersStayMirrored == Spec => []NumbersMirrored
<1>1. PageTypeOK => NumbersMirrored
    BY ValidatorsAgree DEF PageTypeOK, PageOK, ServerOK, NumbersMirrored
<1>. QED
    BY <1>1, PageTypeCorrect, PTL

-----------------------------------------------------------------------------
(* One write at a time *)

LEMMA WritesInductive ==
    ASSUME PageTypeOK, OneWriteAtATime, [Next]_vars
    PROVE  OneWriteAtATime'
<1>. DEFINE Writes == {"save", "regen"}
<1>1. /\ DOMAIN net = Slots /\ page \in PageSet
      /\ page.saving \in BOOLEAN /\ page.loading \in BOOLEAN
    BY PageInSet DEF PageTypeOK, NetOK, PageSet
<1>2. ASSUME UNCHANGED net, page'.saving = page.saving, page'.loading = page.loading
      PROVE  OneWriteAtATime'
    BY <1>2 DEF OneWriteAtATime, InFlight
<1>3. ASSUME CloseServerSettings \/ AskRegenerate \/ CancelRegenerate
             \/ \E f \in DOMAIN Inputs : \E v \in Inputs[f] : Edit(f, v)
      PROVE  OneWriteAtATime'
    <2>1. page'.saving = page.saving /\ page'.loading = page.loading
        BY <1>1, <1>3 DEF CloseServerSettings, AskRegenerate, CancelRegenerate, Edit,
           Watched, PageSet
    <2>2. UNCHANGED net
        BY <1>3 DEF CloseServerSettings, AskRegenerate, CancelRegenerate, Edit
    <2>. QED
        BY <1>2, <2>1, <2>2
<1>4. ASSUME OpenServerSettings  PROVE OneWriteAtATime'
    <2>1. PICK s \in Slots : /\ net[s].kind = "none"
                             /\ net' = [net EXCEPT ![s] = [kind |-> "get", body |-> Null,
                                                           answer |-> Null]]
        BY <1>4 DEF OpenServerSettings, Send
    <2>2. net'[s].kind = "get" /\ \A q \in Slots \ {s} : net'[q] = net[q]
        BY <1>1, <2>1
    <2>3. page'.saving = page.saving
        BY <1>1, <1>4 DEF OpenServerSettings, PageSet
    <2>. QED
        BY <2>1, <2>2, <2>3 DEF OneWriteAtATime, InFlight
<1>5. ASSUME NEW kind \in Writes, NEW body, ~ page.saving, Send(kind, body),
             page'.saving = TRUE, page'.loading = page.loading
      PROVE  OneWriteAtATime'
    <2>1. PICK s \in Slots : /\ net[s].kind = "none"
                             /\ net' = [net EXCEPT ![s] = [kind |-> kind, body |-> body,
                                                           answer |-> Null]]
        BY <1>5 DEF Send
    <2>2. net'[s].kind = kind /\ \A q \in Slots \ {s} : net'[q] = net[q]
        BY <1>1, <2>1
    <2>3. \A q \in Slots : net[q].kind \notin Writes
        BY <1>5 DEF OneWriteAtATime, InFlight
    <2>. QED
        BY <1>5, <2>1, <2>2, <2>3 DEF OneWriteAtATime, InFlight
<1>6. ASSUME SaveServerSettings \/ ConfirmRegenerateKeypair  PROVE OneWriteAtATime'
    <2>1. page'.saving = TRUE /\ page'.loading = page.loading
        BY <1>1, <1>6 DEF SaveServerSettings, ConfirmRegenerateKeypair, PageSet
    <2>2. ~ page.saving /\ (Send("save", page.draft) \/ Send("regen", Null))
        BY <1>6 DEF SaveServerSettings, ConfirmRegenerateKeypair, ServerCanSave
    <2>. QED
        BY <1>5, <2>1, <2>2
<1>7. ASSUME NEW s \in Slots,
             GetServerSettings(s) \/ RefuseSettings(s) \/ ConnectionFails(s)
      PROVE  OneWriteAtATime'
    <2>1. PICK a : net' = [net EXCEPT ![s].answer = a]
        BY <1>7 DEF GetServerSettings, RefuseSettings, ConnectionFails, Answer
    <2>2. net[s].kind = [net[s] EXCEPT !.answer = a].kind
        BY DEF PageTypeOK, NetOK, IsRequest, NoRequest
    <2>3. \A q \in Slots : net'[q].kind = net[q].kind
        BY <1>1, <2>1, <2>2
    <2>4. UNCHANGED page
        BY <1>7 DEF GetServerSettings, RefuseSettings, ConnectionFails
    <2>. QED
        BY <2>3, <2>4 DEF OneWriteAtATime, InFlight
<1>8. ASSUME NEW s \in Slots, SettingsArrive(s)  PROVE OneWriteAtATime'
    <2>1. /\ net[s].kind = "get" /\ net'[s].kind = "none"
          /\ \A q \in Slots \ {s} : net'[q] = net[q]
        BY <1>1, <1>8 DEF SettingsArrive, Receive, NoRequest
    <2>2. page'.saving = page.saving /\ page'.loading = FALSE
        BY <1>1, <1>8 DEF SettingsArrive, Watched, PageSet
    <2>. QED
        BY <2>1, <2>2 DEF OneWriteAtATime, InFlight
<1>9. ASSUME NEW s \in Slots, SaveAnswered(s) \/ KeypairAnswered(s)
      PROVE  OneWriteAtATime'
    <2>1. /\ net[s].kind \in Writes /\ net'[s].kind = "none"
          /\ \A q \in Slots \ {s} : net'[q] = net[q]
        BY <1>1, <1>9 DEF SaveAnswered, KeypairAnswered, Receive, NoRequest
    <2>2. page'.saving = FALSE /\ page'.loading = page.loading
        <3>1. net[s].kind = "save" => net[s].answer.is \in {"ok", "refused", "failed"}
            BY <1>9, RequestOK, AnswerTypes DEF PageTypeOK, SaveAnswered, KeypairAnswered,
               Receive
        <3>2. CASE SaveAnswered(s)
            BY <1>1, <3>1, <3>2 DEF SaveAnswered, Receive, Watched, PageSet
        <3>3. CASE KeypairAnswered(s)
            BY <1>1, <3>3 DEF KeypairAnswered, Watched, PageSet
        <3>. QED
            BY <1>9, <3>2, <3>3
    <2>. QED
        BY <2>1, <2>2 DEF OneWriteAtATime, InFlight
<1>10. ASSUME UNCHANGED <<net, page>>  PROVE OneWriteAtATime'
    BY <1>2, <1>10
<1>11. ASSUME NEW w \in Workers, Succeeds(w) \/ Fails(w)  PROVE OneWriteAtATime'
    <2>1. PICK a, tells : End(w, a, tells)
        BY <1>11 DEF Succeeds, Fails
    <2>2. UNCHANGED page
        BY <2>1 DEF End
    <2>3. CASE handlers[w].slot \notin Slots
        BY <1>10, <2>1, <2>2, <2>3 DEF End
    <2>4. CASE handlers[w].slot \in Slots
        <3>1. PICK s \in Slots : net' = [net EXCEPT ![s].answer = a]
            BY <2>1, <2>4 DEF End, Answer
        <3>2. net[s].kind = [net[s] EXCEPT !.answer = a].kind
            BY DEF PageTypeOK, NetOK, IsRequest, NoRequest
        <3>3. \A q \in Slots : net'[q].kind = net[q].kind
            BY <1>1, <3>1, <3>2
        <3>. QED
            BY <2>2, <3>3 DEF OneWriteAtATime, InFlight
    <2>. QED
        BY <2>3, <2>4
<1>12. ASSUME NEW s \in Slots, UpdateServerSettings(s) \/ RegenerateKeypair(s)
       PROVE  OneWriteAtATime'
    BY <1>10, <1>12 DEF UpdateServerSettings, RegenerateKeypair, BeginSave,
       BeginRegenerate, Begin
<1>13. ASSUME \/ Others \/ \E w \in Workers : DownReturns(w)
       PROVE  OneWriteAtATime'
    BY <1>10, <1>13 DEF Others, ImportClient, OthersSave, OthersRegenerate, BeginSave,
       BeginRegenerate, Begin, DownReturns
<1>. QED
    BY <1>3, <1>4, <1>6, <1>7, <1>8, <1>9, <1>10, <1>11, <1>12, <1>13 DEF Next, User,
       Arrive, Handle, Proceed, vars

\* A tab never has two saves or regenerations in flight, and the buttons are
\* disabled exactly while it has one.
THEOREM OneWriteStays == Spec => []OneWriteAtATime
<1>1. Init => OneWriteAtATime
    BY DEF Init, OneWriteAtATime, InFlight, NoRequest
<1>2. PageTypeOK /\ OneWriteAtATime /\ [Next]_vars => OneWriteAtATime'
    BY WritesInductive
<1>. QED
    BY <1>1, <1>2, PageTypeCorrect, PTL DEF Spec

-----------------------------------------------------------------------------
(* A client is told before it is cut off *)

LEMMA EqualIsSame ==
    ASSUME NEW f, NEW a \in Values(f), ValidField(f, a), NEW b \in Values(f),
           ValidField(f, b), EqualValue(f, a, b)
    PROVE  a = b
<1>1. CASE f \notin RangeFields
    BY <1>1 DEF EqualValue
<1>2. CASE f \in RangeFields
    <2>1. f \notin NumberFields /\ f \notin TextFields
        BY <1>2 DEF RangeFields, NumberFields, TextFields
    <2>2. a # Blank /\ b # Blank
        <3>1. IsHeaderRange(a) /\ IsHeaderRange(b)
            BY <1>2, <2>1 DEF ValidField
        <3>. QED
            BY <3>1 DEF IsHeaderRange
    <2>3. a \in [min: Int, max: Int] /\ b \in [min: Int, max: Int]
        BY <1>2, <2>1, <2>2 DEF Values
    <2>4. a.min = b.min /\ a.max = b.max
        BY <1>2 DEF EqualValue
    <2>. QED
        BY <2>3, <2>4
<1>. QED
    BY <1>1, <1>2

\* A patch that asks nobody to import again changes nothing a handshake needs.
LEMMA QuietPatch ==
    ASSUME NEW s, IsSettings(s), \A f \in DOMAIN s : ValidField(f, s[f]),
           NEW p, IsPatch(p), \A f \in DOMAIN p : ValidField(f, p[f]),
           ~ MustReimport(s, p), NEW k
    PROVE  Tunnel(Assign(s, p), k) = Tunnel(s, k)
<1>1. TunnelFields \subseteq ReimportFields
    BY DEF TunnelFields, ReimportFields, RestartFields
<1>2. ASSUME NEW f \in Fields \cap TunnelFields  PROVE Assign(s, p)[f] = s[f]
    <2>1. f \in DOMAIN s /\ s[f] \in Values(f) /\ ValidField(f, s[f])
        BY DEF IsSettings, IsPatch
    <2>2. CASE f \notin DOMAIN p
        BY <2>1, <2>2 DEF Assign
    <2>3. CASE f \in DOMAIN p
        <3>1. EqualValue(f, s[f], p[f])
            BY <1>1, <1>2, <2>3 DEF MustReimport, Changed
        <3>2. p[f] \in Values(f) /\ ValidField(f, p[f])
            BY <2>3 DEF IsPatch
        <3>. QED
            BY <2>1, <2>3, <3>1, <3>2, EqualIsSame DEF Assign
    <2>. QED
        BY <2>2, <2>3
<1>. QED
    BY <1>2 DEF Tunnel

\* Field by field, whatever overlaps.
EachValid(p) == \A f \in DOMAIN p : ValidField(f, p[f])

HandlerValid(h) ==
    h.at # "none" =>
        /\ EachValid(h.prev)
        /\ h.kind = "save" => EachValid(h.patch)
        /\ h.kind = "save" /\ h.at # "sync" => Reimport(h)

FieldsInv == EachValid(server) /\ \A w \in Workers : HandlerValid(handlers[w])

\* A handler whose answer will tell.
Telling(h) == h.at = "up" \/ (h.at = "sync" /\ Reimport(h))

ToldInv ==
    client # Null =>
        /\ \A w \in Workers : handlers[w].slot # Lost
        /\ client = Tunnel(server, key) \/ \E w \in Workers : Telling(handlers[w])

LEMMA AssignEach ==
    ASSUME NEW s, EachValid(s), NEW p, EachValid(p)
    PROVE  EachValid(Assign(s, p))
BY DEF EachValid, Assign

LEMMA KeyEach ==
    ASSUME NEW k
    PROVE  EachValid(KeyPatch(k))
BY DEF EachValid, KeyPatch, ValidField, NumberFields, RangeFields, TextFields

LEMMA RestartReimports ==
    ASSUME NEW s, NEW p, NeedsRestart(s, p)
    PROVE  MustReimport(s, p)
BY DEF NeedsRestart, MustReimport, ReimportFields

\* What Begin records, and where.
LEMMA BeginAs ==
    ASSUME HandlersOK, NEW s, NEW at, NEW kind, NEW patch, Begin(s, at, kind, patch)
    PROVE  \E w \in Workers :
              /\ handlers[w] = NoHandler
              /\ handlers'[w] = Handler(s, at, kind, patch, server, key)
              /\ \A v \in Workers \ {w} : handlers'[v] = handlers[v]
<1>1. PICK w \in Workers :
         /\ handlers[w] = NoHandler
         /\ handlers' = [handlers EXCEPT ![w] = Handler(s, at, kind, patch, server, key)]
    BY DEF Begin
<1>. QED
    BY <1>1 DEF HandlersOK

\* What the loss of a connection leaves of a handler.
LEMMA LostAs ==
    ASSUME PageTypeOK, NEW s \in Slots, ConnectionFails(s), NEW w \in Workers
    PROVE  /\ handlers'[w].at = handlers[w].at /\ handlers'[w].kind = handlers[w].kind
           /\ handlers'[w].prev = handlers[w].prev /\ handlers'[w].patch = handlers[w].patch
           /\ handlers'[w].key = handlers[w].key
<1>1. handlers[w] = Handler(handlers[w].slot, handlers[w].at, handlers[w].kind,
                       handlers[w].patch, handlers[w].prev, handlers[w].key)
    BY DEF PageTypeOK, HandlersOK, IsHandler, NoHandler, Handler
<1>2. handlers'[w] = IF handlers[w].slot = s THEN [handlers[w] EXCEPT !.slot = Lost]
                     ELSE handlers[w]
    BY DEF ConnectionFails
<1>. QED
    BY <1>1, <1>2 DEF Handler

LEMMA FieldsInductive ==
    ASSUME PageTypeOK, FieldsInv, [Next]_vars
    PROVE  FieldsInv'
<1>0. DOMAIN handlers = Workers /\ HandlersOK
    BY DEF PageTypeOK, HandlersOK
<1>1. ASSUME UNCHANGED <<config, changes>>  PROVE FieldsInv'
    BY <1>1 DEF config, changes, FieldsInv
<1>2. ASSUME NEW s, NEW at, NEW kind, NEW patch, Begin(s, at, kind, patch),
             EachValid(server'), kind = "save" => EachValid(patch),
             kind = "save" /\ at # "sync" => MustReimport(server, patch)
      PROVE  FieldsInv'
    <2>1. PICK w \in Workers :
              /\ handlers'[w] = Handler(s, at, kind, patch, server, key)
              /\ \A v \in Workers \ {w} : handlers'[v] = handlers[v]
        BY <1>0, <1>2, BeginAs
    <2>2. HandlerValid(handlers'[w])
        BY <1>2, <2>1 DEF HandlerValid, Handler, Reimport, FieldsInv
    <2>. QED
        BY <1>2, <2>1, <2>2 DEF FieldsInv
<1>3. ASSUME NEW s, NEW p, BeginSave(s, p)  PROVE FieldsInv'
    <2>1. EachValid(server) /\ EachValid(p)
        BY <1>3, AcceptedPatch DEF BeginSave, FieldsInv, EachValid
    <2>2. CASE NeedsRestart(server, p)
        <3>1. Begin(s, "down", "save", p) /\ server' = server /\ MustReimport(server, p)
            BY <1>3, <2>2, RestartReimports DEF BeginSave
        <3>. QED
            BY <1>2, <2>1, <3>1
    <2>3. CASE ~ NeedsRestart(server, p)
        <3>1. Begin(s, "sync", "save", p) /\ EachValid(server')
            BY <1>3, <2>1, <2>3, AssignEach DEF BeginSave
        <3>. QED
            BY <1>2, <2>1, <3>1
    <2>. QED
        BY <2>2, <2>3
<1>4. ASSUME NEW s, BeginRegenerate(s)  PROVE FieldsInv'
    <2>1. Begin(s, "down", "regen", Null) /\ EachValid(server')
        BY <1>4 DEF BeginRegenerate, FieldsInv
    <2>. QED
        BY <1>2, <2>1
<1>5. ASSUME NEW w \in Workers, DownReturns(w)  PROVE FieldsInv'
    <2>. DEFINE h == handlers[w]
    <2>1. h.at = "down" /\ HandlerValid(h) /\ EachValid(server)
        BY <1>5 DEF DownReturns, FieldsInv
    <2>2. PICK patch : /\ handlers' = [handlers EXCEPT ![w] =
                             Handler(h.slot, "up", h.kind, patch, h.prev, h.key)]
                       /\ server' = Assign(server, patch)
                       /\ IF h.kind = "save" THEN patch = h.patch
                          ELSE \E k \in Keys : patch = KeyPatch(k)
        BY <1>5 DEF DownReturns
    <2>3. EachValid(patch)
        BY <2>1, <2>2, KeyEach DEF HandlerValid
    <2>4. /\ handlers'[w] = Handler(h.slot, "up", h.kind, patch, h.prev, h.key)
          /\ \A v \in Workers \ {w} : handlers'[v] = handlers[v]
        BY <1>0, <2>2
    <2>5. HandlerValid(handlers'[w])
        <3>. HIDE DEF h
        <3>. QED
            BY <2>1, <2>2, <2>4 DEF HandlerValid, Handler, Reimport
    <2>. QED
        BY <2>1, <2>2, <2>3, <2>4, <2>5, AssignEach DEF FieldsInv
<1>6. ASSUME NEW w \in Workers, NEW a, NEW tells, End(w, a, tells), handlers[w].at # "none",
             UNCHANGED server \/ RollBack(handlers[w])
      PROVE  FieldsInv'
    <2>1. EachValid(server) /\ EachValid(handlers[w].prev)
        BY <1>6 DEF FieldsInv, HandlerValid
    <2>2. EachValid(server')
        BY <1>6, <2>1, AssignEach, KeyEach DEF RollBack
    <2>3. handlers'[w].at = "none" /\ \A v \in Workers \ {w} : handlers'[v] = handlers[v]
        BY <1>0, <1>6 DEF End, NoHandler, Handler
    <2>. QED
        BY <2>2, <2>3 DEF FieldsInv, HandlerValid
<1>7. ASSUME NEW w \in Workers, Succeeds(w) \/ Fails(w)  PROVE FieldsInv'
    BY <1>6, <1>7 DEF Succeeds, Fails, config
<1>8. ASSUME NEW s \in Slots, ConnectionFails(s)  PROVE FieldsInv'
    <2>1. server' = server
        BY <1>8 DEF ConnectionFails, config
    <2>2. ASSUME NEW w \in Workers  PROVE HandlerValid(handlers'[w])
        BY <1>8, LostAs DEF FieldsInv, HandlerValid, Reimport
    <2>. QED
        BY <2>1, <2>2 DEF FieldsInv
<1>. QED
    BY <1>1, <1>3, <1>4, <1>5, <1>7, <1>8, Steps DEF Proceed, ImportClient

LEMMA ToldInductive ==
    ASSUME PageTypeOK, FieldsInv, ToldInv, [Next]_vars
    PROVE  ToldInv'
<1>0. DOMAIN handlers = Workers /\ HandlersOK /\ IsSettings(server)
    BY DEF PageTypeOK, HandlersOK, ServerOK
<1>1. ASSUME UNCHANGED <<config, changes, client>>  PROVE ToldInv'
    BY <1>1 DEF config, changes, ToldInv
<1>2. ASSUME ImportClient  PROVE ToldInv'
    BY <1>2 DEF ImportClient, ToldInv, Idle, NoHandler, Handler, Script, Lost, config,
       changes
<1>3. ASSUME NEW s \in Slots, ConnectionFails(s)  PROVE ToldInv'
    BY <1>3 DEF ConnectionFails, ToldInv
<1>4. ASSUME NEW s \in Slots \cup {Script}, NEW at, NEW kind, NEW patch,
             Begin(s, at, kind, patch),
             \/ Tunnel(server', key) = Tunnel(server, key)
             \/ at = "sync" /\ kind = "save" /\ MustReimport(server, patch)
      PROVE  ToldInv'
    <2>1. PICK w \in Workers :
              /\ handlers[w] = NoHandler
              /\ handlers'[w] = Handler(s, at, kind, patch, server, key)
              /\ \A v \in Workers \ {w} : handlers'[v] = handlers[v]
        BY <1>0, <1>4, BeginAs
    <2>2. client' = client /\ key' = key /\ s # Lost
        BY <1>4 DEF Begin, Lost, Script, Slots
    <2>3. handlers'[w].slot # Lost
        BY <2>1, <2>2 DEF Handler
    <2>4. ~ Telling(handlers[w])
        BY <2>1 DEF Telling, NoHandler, Handler
    <2>5. at = "sync" /\ kind = "save" /\ MustReimport(server, patch) => Telling(handlers'[w])
        BY <2>1 DEF Telling, Handler, Reimport
    <2>6. ASSUME client # Null
          PROVE  client = Tunnel(server', key) \/ \E v \in Workers : Telling(handlers'[v])
        BY <1>4, <2>1, <2>4, <2>5, <2>6 DEF ToldInv
    <2>. QED
        BY <2>1, <2>2, <2>3, <2>6 DEF ToldInv
<1>5. ASSUME NEW s \in Slots \cup {Script}, NEW p, IsPatch(p), BeginSave(s, p)
      PROVE  ToldInv'
    <2>1. (\A f \in DOMAIN server : ValidField(f, server[f]))
          /\ \A f \in DOMAIN p : ValidField(f, p[f])
        BY <1>5, AcceptedPatch DEF BeginSave, FieldsInv, EachValid
    <2>2. CASE NeedsRestart(server, p)
        BY <1>4, <1>5, <2>2 DEF BeginSave
    <2>3. CASE ~ NeedsRestart(server, p)
        <3>1. Begin(s, "sync", "save", p) /\ server' = Assign(server, p)
            BY <1>5, <2>3 DEF BeginSave
        <3>2. ~ MustReimport(server, p) => Tunnel(server', key) = Tunnel(server, key)
            BY <1>0, <1>5, <2>1, <3>1, QuietPatch
        <3>. QED
            BY <1>4, <3>1, <3>2
    <2>. QED
        BY <2>2, <2>3
<1>6. ASSUME NEW s \in Slots \cup {Script}, BeginRegenerate(s)  PROVE ToldInv'
    BY <1>4, <1>6 DEF BeginRegenerate
<1>7. ASSUME NEW w \in Workers, DownReturns(w)  PROVE ToldInv'
    <2>1. /\ handlers'[w].at = "up" /\ handlers'[w].slot = handlers[w].slot
          /\ \A v \in Workers \ {w} : handlers'[v] = handlers[v]
        BY <1>0, <1>7 DEF DownReturns, Handler
    <2>2. client' = client /\ Telling(handlers'[w])
        BY <1>7, <2>1 DEF DownReturns, Telling
    <2>. QED
        BY <2>1, <2>2 DEF ToldInv
<1>8. ASSUME NEW w \in Workers, NEW a, End(w, a, TRUE)  PROVE ToldInv'
    BY <1>8 DEF End, ToldInv
<1>9. ASSUME NEW w \in Workers, NEW a, End(w, a, FALSE), UNCHANGED config,
             ~ Telling(handlers[w])
      PROVE  ToldInv'
    <2>1. client' = client /\ UNCHANGED <<server, key>>
        BY <1>9 DEF End, config
    <2>2. handlers'[w].slot # Lost /\ \A v \in Workers \ {w} : handlers'[v] = handlers[v]
        BY <1>0, <1>9 DEF End, NoHandler, Handler, Script, Lost
    <2>. QED
        BY <1>9, <2>1, <2>2 DEF ToldInv
<1>10. ASSUME NEW w \in Workers, Succeeds(w)  PROVE ToldInv'
    <2>1. Reimport(handlers[w]) \in BOOLEAN
        BY DEF Reimport, MustReimport
    <2>2. handlers[w].at = "up" => Reimport(handlers[w])
        BY <1>0, <1>10, HandlerOK DEF FieldsInv, HandlerValid, Reimport, Succeeds
    <2>3. UNCHANGED config /\ \E a : End(w, a, Reimport(handlers[w]))
        BY <1>10 DEF Succeeds
    <2>4. CASE Reimport(handlers[w])
        BY <1>8, <2>1, <2>3, <2>4
    <2>5. CASE ~ Reimport(handlers[w])
        BY <1>9, <2>1, <2>2, <2>3, <2>5 DEF Telling
    <2>. QED
        BY <2>4, <2>5
<1>11. ASSUME NEW w \in Workers, Proceed(w)  PROVE ToldInv'
    BY <1>7, <1>8, <1>10, <1>11 DEF Proceed, Fails
<1>. QED
    BY <1>1, <1>2, <1>3, <1>5, <1>6, <1>11, Steps

\* Whatever changes are under way at once: when none is, a client that worked
\* works, or an answer has asked to import again, or failed.
THEOREM ClientsStayTold == Spec => []ClientsAreTold
<1>1. ToldInv => ClientsAreTold
    BY DEF ToldInv, ClientsAreTold, Idle, Telling, NoHandler, Handler
<1>2. Init => FieldsInv /\ ToldInv
    <2>. SUFFICES ASSUME Init  PROVE FieldsInv /\ ToldInv
        OBVIOUS
    <2>1. ValidateServerSettings(server, server) = {}
        BY BootAssumption DEF Init
    <2>. QED
        BY <2>1, AcceptedPatch DEF Init, FieldsInv, ToldInv, EachValid, HandlerValid,
           NoHandler, Handler
<1>3. PageTypeOK /\ FieldsInv /\ ToldInv /\ [Next]_vars => FieldsInv' /\ ToldInv'
    BY FieldsInductive, ToldInductive
<1>. QED
    BY <1>1, <1>2, <1>3, PageTypeCorrect, PTL DEF Spec

-----------------------------------------------------------------------------
(* The header ranges of a new server *)

LEMMA InQuadrant ==
    ASSUME NEW a \in Int, NEW b \in Int, a < b,
           NEW r \in RandomHRanges([min |-> a, max |-> b])
    PROVE  r.min \in Int /\ r.max \in Int /\ a <= r.min /\ r.min <= r.max /\ r.max < b
<1>. DEFINE span == b - a
            low  == (span * 3) \div 10
            high == (span * 8) \div 10
<1>1. span \in Int /\ span > 0 /\ low \in Int /\ 0 <= low /\ low < span
      /\ high \in Int /\ high < span
    OBVIOUS
<1>2. PICK size \in RandomInt(low, high) :
          \E m \in RandomInt(a, b - size) : r = [min |-> m, max |-> m + size]
    BY DEF RandomHRanges
<1>3. PICK m \in RandomInt(a, b - size) : r = [min |-> m, max |-> m + size]
    BY <1>2
<1>. HIDE DEF low, high, span
<1>4. size \in Int /\ 0 <= size /\ size < span
    BY <1>1, <1>2 DEF RandomInt
<1>5. a < b - size /\ b - size \in Int
    BY <1>1, <1>4 DEF span
<1>6. m \in Int /\ a <= m /\ m < b - size
    BY <1>3, <1>5 DEF RandomInt
<1>7. m <= m + size /\ m + size < b /\ m + size \in Int
    BY <1>4, <1>6
<1>. QED
    BY <1>3, <1>6, <1>7

\* Every header space with four values to spare: the four ranges a new server
\* draws ("4 non-overlapping quadrants") lie in it, in order, and no value is in
\* two of them.
THEOREM DrawnRangesDisjoint ==
    ASSUME NEW lo \in Int, NEW hi \in Int, hi - lo >= 4,
           NEW i \in 1 .. 4, NEW j \in 1 .. 4, i < j,
           NEW r \in RandomHRanges(Quadrant(lo, hi, i)),
           NEW q \in RandomHRanges(Quadrant(lo, hi, j))
    PROVE  /\ lo <= r.min /\ r.min <= r.max /\ r.max < q.min
           /\ q.min <= q.max /\ q.max <= hi
<1>. DEFINE z == QuadrantSize(lo, hi)
            top(n) == IF n = 4 THEN hi ELSE lo + n * z
<1>1. z \in Int /\ z >= 1 /\ lo + 4 * z <= hi
    BY DEF QuadrantSize
<1>2. \A n \in 1 .. 4 : Quadrant(lo, hi, n) = [min |-> lo + (n - 1) * z, max |-> top(n)]
    BY DEF Quadrant
<1>. HIDE DEF z
<1>3. \A n \in 1 .. 4 :
          /\ lo + (n - 1) * z \in Int /\ top(n) \in Int
          /\ lo + (n - 1) * z < top(n) /\ lo <= lo + (n - 1) * z /\ top(n) <= hi
    <2>. SUFFICES ASSUME NEW n \in 1 .. 4
                  PROVE  /\ lo + (n - 1) * z \in Int /\ top(n) \in Int
                         /\ lo + (n - 1) * z < top(n) /\ lo <= lo + (n - 1) * z
                         /\ top(n) <= hi
        OBVIOUS
    <2>1. n = 1 \/ n = 2 \/ n = 3 \/ n = 4
        OBVIOUS
    <2>. QED
        BY <1>1, <2>1
<1>4. top(i) <= lo + (j - 1) * z
    <2>1. /\ i = 1 \/ i = 2 \/ i = 3
          /\ j = 2 \/ j = 3 \/ j = 4
        OBVIOUS
    <2>. QED
        BY <1>1, <2>1
<1>5. /\ lo + (i - 1) * z <= r.min /\ r.min <= r.max /\ r.max < top(i)
      /\ r.min \in Int /\ r.max \in Int
    BY <1>2, <1>3, InQuadrant
<1>6. /\ lo + (j - 1) * z <= q.min /\ q.min <= q.max /\ q.max < top(j)
      /\ q.min \in Int /\ q.max \in Int
    BY <1>2, <1>3, InQuadrant
<1>. HIDE DEF top
<1>. QED
    BY <1>3, <1>4, <1>5, <1>6
=============================================================================
