----------------------------- MODULE ClientList ------------------------------
(***************************************************************************)
(* The list of clients in one browser tab (src/www/js/app.js): the poll of  *)
(* every second, the drafts of the site-peer fields that survive it, the    *)
(* clicks, login and logout, with the requests (src/www/js/api.js), the     *)
(* routes and the session (src/lib/Server.js) behind them.                  *)
(*                                                                         *)
(* A request occupies a slot until its answer; the server handles requests, *)
(* and the tab receives answers, in any order.  A handler that changes or   *)
(* deletes a site peer, the tab's or another's, checks, awaits `down',      *)
(* changes the list and awaits `up'; the others change the list in one      *)
(* step.  What the server keeps of a browser is whether its session is      *)
(* authenticated (the store is in memory).  The edits that concern neither  *)
(* AllowedIPs nor masquerading (enable, disable, legacy, name, address) are *)
(* one kind, which sets the label.                                          *)
(***************************************************************************)
EXTENDS Cidr

CONSTANTS
    Ids,          \* ids of clients
    AddressOf,    \* the address each gets when it is created, if no site peer has it
    Cidrs,        \* CIDRs that occur in AllowedIPs
    FirstAllowed, \* those of the client there is at first
    Labels,       \* everything else of a client
    Garbage,      \* a list in which svIsCIDR rejects something
    Drafts,       \* what is typed: [allowed, masq]
    Null, Failed,
    MaxInFlight,  \* bound: requests of the tab that are not answered
    MaxBounces,   \* bound: changes of site peers the server has under way
    MaxClicks,    \* bound: clicks that send a request
    MaxEvents     \* bound: changes by others, restarts, polls that fail

Slots   == 1 .. MaxInFlight
Bounces == 1 .. MaxBounces

ASSUME ListAssumption ==
    /\ AddressOf \in [Ids -> 0 .. 2 ^ Bits[4] - 1]
    /\ \A c \in Cidrs : IsCidr(c)
    /\ FirstAllowed \subseteq Cidrs
    /\ Ids # {} /\ Labels # {}
    /\ {MaxInFlight, MaxBounces, MaxClicks, MaxEvents} \subseteq Nat /\ 1 \in Slots
    /\ \A d \in Drafts : /\ d = [allowed |-> d.allowed, masq |-> d.masq]
                         /\ d.allowed \in {Garbage} \cup SUBSET Cidrs
                         /\ d.masq \in BOOLEAN
    /\ \A a \in SUBSET Cidrs : a # Garbage
    /\ Null # Failed /\ Null \notin BOOLEAN /\ Failed \notin BOOLEAN

VARIABLES
    clients,         \* config.clients
    bounces,         \* the handlers that change a site peer, at their awaits
    session,         \* the browser's session is authenticated
    authenticated,   \* the tab: null, true or false
    authenticating,  \* a login is under way
    rows,            \* the tab: null, or the clients with their drafts
    saving,          \* sitePeerSaving
    net,             \* the requests of the tab
    clicks, events   \* how often, see the bounds

tab  == <<authenticated, authenticating, rows, saving>>
vars == <<clients, bounces, session, tab, net, clicks, events>>

Client == [address: 0 .. 2 ^ Bits[4] - 1, allowed: SUBSET Cidrs, masq: BOOLEAN,
           label: Labels]
Draft  == [allowed: {Garbage} \cup SUBSET Cidrs, masq: BOOLEAN]

NewClient(id) == [address |-> AddressOf[id], allowed |-> {}, masq |-> FALSE,
                  label |-> CHOOSE l \in Labels : TRUE]

\* login: whether the request belongs to the chain of login().
Request(kind, id, body, login) ==
    [kind |-> kind, id |-> id, body |-> body, login |-> login, answer |-> Null]

NoRequest == Request("none", Null, Null, FALSE)
Poll      == Request("poll", Null, Null, FALSE)

\* A handler of setClientSitePeer or deleteClient: the slot it answers (0: not the
\* tab's), the await it is in, what it will do, and what its rollback captured.
NoBounce == [slot |-> 0, at |-> "none", kind |-> "none", id |-> Null, body |-> Null,
             undo |-> Null]

\* The tab was just loaded, with or without the cookie of a session: mounted()
\* asks for it.
Init ==
    /\ clients = [id \in {CHOOSE i \in Ids : TRUE} |->
                    [NewClient(id) EXCEPT !.allowed = FirstAllowed]]
    /\ bounces = [b \in Bounces |-> NoBounce]
    /\ session \in BOOLEAN
    /\ authenticated = Null /\ authenticating = FALSE
    /\ rows = Null /\ saving = {}
    /\ net = [s \in Slots |-> IF s = 1 THEN Request("session", Null, Null, FALSE)
                                       ELSE NoRequest]
    /\ clicks = 0 /\ events = 0

-----------------------------------------------------------------------------
(* The tab: clicks, edits and the timer *)

\* The slot has no meaning: the first free one.
Send(r) ==
    \E s \in Slots :
        /\ net[s].kind = "none"
        /\ \A q \in Slots : q < s => net[q].kind # "none"
        /\ net' = [net EXCEPT ![s] = r]

Click ==
    /\ clicks < MaxClicks /\ clicks' = clicks + 1
    /\ UNCHANGED <<clients, bounces, session, authenticated, rows, events>>

Changes == {"create", "delete", "edit", "site"}

Shown(list) == IF list = Null THEN {} ELSE DOMAIN list

Saved(c) == [allowed |-> c.allowed, masq |-> c.masq]

Listed == IF authenticated = TRUE THEN Shown(rows) ELSE {}

\* setInterval: every second, whether the last poll was answered or not.
Tick ==
    /\ authenticated = TRUE
    /\ Send(Poll)
    /\ UNCHANGED <<clients, bounces, session, tab, clicks, events>>

Login ==
    /\ authenticated = FALSE /\ ~ authenticating
    /\ Send(Request("login", Null, Null, TRUE))
    /\ authenticating' = TRUE
    /\ UNCHANGED saving
    /\ Click

Logout ==
    /\ authenticated = TRUE
    /\ Send(Request("logout", Null, Null, FALSE))
    /\ UNCHANGED <<authenticating, saving>>
    /\ Click

CreateClient ==
    /\ authenticated = TRUE
    /\ Send(Request("create", Null, Null, FALSE))
    /\ UNCHANGED <<authenticating, saving>>
    /\ Click

DeleteClient(id) ==
    /\ id \in Listed
    /\ Send(Request("delete", id, Null, FALSE))
    /\ UNCHANGED <<authenticating, saving>>
    /\ Click

\* enableClient, disableClient, toggleClientLegacy, updateClientName and
\* updateClientAddress, to something else than what is shown
EditClient(id, l) ==
    /\ id \in Listed /\ l # rows[id].client.label
    /\ Send(Request("edit", id, l, FALSE))
    /\ UNCHANGED <<authenticating, saving>>
    /\ Click

Type(id, d) ==
    /\ id \in Listed /\ rows[id].draft # d
    /\ rows' = [rows EXCEPT ![id].draft = d]
    /\ UNCHANGED <<clients, bounces, session, authenticated, authenticating, saving,
                   net, clicks, events>>

SitePeerDirty(row) == row.draft # Saved(row.client)

\* svIsCIDR, which knows no dotted decimals in IPv6.
RefusedByPage(list) == list = Garbage \/ \E c \in list : ~ ReadAsWritten(c)

\* Mutant: the Save button is not disabled while a save is in flight.
SaveClientSitePeer_Again(id) ==
    /\ id \in Listed
    /\ SitePeerDirty(rows[id])
    /\ ~ RefusedByPage(rows[id].draft.allowed)
    /\ Send(Request("site", id, rows[id].draft, FALSE))
    /\ saving' = saving \cup {id}
    /\ UNCHANGED authenticating
    /\ Click

\* Mutant: the draft is sent as it is.
SaveClientSitePeer_Unchecked(id) ==
    /\ id \in Listed /\ id \notin saving
    /\ SitePeerDirty(rows[id])
    /\ Send(Request("site", id, rows[id].draft, FALSE))
    /\ saving' = saving \cup {id}
    /\ UNCHANGED authenticating
    /\ Click

\* A draft that is no list of CIDRs is refused with an alert.
SaveClientSitePeer(id) ==
    /\ id \in Listed /\ id \notin saving
    /\ SitePeerDirty(rows[id])
    /\ ~ RefusedByPage(rows[id].draft.allowed)
    /\ Send(Request("site", id, rows[id].draft, FALSE))
    /\ saving' = saving \cup {id}
    /\ UNCHANGED authenticating
    /\ Click

-----------------------------------------------------------------------------
(* The server *)

\* A request that no handler has begun with.
Waiting(s, kinds) ==
    /\ net[s].kind \in kinds /\ net[s].answer = Null
    /\ \A b \in Bounces : bounces[b].slot # s

Answer(s, a) == net' = [net EXCEPT ![s].answer = a]

\* A UUID nobody has seen.
Fresh(id) ==
    /\ id \notin DOMAIN clients /\ id \notin saving
    /\ \A b \in Bounces : bounces[b].id # id
    /\ id \notin Shown(rows)
    /\ \A s \in Slots : /\ net[s].id # id
                        /\ net[s].kind = "poll" /\ net[s].answer \notin {Null, Failed}
                              => id \notin DOMAIN net[s].answer

With(id, c) == [i \in DOMAIN clients \cup {id} |-> IF i = id THEN c ELSE clients[i]]

Others(id) == {clients[i] : i \in DOMAIN clients \ {id}}

SitePeers == {clients[i] : i \in {j \in DOMAIN clients : clients[j].allowed # {}}}

Without(id) == [i \in DOMAIN clients \ {id} |-> clients[i]]

\* What a handler that bounces nothing may make of the clients: nothing when the
\* session is not authenticated (401), the client is gone (404), the AllowedIPs
\* are refused (400), or a command fails (500, after which the change may also
\* have stayed).
Outcomes(kind, id, body) ==
    {clients} \cup
    CASE kind = "create" ->
            {With(i, NewClient(i)) :
                i \in {j \in Ids : /\ Fresh(j)
                                   /\ ~ FindOverlap(EffectiveCidrs(NewClient(j)), SitePeers)}}
      [] kind = "delete" /\ id \in DOMAIN clients /\ clients[id].allowed = {} ->
            {Without(id)}
      [] kind = "edit" /\ id \in DOMAIN clients ->
            {With(id, [clients[id] EXCEPT !.label = body])}
      [] OTHER -> {}

ChangeClients(s) ==
    /\ Waiting(s, Changes)
    /\ Answer(s, TRUE)
    /\ clients' \in IF session THEN Outcomes(net[s].kind, net[s].id, net[s].body)
                               ELSE {clients}
    /\ UNCHANGED <<bounces, session, tab, clicks, events>>

\* Any AllowedIPs that pass the check, and the deletion of a site peer.
Bounced(kind, id, body) ==
    /\ id \in DOMAIN clients
    /\ \/ kind = "site" /\ ValidClientAllowedIPs(body.allowed, Others(id))
       \/ kind = "delete" /\ clients[id].allowed # {}

\* setClientSitePeer and deleteClient until they await `wg-quick down'.
BounceStarts(s, kind, id, body) ==
    /\ Bounced(kind, id, body)
    /\ \E b \in Bounces :
        /\ bounces[b] = NoBounce
        /\ \A q \in Bounces : q < b => bounces[q] # NoBounce
        /\ bounces' = [bounces EXCEPT
              ![b] = [slot |-> s, at |-> "down", kind |-> kind, id |-> id, body |-> body,
                      undo |-> clients[id]]]

SiteRequest(s) ==
    /\ Waiting(s, {"site", "delete"}) /\ session
    /\ BounceStarts(s, net[s].kind, net[s].id, net[s].body)
    /\ UNCHANGED <<clients, session, tab, net, clicks, events>>

\* What mutate makes of the clients: the object of a client that was deleted
\* meanwhile is in no list.
Mutated(b) ==
    LET h == bounces[b]
    IN IF h.id \notin DOMAIN clients THEN clients
       ELSE IF h.kind = "delete" THEN Without(h.id)
       ELSE With(h.id, [clients[h.id] EXCEPT !.allowed = h.body.allowed,
                                             !.masq = h.body.allowed # {} /\ h.body.masq])

\* ... and what the rollback does.
RolledBack(b) ==
    LET h == bounces[b]
    IN IF h.kind = "delete" THEN IF h.undo = Null THEN clients ELSE With(h.id, h.undo)
       ELSE IF h.id \notin DOMAIN clients THEN clients
       ELSE With(h.id, [clients[h.id] EXCEPT !.allowed = h.undo.allowed,
                                             !.masq = h.undo.masq])

\* A deletion captures only when it mutates; a second one, of a client that is
\* gone, captures undefined (what its rollback does then is in WireGuard, see
\* MCDoubleDelete).
Captured(h) ==
    IF h.kind = "site" THEN h
    ELSE [h EXCEPT !.undo = IF h.id \in DOMAIN clients THEN clients[h.id] ELSE Null]

\* `down' returned.
Mutate(b) ==
    /\ bounces[b].at = "down"
    /\ clients' = Mutated(b)
    /\ bounces' = [bounces EXCEPT ![b] = [Captured(@) EXCEPT !.at = "up"]]
    /\ UNCHANGED <<session, tab, net, clicks, events>>

\* The save is done: `up' accepted the change, or a write failed (500), or `up'
\* refused and the change was rolled back (500).
BounceEnds(b) ==
    /\ bounces[b].at = "up"
    /\ clients' \in {clients, RolledBack(b)}
    /\ bounces' = [bounces EXCEPT ![b] = NoBounce]
    /\ IF bounces[b].slot = 0 THEN UNCHANGED net ELSE Answer(bounces[b].slot, TRUE)
    /\ UNCHANGED <<session, tab, clicks, events>>

\* getClients takes the list before it awaits `wg show wg0 dump'.
GetClients(s) ==
    /\ Waiting(s, {"poll"}) /\ session
    /\ Answer(s, clients)
    /\ UNCHANGED <<clients, bounces, session, tab, clicks, events>>

Unauthorized(s) ==
    /\ Waiting(s, {"poll", "logout"}) /\ ~ session
    /\ Answer(s, Failed)
    /\ UNCHANGED <<clients, bounces, session, tab, clicks, events>>

GetSession(s) ==
    /\ Waiting(s, {"session"})
    /\ Answer(s, session)
    /\ UNCHANGED <<clients, bounces, session, tab, clicks, events>>

\* With the right password, or a wrong one.
CreateSession(s) ==
    /\ Waiting(s, {"login"})
    /\ \/ session' = TRUE /\ Answer(s, TRUE)
       \/ session' = session /\ Answer(s, Failed)
    /\ UNCHANGED <<clients, bounces, tab, clicks, events>>

DestroySession(s) ==
    /\ Waiting(s, {"logout"}) /\ session
    /\ session' = FALSE /\ Answer(s, TRUE)
    /\ UNCHANGED <<clients, bounces, tab, clicks, events>>

\* What happens beside the tab, at most MaxEvents times.
Event == events < MaxEvents /\ events' = events + 1 /\ UNCHANGED <<tab, clicks>>

\* Another administrator, or a script.
OthersBodies(kind) ==
    IF kind = "edit" THEN Labels
    ELSE IF kind = "site" THEN {d \in Drafts : d.allowed # Garbage}
    ELSE {Null}

OthersChange ==
    /\ \E kind \in Changes, id \in Ids : \E body \in OthersBodies(kind) :
          clients' \in Outcomes(kind, id, body) \ {clients}
    /\ Event /\ UNCHANGED <<bounces, session, net>>

OthersSiteRequest ==
    /\ \E kind \in {"site", "delete"}, id \in Ids : \E body \in OthersBodies(kind) :
          BounceStarts(0, kind, id, body)
    /\ Event /\ UNCHANGED <<clients, session, net>>

\* The container restarts: the sessions are gone, and the handlers; wg0.json has
\* the change that one of them was saving, or not yet.
Restart ==
    /\ session \/ \E b \in Bounces : bounces[b] # NoBounce
    /\ session' = FALSE
    /\ clients' \in {clients} \cup {RolledBack(b) : b \in {q \in Bounces : bounces[q].at = "up"}}
    /\ bounces' = [b \in Bounces |-> NoBounce]
    /\ net' = [s \in Slots |->
                  IF \E b \in Bounces : bounces[b].slot = s
                  THEN [net[s] EXCEPT !.answer = Failed] ELSE net[s]]
    /\ Event

\* The connection breaks, or `wg show' fails while the tunnel bounces.  A handler
\* goes on without it.
RequestFails(s) ==
    /\ net[s].kind # "none" /\ net[s].answer # Failed
    /\ Answer(s, Failed)
    /\ bounces' = [b \in Bounces |->
                      IF bounces[b].slot = s THEN [bounces[b] EXCEPT !.slot = 0]
                      ELSE bounces[b]]
    /\ Event /\ UNCHANGED <<clients, session>>

-----------------------------------------------------------------------------
(* The tab: answers *)

Answered(s, kinds) ==
    /\ net[s].kind \in kinds /\ net[s].answer # Null
    /\ UNCHANGED <<clients, bounces, session, clicks, events>>

Then(s, r) == net' = [net EXCEPT ![s] = r]

\* refresh() does nothing unless the tab is authenticated.
Refresh(s, auth, login) ==
    Then(s, IF auth = TRUE THEN [Poll EXCEPT !.login = login] ELSE NoRequest)

\* Mutant: a row that is shown keeps its client as well as its draft.
Refreshed_KeepsClient(old, cs) ==
    [id \in DOMAIN cs |-> IF id \in Shown(old) THEN old[id]
                          ELSE [client |-> cs[id], draft |-> Saved(cs[id])]]

\* Mutant: a draft that equals what was saved follows the server.
Refreshed_Follows(old, cs) ==
    [id \in DOMAIN cs |->
        [client |-> cs[id],
         draft  |-> IF id \in Shown(old) THEN IF SitePeerDirty(old[id]) THEN old[id].draft
                                              ELSE Saved(cs[id])
                    ELSE Saved(cs[id])]]

\* The new list; the draft of a client that was shown is kept.
Refreshed(old, cs) ==
    [id \in DOMAIN cs |->
        [client |-> cs[id],
         draft  |-> IF id \in Shown(old) THEN old[id].draft ELSE Saved(cs[id])]]

\* The tab may have logged out since it asked.
ClientsArrive(s) ==
    /\ Answered(s, {"poll"})
    /\ rows' = IF net[s].answer = Failed THEN rows ELSE Refreshed(rows, net[s].answer)
    /\ authenticating' = (authenticating /\ ~ net[s].login)
    /\ Then(s, NoRequest)
    /\ UNCHANGED <<authenticated, saving>>

\* login() goes on with the session, or ends.
LoginAnswered(s) ==
    /\ Answered(s, {"login"})
    /\ Then(s, IF net[s].answer = Failed THEN NoRequest
               ELSE Request("session", Null, Null, TRUE))
    /\ authenticating' = (net[s].answer # Failed)
    /\ UNCHANGED <<authenticated, rows, saving>>

\* The session of mounted() or of login(); then the first refresh.
SessionArrives(s) ==
    /\ Answered(s, {"session"})
    /\ authenticated' = IF net[s].answer = Failed THEN authenticated ELSE net[s].answer
    /\ IF net[s].answer = Failed THEN Then(s, NoRequest)
       ELSE Refresh(s, authenticated', net[s].login)
    /\ authenticating' = (authenticating /\ (net[s].login => net'[s].login))
    /\ UNCHANGED <<rows, saving>>

LogoutAnswered(s) ==
    /\ Answered(s, {"logout"})
    /\ Then(s, NoRequest)
    /\ IF net[s].answer = Failed THEN UNCHANGED <<authenticated, rows>>
       ELSE authenticated' = FALSE /\ rows' = Null
    /\ UNCHANGED <<authenticating, saving>>

\* Whatever the answer (an error is alerted): refresh.
ChangeAnswered(s) ==
    /\ Answered(s, Changes)
    /\ saving' = saving \ IF net[s].kind = "site" THEN {net[s].id} ELSE {}
    /\ Refresh(s, authenticated, FALSE)
    /\ UNCHANGED <<authenticated, authenticating, rows>>

-----------------------------------------------------------------------------
User ==
    \/ Login \/ Logout \/ CreateClient
    \/ \E id \in Ids : \/ DeleteClient(id) \/ SaveClientSitePeer(id)
                       \/ \E l \in Labels : EditClient(id, l)
                       \/ \E d \in Drafts : Type(id, d)

Handle(s) ==
    \/ ChangeClients(s) \/ SiteRequest(s) \/ GetClients(s) \/ Unauthorized(s) \/ GetSession(s)
    \/ CreateSession(s) \/ DestroySession(s)

Arrive(s) ==
    \/ ClientsArrive(s) \/ LoginAnswered(s) \/ SessionArrives(s)
    \/ LogoutAnswered(s) \/ ChangeAnswered(s)

Serve ==
    \/ \E s \in Slots : Handle(s) \/ Arrive(s)
    \/ \E b \in Bounces : Mutate(b) \/ BounceEnds(b)

Next ==
    \/ User \/ Tick \/ OthersChange \/ OthersSiteRequest \/ Restart \/ Serve
    \/ \E s \in Slots : RequestFails(s)

\* The timer ticks; as long as a request, a command or an answer is under way, one
\* of them goes on, not necessarily each.
Fairness == WF_vars(Tick) /\ WF_vars(Serve)

Spec == Init /\ [][Next]_vars
FairSpec == Spec /\ Fairness

-----------------------------------------------------------------------------
(* Properties *)

Row == [client: Client, draft: Draft]
IsList(cs, T) == DOMAIN cs \subseteq Ids /\ cs \in [DOMAIN cs -> T]

IsAnswer(a, kind) ==
    \/ a = Null
    \/ a = Failed /\ kind # "none"
    \/ kind = "poll" /\ IsList(a, Client)
    \/ kind \in {"session", "login", "logout"} /\ a \in BOOLEAN
    \/ kind \in Changes /\ a = TRUE

IsBody(kind, id, body) ==
    \/ kind \in {"none", "session", "login", "logout", "poll", "create"}
       /\ id = Null /\ body = Null
    \/ kind = "delete" /\ id \in Ids /\ body = Null
    \/ kind = "edit" /\ id \in Ids /\ body \in Labels
    \/ kind = "site" /\ id \in Ids /\ body \in Draft /\ body.allowed # Garbage

IsRequest(r) ==
    /\ r = [kind |-> r.kind, id |-> r.id, body |-> r.body, login |-> r.login,
            answer |-> r.answer]
    /\ IsBody(r.kind, r.id, r.body) /\ IsAnswer(r.answer, r.kind)
    /\ r.login \in BOOLEAN /\ (r.kind = "login" => r.login)
    /\ r.login => r.kind \in {"login", "session", "poll"}

IsBounce(h) ==
    \/ h = NoBounce
    \/ /\ h = [slot |-> h.slot, at |-> h.at, kind |-> h.kind, id |-> h.id,
                body |-> h.body, undo |-> h.undo]
       /\ h.at \in {"down", "up"} /\ h.kind \in {"site", "delete"}
       /\ IsBody(h.kind, h.id, h.body)
       /\ h.undo \in Client \/ (h.undo = Null /\ h.kind = "delete")
       /\ h.slot \in Slots \cup {0}

TabOK ==
    /\ authenticating \in BOOLEAN /\ authenticated \in BOOLEAN \cup {Null}
    /\ rows = Null \/ IsList(rows, Row)
    /\ saving \subseteq Ids
NetOK      == DOMAIN net = Slots /\ \A s \in Slots : IsRequest(net[s])
CountersOK == clicks \in 0 .. MaxClicks /\ events \in 0 .. MaxEvents
BouncesOK  == DOMAIN bounces = Bounces /\ \A b \in Bounces : IsBounce(bounces[b])

\* The request a handler answers waits for it, and for no other.
AwaitedOK ==
    \A b \in Bounces : bounces[b].slot # 0 =>
        /\ net[bounces[b].slot].kind = bounces[b].kind
        /\ net[bounces[b].slot].answer = Null
        /\ \A q \in Bounces : bounces[q].slot = bounces[b].slot => q = b

ListTypeOK ==
    /\ IsList(clients, Client) /\ BouncesOK /\ AwaitedOK
    /\ session \in BOOLEAN /\ TabOK /\ NetOK /\ CountersOK

\* No address is in the AllowedIPs of two site peers: the interval test of
\* cidrRange and overlaps finds every pair that shares an address, at any
\* prefix, host bits set or not, and what it found is still so after `down' and
\* after a rollback.  It needs one such change at a time (MCSiteRace) and no
\* IPv6 address with dotted decimals (MCDottedCidr).
Disjoint(cs) ==
    \A i, j \in DOMAIN cs : i # j =>
        \A a \in cs[i].allowed, b \in cs[j].allowed : a.v = b.v => ~ ShareAddress(a, b)
SitePeersDisjoint == Disjoint(clients)

\* sitePeerSaving is true of the clients a save is in flight for, and of each
\* there is one; authenticating is true while a login goes on.
SavesMatch(n, ids) ==
    /\ ids = {n[s].id : s \in {q \in Slots : n[q].kind = "site"}}
    /\ \A s, q \in Slots :
          n[s].kind = "site" /\ n[q].kind = "site" /\ n[s].id = n[q].id => s = q
LoginMatches(n, flag) ==
    /\ flag <=> \E s \in Slots : n[s].login
    /\ \A s, q \in Slots : n[s].login /\ n[q].login => s = q
FlagsMatchRequests == SavesMatch(net, saving) /\ LoginMatches(net, authenticating)

\* What the user typed stays typed: an answer never changes the draft of a
\* client that is shown before and after it ("Preserve in-progress site-peer
\* edits across the 1s refresh").
DraftsKept ==
    [][\A id \in Ids :
          id \in Shown(rows) /\ id \in Shown(rows)' /\ net' # net
              => rows'[id].draft = rows[id].draft]_vars

\* ... and a client whose draft differs from what is saved stays in the list as
\* long as the server has it and the user is logged in.
DirtyRowStays ==
    [][\A id \in Listed \cap DOMAIN clients :
          SitePeerDirty(rows[id]) /\ authenticated' = TRUE
              => id \in Shown(rows)']_vars

\* The list shows the clients of the server.
Current == rows # Null /\ clients = [id \in DOMAIN rows |-> rows[id].client]

\* Once nothing changes any more, the tab of a user who is logged in comes to
\* show what the server has, and goes on showing it, whatever answers were lost
\* or overtook each other before.
Converges == <>[](authenticated = TRUE /\ session => Current)
=============================================================================
