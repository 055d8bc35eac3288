-------------------------- MODULE ClientListProofs ---------------------------
(***************************************************************************)
(* For any clients, CIDRs, drafts and bounds: ClientList keeps its types,   *)
(* the flags of the tab match its requests, and drafts survive every        *)
(* answer.  The AllowedIPs of site peers stay disjoint if one of them is    *)
(* changed at a time and every CIDR is read as it is written.               *)
(*                                                                         *)
(* The disjointness rests on the interval test of                           *)
(* src/lib/clientValidation.js, which is right for every address it reads   *)
(* as written, every prefix and every width: two ranges overlap exactly     *)
(* when some address agrees with both CIDRs in their prefixes.              *)
(***************************************************************************)
EXTENDS ClientList, TLAPS

-----------------------------------------------------------------------------
(* The interval test *)

LEMMA BlockPositive ==
    ASSUME NEW c, IsCidr(c)
    PROVE  /\ BlockSize(c) \in Nat \ {0}
           /\ c.ip \in Nat /\ c.v \in Families /\ 2 ^ Bits[c.v] \in Nat \ {0}
           /\ c.ip < 2 ^ Bits[c.v]
<1>1. /\ c.v \in Families /\ Bits[c.v] \in Nat /\ c.prefix \in 0 .. Bits[c.v]
      /\ c.ip \in 0 .. 2 ^ Bits[c.v] - 1
    BY CidrAssumption DEF IsCidr, Families
<1>2. /\ Bits[c.v] - c.prefix \in 0 .. Bits[c.v]
      /\ Bits[c.v] \in 0 .. Bits[c.v]
    BY <1>1
<1>3. 2 ^ (Bits[c.v] - c.prefix) \in Nat \ {0} /\ 2 ^ Bits[c.v] \in Nat \ {0}
    BY <1>1, <1>2, PowerAssumption
<1>. QED
    BY <1>1, <1>3 DEF BlockSize

LEMMA DivBlock ==
    ASSUME NEW B \in Nat \ {0}, NEW x \in Nat, NEW ip \in Nat
    PROVE  x \div B = ip \div B <=>
              /\ (ip \div B) * B <= x
              /\ x <= (ip \div B) * B + (B - 1)
OBVIOUS

\* The range of a CIDR starts at or below the address it is written with, and
\* holds exactly the addresses that agree with it.
LEMMA RangeHolds ==
    ASSUME NEW c, IsCidr(c), ReadAsWritten(c), NEW x \in Nat
    PROVE  LET r == CidrRange(c)
           IN /\ r.v = c.v /\ r.lo \in Nat /\ r.hi \in Nat
              /\ r.lo <= c.ip /\ r.lo <= r.hi
              /\ Matches(c.v, x, c) <=> r.lo <= x /\ x <= r.hi
<1>. DEFINE B == BlockSize(c)
            r == CidrRange(c)
<1>1. B \in Nat \ {0} /\ c.ip \in Nat
    BY BlockPositive
<1>2. /\ r.v = c.v
      /\ r.lo = (c.ip \div B) * B
      /\ r.hi = (c.ip \div B) * B + (B - 1)
    BY DEF CidrRange, ReadAsWritten
<1>3. /\ (c.ip \div B) * B \in Nat /\ (c.ip \div B) * B <= c.ip
      /\ c.ip <= (c.ip \div B) * B + (B - 1)
    <2>. HIDE DEF B
    <2>. QED  BY <1>1
<1>4. x \div B = c.ip \div B <=> r.lo <= x /\ x <= r.hi
    <2>1. x \div B = c.ip \div B <=> /\ (c.ip \div B) * B <= x
                                     /\ x <= (c.ip \div B) * B + (B - 1)
        <3>. HIDE DEF B
        <3>. QED  BY <1>1, DivBlock
    <2>. HIDE DEF B, r
    <2>. QED  BY <1>2, <2>1, Zenon
<1>5. r.lo \in Nat /\ r.hi \in Nat /\ r.lo <= c.ip /\ r.lo <= r.hi
    <2>. HIDE DEF B, r
    <2>. QED  BY <1>1, <1>2, <1>3
<1>. QED
    BY <1>2, <1>4, <1>5 DEF Matches

\* overlaps(cidrRange(a), cidrRange(b)) says whether an address is in both, if the
\* code reads both as they are written.
THEOREM OverlapsIffShared ==
    ASSUME NEW a, IsCidr(a), ReadAsWritten(a), NEW b, IsCidr(b), ReadAsWritten(b),
           a.v = b.v
    PROVE  Overlaps(CidrRange(a), CidrRange(b)) <=> ShareAddress(a, b)
<1>. DEFINE r == CidrRange(a)
            q == CidrRange(b)
<1>1. /\ r.v = a.v /\ r.lo \in Nat /\ r.hi \in Nat /\ r.lo <= a.ip /\ r.lo <= r.hi
      /\ q.v = b.v /\ q.lo \in Nat /\ q.hi \in Nat /\ q.lo <= b.ip /\ q.lo <= q.hi
      /\ \A x \in Nat : /\ Matches(a.v, x, a) <=> r.lo <= x /\ x <= r.hi
                        /\ Matches(b.v, x, b) <=> q.lo <= x /\ x <= q.hi
    BY RangeHolds, 0 \in Nat
<1>2. /\ a.ip < 2 ^ Bits[a.v] /\ b.ip < 2 ^ Bits[a.v]
      /\ a.ip \in Nat /\ b.ip \in Nat /\ 2 ^ Bits[a.v] \in Nat
    BY BlockPositive
<1>3. ASSUME Overlaps(r, q)  PROVE ShareAddress(a, b)
    <2>. HIDE DEF r, q
    <2>. DEFINE x == IF r.lo <= q.lo THEN q.lo ELSE r.lo
    <2>1. /\ x \in 0 .. 2 ^ Bits[a.v] - 1
          /\ r.lo <= x /\ x <= r.hi /\ q.lo <= x /\ x <= q.hi
        BY <1>1, <1>2, <1>3 DEF Overlaps
    <2>2. Matches(a.v, x, a) /\ Matches(a.v, x, b)
        <3>. HIDE DEF x
        <3>. QED  BY <1>1, <2>1
    <2>. QED
        BY <2>1, <2>2 DEF ShareAddress
<1>4. ASSUME ShareAddress(a, b)  PROVE Overlaps(r, q)
    <2>1. PICK x \in 0 .. 2 ^ Bits[a.v] - 1 : Matches(a.v, x, a) /\ Matches(a.v, x, b)
        BY <1>4 DEF ShareAddress
    <2>2. x \in Nat
        BY <2>1, <1>2
    <2>. HIDE DEF r, q
    <2>. QED
        BY <1>1, <2>1, <2>2 DEF Overlaps
<1>. QED
    BY <1>3, <1>4

\* A list validateClientAllowedIPs accepts shares no address with what any
\* other peer is given, if all of them are read as they are written.
THEOREM AcceptedIsDisjoint ==
    ASSUME NEW allowed, NEW others,
           \A c \in allowed : IsCidr(c) /\ ReadAsWritten(c),
           \A o \in others : \A c \in EffectiveCidrs(o) : IsCidr(c) /\ ReadAsWritten(c),
           ValidClientAllowedIPs(allowed, others)
    PROVE  \A o \in others : \A c \in EffectiveCidrs(o), d \in allowed :
               c.v = d.v => ~ ShareAddress(d, c)
BY OverlapsIffShared DEF ValidClientAllowedIPs, FindOverlap

-----------------------------------------------------------------------------
(* The clients of the server *)

LEMMA NewClientOK ==
    ASSUME NEW id \in Ids
    PROVE  NewClient(id) \in Client
BY ListAssumption DEF NewClient, Client

\* Both a new client and a changed one are put into the list by With.
LEMMA WithOK ==
    ASSUME IsList(clients, Client), NEW id \in Ids, NEW c \in Client
    PROVE  IsList(With(id, c), Client)
BY DEF IsList, With

LEMMA WithoutOK ==
    ASSUME IsList(clients, Client), NEW id
    PROVE  IsList(Without(id), Client)
BY DEF IsList, Without

\* What a request for a change carries.
ChangeBody(kind, id, body) ==
    /\ kind \in Changes
    /\ kind # "create" => id \in Ids
    /\ kind = "edit" => body \in Labels
    /\ kind = "site" => body \in Draft /\ body.allowed # Garbage

LEMMA SiteChange ==
    ASSUME IsList(clients, Client), NEW id \in DOMAIN clients,
           NEW body \in Draft, body.allowed # Garbage
    PROVE  [clients[id] EXCEPT !.allowed = body.allowed,
                               !.masq = body.allowed # {} /\ body.masq] \in Client
<1>1. clients[id] \in Client
    BY DEF IsList
<1>2. body.allowed \in SUBSET Cidrs /\ (body.allowed # {} /\ body.masq) \in BOOLEAN
    BY DEF Draft
<1>. QED
    BY <1>1, <1>2 DEF Client

LEMMA OutcomesOK ==
    ASSUME IsList(clients, Client), NEW kind, NEW id, NEW body,
           ChangeBody(kind, id, body), NEW cs \in Outcomes(kind, id, body)
    PROVE  IsList(cs, Client)
<1>1. CASE cs = clients
    BY <1>1
<1>2. CASE kind = "create" /\ cs # clients
    <2>1. PICK i \in Ids : cs = With(i, NewClient(i))
        BY <1>2 DEF Outcomes
    <2>. QED
        BY <2>1, NewClientOK, WithOK
<1>3. CASE kind # "create" /\ id \notin DOMAIN clients /\ cs # clients
    BY <1>3 DEF Outcomes, ChangeBody, Changes
<1>4. CASE kind = "delete" /\ id \in DOMAIN clients /\ cs # clients
    <2>1. cs = Without(id)
        BY <1>4 DEF Outcomes
    <2>. QED
        BY <2>1, WithoutOK
<1>5. CASE kind = "edit" /\ id \in DOMAIN clients /\ cs # clients
    <2>1. cs = With(id, [clients[id] EXCEPT !.label = body])
        BY <1>5 DEF Outcomes
    <2>2. clients[id] \in Client /\ id \in Ids /\ body \in Labels
        BY <1>5 DEF IsList, ChangeBody
    <2>3. [clients[id] EXCEPT !.label = body] \in Client
        BY <2>2 DEF Client
    <2>. QED
        BY <2>1, <2>2, <2>3, WithOK
<1>6. CASE kind = "site" /\ cs # clients
    BY <1>6 DEF Outcomes
<1>. QED
    BY <1>1, <1>2, <1>3, <1>4, <1>5, <1>6 DEF ChangeBody, Changes

(* The AllowedIPs of site peers *)

LEMMA ShareSymmetric ==
    ASSUME NEW a, NEW b, a.v = b.v, ShareAddress(a, b)
    PROVE  ShareAddress(b, a)
BY DEF ShareAddress

\* No CIDR has dotted decimals that the code reads wrong.
CidrsAreRead == \A c \in Cidrs : ReadAsWritten(c)

\* Every CIDR a client is given is one, and read right.
LEMMA EffectiveIsCidr ==
    ASSUME CidrsAreRead, NEW c \in Client, NEW d \in EffectiveCidrs(c)
    PROVE  IsCidr(d) /\ ReadAsWritten(d)
<1>1. CASE c.allowed # {}
    <2>1. d \in Cidrs
        BY <1>1 DEF EffectiveCidrs, Client
    <2>. QED
        BY <2>1, ListAssumption DEF CidrsAreRead
<1>2. CASE c.allowed = {}
    <2>1. /\ d = [v |-> 4, ip |-> c.address, read |-> c.address, prefix |-> Bits[4]]
          /\ c.address \in 0 .. 2 ^ Bits[4] - 1
        BY <1>2 DEF EffectiveCidrs, Client
    <2>2. 4 \in Families /\ Bits[4] \in 0 .. Bits[4]
        BY CidrAssumption
    <2>. QED
        BY <2>1, <2>2 DEF IsCidr, ReadAsWritten
<1>. QED
    BY <1>1, <1>2

\* The change of a site peer, the only one that brings CIDRs in.
LEMMA SiteChangeDisjoint ==
    ASSUME CidrsAreRead, IsList(clients, Client), Disjoint(clients),
           NEW id \in DOMAIN clients, NEW c \in Client,
           ValidClientAllowedIPs(c.allowed, Others(id))
    PROVE  Disjoint(With(id, c))
<1>. DEFINE cs == With(id, c)
<1>1. /\ DOMAIN cs = DOMAIN clients /\ cs[id] = c
      /\ \A i \in DOMAIN clients \ {id} : cs[i] = clients[i]
    BY DEF With
<1>2. ASSUME NEW j \in DOMAIN clients \ {id}, NEW a \in c.allowed,
             NEW b \in clients[j].allowed, a.v = b.v
      PROVE  ~ ShareAddress(a, b)
    <2>1. clients[j] \in Client /\ clients[j] \in Others(id)
        BY <1>2 DEF IsList, Others
    <2>2. b \in EffectiveCidrs(clients[j])
        BY <1>2 DEF EffectiveCidrs
    <2>3. \A x \in c.allowed : IsCidr(x) /\ ReadAsWritten(x)
        BY ListAssumption DEF Client, CidrsAreRead
    <2>4. \A o \in Others(id) : \A x \in EffectiveCidrs(o) : IsCidr(x) /\ ReadAsWritten(x)
        BY EffectiveIsCidr DEF Others, IsList
    <2>. QED
        BY <1>2, <2>1, <2>2, <2>3, <2>4, AcceptedIsDisjoint
<1>3. SUFFICES ASSUME NEW i \in DOMAIN cs, NEW j \in DOMAIN cs, i # j,
                      NEW a \in cs[i].allowed, NEW b \in cs[j].allowed, a.v = b.v
               PROVE  ~ ShareAddress(a, b)
    BY DEF Disjoint
<1>. HIDE DEF cs
<1>4. CASE i = id
    BY <1>1, <1>2, <1>3, <1>4
<1>5. CASE j = id
    <2>1. ~ ShareAddress(b, a)
        BY <1>1, <1>2, <1>3, <1>5
    <2>. QED
        BY <1>3, <2>1, ShareSymmetric
<1>6. CASE i # id /\ j # id
    BY <1>1, <1>3, <1>6 DEF Disjoint
<1>. QED
    BY <1>4, <1>5, <1>6

\* A list that gives a client nothing, or what a disjoint list gives it.
LEMMA SameCidrs ==
    ASSUME NEW ds, Disjoint(ds), NEW cs,
           \A i \in DOMAIN cs : cs[i].allowed = {} \/
               (i \in DOMAIN ds /\ cs[i].allowed = ds[i].allowed)
    PROVE  Disjoint(cs)
BY DEF Disjoint

-----------------------------------------------------------------------------
(* Types *)

LEMMA RequestsOK ==
    /\ IsRequest(NoRequest) /\ IsRequest(Poll)
    /\ \A b \in BOOLEAN : /\ IsRequest([Poll EXCEPT !.login = b])
                          /\ IsRequest(Request("session", Null, Null, b))
    /\ IsRequest(Request("login", Null, Null, TRUE))
    /\ IsRequest(Request("logout", Null, Null, FALSE))
    /\ IsRequest(Request("create", Null, Null, FALSE))
    /\ \A id \in Ids : IsRequest(Request("delete", id, Null, FALSE))
    /\ \A id \in Ids, l \in Labels : IsRequest(Request("edit", id, l, FALSE))
    /\ \A id \in Ids, d \in Draft :
          d.allowed # Garbage => IsRequest(Request("site", id, d, FALSE))
BY DEF IsRequest, IsBody, IsAnswer, Request, NoRequest, Poll

LEMMA ThenOK ==
    ASSUME NetOK, NEW s \in Slots, NEW r, IsRequest(r), Then(s, r)
    PROVE  NetOK'
BY DEF NetOK, Then

LEMMA SendOK ==
    ASSUME NetOK, NEW r, IsRequest(r), Send(r)
    PROVE  NetOK'
BY DEF NetOK, Send

LEMMA AnswerOK ==
    ASSUME NetOK, NEW s \in Slots, NEW a, IsAnswer(a, net[s].kind), Answer(s, a)
    PROVE  NetOK'
<1>1. IsRequest(net[s])
    BY DEF NetOK
<1>2. IsRequest([net[s] EXCEPT !.answer = a])
    BY <1>1 DEF IsRequest
<1>3. net' = [net EXCEPT ![s] = [net[s] EXCEPT !.answer = a]]
    BY DEF Answer
<1>. QED
    BY <1>2, <1>3, ThenOK DEF Then

LEMMA RefreshOK ==
    ASSUME NetOK, NEW s \in Slots, NEW auth, NEW login \in BOOLEAN, Refresh(s, auth, login)
    PROVE  NetOK'
BY RequestsOK, ThenOK DEF Refresh

\* The slot that a handler of the tab's answers has a request for its change.
LEMMA AwaitedKinds ==
    ASSUME ListTypeOK, NEW b \in Bounces, NEW s \in Slots, bounces[b].slot = s
    PROVE  /\ bounces[b].kind \in {"site", "delete"} /\ net[s].kind = bounces[b].kind
           /\ net[s].answer = Null
<1>1. s # 0
    BY DEF Slots
<1>2. IsBounce(bounces[b]) /\ bounces[b] # NoBounce
    BY <1>1 DEF ListTypeOK, BouncesOK, NoBounce
<1>. QED
    BY <1>1, <1>2 DEF ListTypeOK, AwaitedOK, IsBounce

LEMMA NetInductive ==
    ASSUME ListTypeOK, [Next]_vars
    PROVE  NetOK'
<1>. USE DEF ListTypeOK
<1>1. ASSUME Tick  PROVE NetOK'
    BY <1>1, RequestsOK, SendOK DEF Tick
<1>2. ASSUME Login  PROVE NetOK'
    BY <1>2, RequestsOK, SendOK DEF Login
<1>3. ASSUME Logout  PROVE NetOK'
    BY <1>3, RequestsOK, SendOK DEF Logout
<1>4. ASSUME CreateClient  PROVE NetOK'
    BY <1>4, RequestsOK, SendOK DEF CreateClient
<1>5. ASSUME NEW id \in Ids, DeleteClient(id)  PROVE NetOK'
    BY <1>5, RequestsOK, SendOK DEF DeleteClient
<1>6. ASSUME NEW id \in Ids, NEW l \in Labels, EditClient(id, l)  PROVE NetOK'
    BY <1>6, RequestsOK, SendOK DEF EditClient
<1>7. ASSUME NEW id \in Ids, SaveClientSitePeer(id)  PROVE NetOK'
    <2>1. rows[id] \in Row
        BY <1>7 DEF SaveClientSitePeer, Listed, Shown, TabOK, IsList
    <2>2. rows[id].draft \in Draft /\ rows[id].draft.allowed # Garbage
        BY <1>7, <2>1 DEF SaveClientSitePeer, RefusedByPage, Row
    <2>. QED
        BY <1>7, <2>2, RequestsOK, SendOK DEF SaveClientSitePeer
<1>8. ASSUME UNCHANGED net  PROVE NetOK'
    BY <1>8 DEF NetOK
<1>9. ASSUME NEW s \in Slots, ChangeClients(s)  PROVE NetOK'
    BY <1>9, AnswerOK DEF ChangeClients, Waiting, IsAnswer
<1>10. ASSUME NEW s \in Slots, GetClients(s)  PROVE NetOK'
    BY <1>10, AnswerOK DEF GetClients, Waiting, IsAnswer
<1>11. ASSUME NEW s \in Slots, Unauthorized(s)  PROVE NetOK'
    BY <1>11, AnswerOK DEF Unauthorized, Waiting, IsAnswer
<1>12. ASSUME NEW s \in Slots, GetSession(s)  PROVE NetOK'
    BY <1>12, AnswerOK DEF GetSession, Waiting, IsAnswer
<1>13. ASSUME NEW s \in Slots, CreateSession(s)  PROVE NetOK'
    <2>1. net[s].kind = "login" /\ (Answer(s, TRUE) \/ Answer(s, Failed))
        BY <1>13 DEF CreateSession, Waiting
    <2>2. IsAnswer(TRUE, net[s].kind) /\ IsAnswer(Failed, net[s].kind)
        BY <2>1 DEF IsAnswer
    <2>. QED
        BY <2>1, <2>2, AnswerOK
<1>14. ASSUME NEW s \in Slots, DestroySession(s)  PROVE NetOK'
    BY <1>14, AnswerOK DEF DestroySession, Waiting, IsAnswer
<1>15. ASSUME NEW s \in Slots, RequestFails(s)  PROVE NetOK'
    BY <1>15, AnswerOK DEF RequestFails, IsAnswer
<1>16. ASSUME NEW s \in Slots, ClientsArrive(s)  PROVE NetOK'
    BY <1>16, RequestsOK, ThenOK DEF ClientsArrive
<1>17. ASSUME NEW s \in Slots, LoginAnswered(s)  PROVE NetOK'
    BY <1>17, RequestsOK, ThenOK DEF LoginAnswered
<1>18. ASSUME NEW s \in Slots, SessionArrives(s)  PROVE NetOK'
    <2>1. net[s].login \in BOOLEAN
        BY DEF NetOK, IsRequest
    <2>. QED
        BY <1>18, <2>1, RequestsOK, ThenOK, RefreshOK DEF SessionArrives
<1>19. ASSUME NEW s \in Slots, LogoutAnswered(s)  PROVE NetOK'
    BY <1>19, RequestsOK, ThenOK DEF LogoutAnswered
<1>20. ASSUME NEW s \in Slots, ChangeAnswered(s)  PROVE NetOK'
    BY <1>20, RefreshOK DEF ChangeAnswered
<1>21. ASSUME NEW b \in Bounces, BounceEnds(b)  PROVE NetOK'
    <2>1. CASE bounces[b].slot = 0
        BY <1>8, <1>21, <2>1 DEF BounceEnds
    <2>2. CASE bounces[b].slot # 0
        <3>. DEFINE s == bounces[b].slot
        <3>1. IsBounce(bounces[b]) /\ bounces[b] # NoBounce
            BY <1>21 DEF BouncesOK, BounceEnds, NoBounce
        <3>2. s \in Slots /\ net[s].kind \in Changes
            BY <2>2, <3>1 DEF IsBounce, AwaitedOK, Changes
        <3>3. Answer(s, TRUE)
            BY <1>21, <2>2 DEF BounceEnds
        <3>4. IsAnswer(TRUE, net[s].kind)
            BY <3>2 DEF IsAnswer
        <3>. QED
            BY <3>2, <3>3, <3>4, AnswerOK
    <2>. QED
        BY <2>1, <2>2
<1>22. ASSUME Restart  PROVE NetOK'
    <2>1. net' = [s \in Slots |-> IF \E b \in Bounces : bounces[b].slot = s
                                  THEN [net[s] EXCEPT !.answer = Failed] ELSE net[s]]
        BY <1>22 DEF Restart
    <2>2. ASSUME NEW s \in Slots  PROVE IsRequest(net'[s])
        <3>1. CASE \E b \in Bounces : bounces[b].slot = s
            <4>1. IsRequest(net[s]) /\ net[s].kind # "none"
                BY <3>1, AwaitedKinds DEF NetOK
            <4>2. IsRequest([net[s] EXCEPT !.answer = Failed])
                BY <4>1 DEF IsRequest, IsAnswer
            <4>. QED
                BY <2>1, <3>1, <4>2
        <3>2. CASE ~ \E b \in Bounces : bounces[b].slot = s
            BY <2>1, <3>2 DEF NetOK
        <3>. QED
            BY <3>1, <3>2
    <2>. QED
        BY <2>1, <2>2 DEF NetOK
<1>23. ASSUME \/ OthersSiteRequest \/ OthersChange
              \/ \E s \in Slots : SiteRequest(s)
              \/ \E b \in Bounces : Mutate(b)
       PROVE  NetOK'
    BY <1>8, <1>23 DEF OthersSiteRequest, OthersChange, SiteRequest, Mutate
<1>. QED
    BY <1>1, <1>2, <1>3, <1>4, <1>5, <1>6, <1>7, <1>8, <1>9, <1>10, <1>11, <1>12, <1>13,
       <1>14, <1>15, <1>16, <1>17, <1>18, <1>19, <1>20, <1>21, <1>22, <1>23
       DEF Next, User, Serve, Handle, Arrive, Type, vars

LEMMA RefreshedOK ==
    ASSUME NEW old, old = Null \/ IsList(old, Row), NEW cs, IsList(cs, Client)
    PROVE  IsList(Refreshed(old, cs), Row)
<1>. DEFINE new == Refreshed(old, cs)
<1>1. /\ DOMAIN new = DOMAIN cs
      /\ \A id \in DOMAIN cs :
            new[id] = [client |-> cs[id],
                       draft  |-> IF id \in Shown(old) THEN old[id].draft ELSE Saved(cs[id])]
    BY DEF Refreshed
<1>2. ASSUME NEW id \in DOMAIN cs  PROVE new[id] \in Row
    <2>1. cs[id] \in Client
        BY DEF IsList
    <2>2. Saved(cs[id]) \in Draft
        BY <2>1 DEF Saved, Client, Draft
    <2>3. id \in Shown(old) => old[id].draft \in Draft
        BY DEF Shown, IsList, Row
    <2>. HIDE DEF new
    <2>. QED
        BY <1>1, <2>1, <2>2, <2>3 DEF Row
<1>3. new = [id \in DOMAIN new |-> new[id]]
    BY DEF Refreshed
<1>. HIDE DEF new
<1>4. new \in [DOMAIN new -> Row]
    BY <1>1, <1>2, <1>3
<1>5. IsList(new, Row)
    BY <1>1, <1>4 DEF IsList
<1>. QED
    BY <1>5 DEF new

\* What an answer can be, by the kind of its request.
LEMMA AnswersOK ==
    ASSUME NetOK, NEW s \in Slots, net[s].answer # Null
    PROVE  /\ net[s].kind = "poll" => net[s].answer = Failed \/ IsList(net[s].answer, Client)
           /\ net[s].kind = "session" => net[s].answer \in BOOLEAN \cup {Failed}
           /\ net[s].login \in BOOLEAN
           /\ net[s].kind \in Changes => ~ net[s].login
           /\ net[s].kind = "site" => net[s].id \in Ids
BY DEF NetOK, IsRequest, IsAnswer, IsBody, Changes

LEMMA TabInductive ==
    ASSUME ListTypeOK, [Next]_vars
    PROVE  TabOK'
<1>. USE DEF ListTypeOK
<1>1. ASSUME UNCHANGED tab  PROVE TabOK'
    BY <1>1 DEF TabOK, tab
<1>2. ASSUME UNCHANGED <<authenticated, rows>>, authenticating' \in BOOLEAN,
             saving' \subseteq Ids
      PROVE  TabOK'
    BY <1>2 DEF TabOK
<1>3. ASSUME Login  PROVE TabOK'
    BY <1>2, <1>3 DEF Login, Click, TabOK
<1>4. ASSUME Logout \/ CreateClient  PROVE TabOK'
    BY <1>2, <1>4 DEF Logout, CreateClient, Click, TabOK
<1>5. ASSUME NEW id \in Ids, DeleteClient(id) \/ \E l \in Labels : EditClient(id, l)
      PROVE  TabOK'
    BY <1>2, <1>5 DEF DeleteClient, EditClient, Click, TabOK
<1>6. ASSUME NEW id \in Ids, SaveClientSitePeer(id)  PROVE TabOK'
    BY <1>2, <1>6 DEF SaveClientSitePeer, Click, TabOK
<1>7. ASSUME NEW id \in Ids, NEW d \in Drafts, Type(id, d)  PROVE TabOK'
    <2>1. /\ IsList(rows, Row) /\ id \in DOMAIN rows
          /\ rows' = [rows EXCEPT ![id] = [@ EXCEPT !.draft = d]]
          /\ UNCHANGED <<authenticated, authenticating, saving>>
        BY <1>7 DEF Type, Listed, Shown, TabOK
    <2>2. d \in Draft
        BY ListAssumption DEF Draft
    <2>3. rows[id] \in Row
        BY <2>1 DEF IsList
    <2>4. [rows[id] EXCEPT !.draft = d] \in Row
        BY <2>2, <2>3 DEF Row
    <2>5. IsList(rows', Row)
        BY <2>1, <2>4 DEF IsList
    <2>. QED
        BY <2>1, <2>5 DEF TabOK
<1>8. ASSUME NEW s \in Slots, ClientsArrive(s)  PROVE TabOK'
    <2>1. rows' = Null \/ IsList(rows', Row)
        BY <1>8, AnswersOK, RefreshedOK DEF ClientsArrive, Answered, TabOK
    <2>2. /\ UNCHANGED <<authenticated, saving>>
          /\ authenticating' = (authenticating /\ ~ net[s].login)
        BY <1>8 DEF ClientsArrive
    <2>. QED
        BY <2>1, <2>2 DEF TabOK
<1>9. ASSUME NEW s \in Slots, LoginAnswered(s)  PROVE TabOK'
    BY <1>2, <1>9 DEF LoginAnswered, TabOK
<1>10. ASSUME NEW s \in Slots, SessionArrives(s)  PROVE TabOK'
    <2>1. /\ authenticating' = (authenticating /\ (net[s].login => net'[s].login))
          /\ UNCHANGED <<rows, saving>>
          /\ authenticated' \in {authenticated, net[s].answer}
          /\ net[s].answer = Failed => authenticated' = authenticated
          /\ net[s].answer \in BOOLEAN \cup {Failed}
        BY <1>10, AnswersOK DEF SessionArrives, Answered
    <2>2. authenticated' \in BOOLEAN \cup {Null}
        BY <2>1 DEF TabOK
    <2>3. authenticating' \in BOOLEAN
        BY <2>1
    <2>. QED
        BY <2>1, <2>2, <2>3 DEF TabOK
<1>11. ASSUME NEW s \in Slots, LogoutAnswered(s)  PROVE TabOK'
    BY <1>11 DEF LogoutAnswered, TabOK
<1>12. ASSUME NEW s \in Slots, ChangeAnswered(s)  PROVE TabOK'
    BY <1>2, <1>12 DEF ChangeAnswered, TabOK
<1>. QED
    BY <1>1, <1>3, <1>4, <1>5, <1>6, <1>7, <1>8, <1>9, <1>10, <1>11, <1>12
       DEF Next, User, Serve, Handle, Arrive, Tick, OthersChange, OthersSiteRequest, Restart,
           RequestFails, Event, ChangeClients, SiteRequest, Mutate, BounceEnds, GetClients,
           Unauthorized, GetSession, CreateSession, DestroySession, vars

\* Who changes the clients or the handlers' state.
LEMMA StepKinds ==
    ASSUME ListTypeOK, [Next]_vars
    PROVE  \/ UNCHANGED <<clients, bounces>>
           \/ /\ bounces' = bounces
              /\ \E kind, id, body :
                    ChangeBody(kind, id, body) /\ clients' \in Outcomes(kind, id, body)
           \/ /\ clients' = clients
              /\ \E s \in Slots \cup {0} : \E kind, id, body :
                    IsBody(kind, id, body) /\ BounceStarts(s, kind, id, body)
           \/ \E b \in Bounces : Mutate(b) \/ BounceEnds(b)
           \/ Restart
           \/ \E s \in Slots : RequestFails(s)
<1>1. ASSUME NEW s \in Slots, ChangeClients(s), clients' # clients
      PROVE  /\ ChangeBody(net[s].kind, net[s].id, net[s].body) /\ bounces' = bounces
             /\ clients' \in Outcomes(net[s].kind, net[s].id, net[s].body)
    <2>1. IsBody(net[s].kind, net[s].id, net[s].body)
        BY DEF ListTypeOK, NetOK, IsRequest
    <2>. QED
        BY <1>1, <2>1 DEF ChangeClients, Waiting, ChangeBody, IsBody, Changes
<1>2. Drafts \subseteq Draft
    BY ListAssumption DEF Draft
<1>3. ASSUME OthersChange
      PROVE  bounces' = bounces /\ \E kind, id, body :
                 ChangeBody(kind, id, body) /\ clients' \in Outcomes(kind, id, body)
    <2>1. PICK kind \in Changes, id \in Ids : \E body \in OthersBodies(kind) :
             clients' \in Outcomes(kind, id, body)
        BY <1>3 DEF OthersChange
    <2>3. PICK body \in OthersBodies(kind) : clients' \in Outcomes(kind, id, body)
        BY <2>1
    <2>2. ChangeBody(kind, id, body)
        BY <1>2 DEF ChangeBody, OthersBodies
    <2>. QED
        BY <1>3, <2>2, <2>3 DEF OthersChange
<1>4. ASSUME NEW s \in Slots, SiteRequest(s)
      PROVE  /\ clients' = clients /\ IsBody(net[s].kind, net[s].id, net[s].body)
             /\ BounceStarts(s, net[s].kind, net[s].id, net[s].body)
    BY <1>4 DEF SiteRequest, ListTypeOK, NetOK, IsRequest
<1>5. ASSUME OthersSiteRequest
      PROVE  clients' = clients /\ \E kind, id, body :
                 IsBody(kind, id, body) /\ BounceStarts(0, kind, id, body)
    <2>1. PICK kind \in {"site", "delete"}, id \in Ids : \E body \in OthersBodies(kind) :
             BounceStarts(0, kind, id, body)
        BY <1>5 DEF OthersSiteRequest
    <2>3. PICK body \in OthersBodies(kind) : BounceStarts(0, kind, id, body)
        BY <2>1
    <2>2. IsBody(kind, id, body)
        BY <1>2 DEF IsBody, OthersBodies
    <2>. QED
        BY <1>5, <2>2, <2>3 DEF OthersSiteRequest
<1>6. ASSUME \A s \in Slots : ~ ChangeClients(s) /\ ~ SiteRequest(s) /\ ~ RequestFails(s),
             \A b \in Bounces : ~ Mutate(b) /\ ~ BounceEnds(b),
             ~ OthersChange, ~ OthersSiteRequest, ~ Restart
      PROVE  UNCHANGED <<clients, bounces>>
    BY <1>6 DEF Next, User, Serve, Handle, Arrive, Tick, Click, Login, Logout,
       CreateClient, DeleteClient, EditClient, SaveClientSitePeer, Type, GetClients,
       Unauthorized, GetSession, CreateSession, DestroySession, Answered, ClientsArrive,
       LoginAnswered, SessionArrives, LogoutAnswered, ChangeAnswered, vars
<1>7. \A s \in Slots : ChangeClients(s) => bounces' = bounces
    BY DEF ChangeClients
<1>. QED
    BY <1>1, <1>3, <1>4, <1>5, <1>6, <1>7

\* A handler under way has been given a client that there was.
LEMMA BounceStartsAs ==
    ASSUME ListTypeOK, NEW s, NEW kind, NEW id, NEW body, BounceStarts(s, kind, id, body)
    PROVE  /\ id \in DOMAIN clients /\ kind \in {"site", "delete"}
           /\ \E b \in Bounces :
                 /\ bounces[b] = NoBounce
                 /\ bounces' = [bounces EXCEPT
                       ![b] = [slot |-> s, at |-> "down", kind |-> kind, id |-> id,
                               body |-> body, undo |-> clients[id]]]
BY DEF BounceStarts, Bounced

LEMMA MutatedOK ==
    ASSUME ListTypeOK, NEW b \in Bounces, bounces[b].at = "down"
    PROVE  IsList(Mutated(b), Client)
<1>. DEFINE h == bounces[b]
<1>1. IsBody(h.kind, h.id, h.body) /\ h.kind \in {"site", "delete"}
    BY DEF ListTypeOK, BouncesOK, IsBounce, NoBounce
<1>2. CASE h.kind = "site" /\ h.id \in DOMAIN clients
    <2>1. h.body \in Draft /\ h.body.allowed # Garbage /\ h.id \in Ids
        BY <1>1, <1>2 DEF IsBody
    <2>2. Mutated(b) = With(h.id, [clients[h.id] EXCEPT !.allowed = h.body.allowed,
                                  !.masq = h.body.allowed # {} /\ h.body.masq])
        BY <1>2 DEF Mutated
    <2>. QED
        BY <1>2, <2>1, <2>2, SiteChange, WithOK DEF ListTypeOK
<1>3. CASE ~ (h.kind = "site" /\ h.id \in DOMAIN clients)
    BY <1>1, <1>3, WithoutOK DEF Mutated, ListTypeOK
<1>. QED
    BY <1>2, <1>3

LEMMA RolledBackOK ==
    ASSUME ListTypeOK, NEW b \in Bounces, bounces[b].at = "up"
    PROVE  IsList(RolledBack(b), Client)
<1>. DEFINE h == bounces[b]
<1>1. /\ h.kind \in {"site", "delete"} /\ h.id \in Ids
      /\ h.undo \in Client \/ (h.undo = Null /\ h.kind = "delete")
    BY DEF ListTypeOK, BouncesOK, IsBounce, IsBody, NoBounce
<1>2. CASE h.kind = "delete"
    BY <1>1, <1>2, WithOK DEF RolledBack, ListTypeOK
<1>3. CASE h.kind = "site" /\ h.id \in DOMAIN clients
    <2>1. [clients[h.id] EXCEPT !.allowed = h.undo.allowed, !.masq = h.undo.masq] \in Client
        BY <1>1, <1>3 DEF ListTypeOK, IsList, Client
    <2>. QED
        BY <1>1, <1>3, <2>1, WithOK DEF RolledBack, ListTypeOK
<1>4. CASE h.kind = "site" /\ h.id \notin DOMAIN clients
    BY <1>4 DEF RolledBack, ListTypeOK
<1>. QED
    BY <1>1, <1>2, <1>3, <1>4

LEMMA ClientsInductive ==
    ASSUME ListTypeOK, [Next]_vars
    PROVE  IsList(clients', Client)
<1>. USE DEF ListTypeOK
<1>1. ASSUME NEW b \in Bounces, Mutate(b)  PROVE IsList(clients', Client)
    BY <1>1, MutatedOK DEF Mutate
<1>2. ASSUME NEW b \in Bounces, BounceEnds(b)  PROVE IsList(clients', Client)
    BY <1>2, RolledBackOK DEF BounceEnds
<1>3. ASSUME Restart  PROVE IsList(clients', Client)
    BY <1>3, RolledBackOK DEF Restart
<1>4. ASSUME NEW s \in Slots, RequestFails(s)  PROVE IsList(clients', Client)
    BY <1>4 DEF RequestFails
<1>. QED
    BY <1>1, <1>2, <1>3, <1>4, StepKinds, OutcomesOK

LEMMA CapturedOK ==
    ASSUME ListTypeOK, NEW h, IsBounce(h), h # NoBounce
    PROVE  /\ IsBounce(Captured(h)) /\ Captured(h).slot = h.slot /\ Captured(h).kind = h.kind
           /\ Captured(h).at = h.at
<1>. DEFINE u == IF h.id \in DOMAIN clients THEN clients[h.id] ELSE Null
<1>1. CASE h.kind = "delete"
    <2>1. u \in Client \cup {Null}
        BY DEF ListTypeOK, IsList
    <2>2. Captured(h) = [h EXCEPT !.undo = u]
        BY <1>1 DEF Captured
    <2>. HIDE DEF u
    <2>. QED
        BY <1>1, <2>1, <2>2 DEF IsBounce
<1>2. CASE h.kind # "delete"
    BY <1>2 DEF IsBounce, Captured
<1>. QED
    BY <1>1, <1>2

LEMMA SetUp ==
    ASSUME NEW h, IsBounce(h), h # NoBounce
    PROVE  LET g == [h EXCEPT !.at = "up"]
           IN IsBounce(g) /\ g.slot = h.slot /\ g.kind = h.kind
BY DEF IsBounce

LEMMA BouncesInductive ==
    ASSUME ListTypeOK, [Next]_vars
    PROVE  BouncesOK'
<1>. USE DEF ListTypeOK
<1>1. IsBounce(NoBounce)
    BY DEF IsBounce
<1>2. ASSUME bounces' = bounces  PROVE BouncesOK'
    BY <1>2 DEF BouncesOK
<1>3. ASSUME NEW b \in Bounces, NEW h, IsBounce(h), bounces' = [bounces EXCEPT ![b] = h]
      PROVE  BouncesOK'
    BY <1>3 DEF BouncesOK
<1>4. ASSUME NEW s \in Slots \cup {0}, NEW kind, NEW id, NEW body,
             IsBody(kind, id, body), BounceStarts(s, kind, id, body)
      PROVE  BouncesOK'
    <2>. DEFINE h == [slot |-> s, at |-> "down", kind |-> kind, id |-> id, body |-> body,
                      undo |-> clients[id]]
    <2>1. clients[id] \in Client
        BY <1>4, BounceStartsAs DEF IsList
    <2>2. IsBounce(h)
        BY <1>4, <2>1, BounceStartsAs DEF IsBounce
    <2>. QED
        BY <1>3, <1>4, <2>2, BounceStartsAs
<1>5. ASSUME NEW b \in Bounces, Mutate(b)  PROVE BouncesOK'
    <2>1. IsBounce(bounces[b]) /\ bounces[b] # NoBounce /\ bounces[b].at # "none"
        BY <1>5 DEF BouncesOK, Mutate, NoBounce
    <2>2. IsBounce(Captured(bounces[b])) /\ Captured(bounces[b]) # NoBounce
        BY <2>1, CapturedOK DEF NoBounce
    <2>3. bounces' = [bounces EXCEPT ![b] = [Captured(bounces[b]) EXCEPT !.at = "up"]]
        BY <1>5 DEF Mutate
    <2>. QED
        BY <1>3, <2>2, <2>3, SetUp
<1>6. ASSUME NEW b \in Bounces, BounceEnds(b)  PROVE BouncesOK'
    BY <1>1, <1>3, <1>6 DEF BounceEnds
<1>7. ASSUME Restart  PROVE BouncesOK'
    BY <1>1, <1>7 DEF Restart, BouncesOK
<1>8. ASSUME NEW s \in Slots, RequestFails(s)  PROVE BouncesOK'
    <2>1. ASSUME NEW b \in Bounces
          PROVE  IsBounce([bounces[b] EXCEPT !.slot = 0]) \/ bounces[b] = NoBounce
        BY DEF BouncesOK, IsBounce
    <2>2. NoBounce.slot = 0 /\ s # 0
        BY DEF NoBounce, Slots
    <2>. QED
        BY <1>8, <2>1, <2>2 DEF RequestFails, BouncesOK
<1>. QED
    BY <1>2, <1>4, <1>5, <1>6, <1>7, <1>8, StepKinds

\* A slot that no handler answers.
LEMMA NotAwaited ==
    ASSUME ListTypeOK, NEW s \in Slots,
           net[s].kind \notin {"site", "delete"} \/ net[s].answer # Null
    PROVE  \A b \in Bounces : bounces[b].slot # s
BY AwaitedKinds

LEMMA AwaitedKept ==
    ASSUME ListTypeOK, bounces' = bounces, NEW s \in Slots, NEW r,
           \A b \in Bounces : bounces[b].slot # s, net' = [net EXCEPT ![s] = r]
    PROVE  AwaitedOK'
<1>1. \A q \in Slots : q # s => net'[q] = net[q]
    BY DEF ListTypeOK, NetOK
<1>2. \A b \in Bounces : bounces[b].slot \in Slots \cup {0}
    BY DEF ListTypeOK, BouncesOK, IsBounce, NoBounce
<1>. QED
    BY <1>1, <1>2 DEF ListTypeOK, AwaitedOK

LEMMA AwaitedInductive ==
    ASSUME ListTypeOK, [Next]_vars
    PROVE  AwaitedOK'
<1>0. AwaitedOK /\ BouncesOK
    BY DEF ListTypeOK
<1>1. ASSUME UNCHANGED <<net, bounces>>  PROVE AwaitedOK'
    BY <1>0, <1>1 DEF AwaitedOK
<1>2. ASSUME NEW r, Send(r), bounces' = bounces  PROVE AwaitedOK'
    <2>1. PICK s \in Slots : net[s].kind = "none" /\ net' = [net EXCEPT ![s] = r]
        BY <1>2 DEF Send
    <2>. QED
        BY <1>2, <2>1, NotAwaited, AwaitedKept
<1>3. ASSUME NEW s \in Slots, NEW kinds, NEW a, Waiting(s, kinds), Answer(s, a),
             bounces' = bounces
      PROVE  AwaitedOK'
    BY <1>3, AwaitedKept DEF Waiting, Answer
<1>4. ASSUME NEW s \in Slots, NEW kinds, NEW r, Answered(s, kinds), Then(s, r)
      PROVE  AwaitedOK'
    BY <1>4, NotAwaited, AwaitedKept DEF Answered, Then
<1>5. ASSUME NEW s \in Slots, SiteRequest(s)  PROVE AwaitedOK'
    <2>1. /\ net' = net /\ net[s].answer = Null /\ s # 0
          /\ BounceStarts(s, net[s].kind, net[s].id, net[s].body)
          /\ \A b \in Bounces : bounces[b].slot # s
        BY <1>5 DEF SiteRequest, Waiting, Slots
    <2>2. PICK b \in Bounces :
             bounces' = [bounces EXCEPT
                ![b] = [slot |-> s, at |-> "down", kind |-> net[s].kind, id |-> net[s].id,
                        body |-> net[s].body, undo |-> clients[net[s].id]]]
        BY <2>1, BounceStartsAs
    <2>. QED
        BY <1>0, <2>1, <2>2 DEF AwaitedOK, BouncesOK
<1>6. ASSUME OthersSiteRequest  PROVE AwaitedOK'
    <2>1. PICK kind \in {"site", "delete"}, id \in Ids : \E body \in OthersBodies(kind) :
             BounceStarts(0, kind, id, body)
        BY <1>6 DEF OthersSiteRequest
    <2>2. PICK body \in OthersBodies(kind) : BounceStarts(0, kind, id, body)
        BY <2>1
    <2>3. PICK b \in Bounces :
             bounces' = [bounces EXCEPT
                ![b] = [slot |-> 0, at |-> "down", kind |-> kind, id |-> id,
                        body |-> body, undo |-> clients[id]]]
        BY <2>2, BounceStartsAs
    <2>4. net' = net
        BY <1>6 DEF OthersSiteRequest
    <2>. QED
        BY <1>0, <2>3, <2>4 DEF AwaitedOK, BouncesOK
<1>7. ASSUME NEW b \in Bounces, Mutate(b)  PROVE AwaitedOK'
    <2>1. IsBounce(bounces[b]) /\ bounces[b] # NoBounce /\ bounces[b].at # "none"
        BY <1>0, <1>7 DEF BouncesOK, Mutate, NoBounce
    <2>2. IsBounce(Captured(bounces[b])) /\ Captured(bounces[b]) # NoBounce
        BY <2>1, CapturedOK DEF NoBounce
    <2>. DEFINE h == [Captured(bounces[b]) EXCEPT !.at = "up"]
    <2>3. h.slot = bounces[b].slot /\ h.kind = bounces[b].kind
        BY <2>1, <2>2, CapturedOK, SetUp
    <2>4. net' = net /\ bounces' = [bounces EXCEPT ![b] = h]
        BY <1>7 DEF Mutate
    <2>. HIDE DEF h
    <2>5. bounces'[b] = h /\ \A q \in Bounces : q # b => bounces'[q] = bounces[q]
        BY <1>0, <2>4 DEF BouncesOK
    <2>. QED
        BY <1>0, <2>3, <2>4, <2>5 DEF AwaitedOK
<1>8. ASSUME NEW b \in Bounces, BounceEnds(b)  PROVE AwaitedOK'
    <2>1. /\ bounces'[b].slot = 0
          /\ \A q \in Bounces : q # b => bounces'[q] = bounces[q]
        BY <1>0, <1>8 DEF BounceEnds, BouncesOK, NoBounce
    <2>2. \A q \in Bounces : bounces[q].slot \in Slots \cup {0}
        BY <1>0 DEF BouncesOK, IsBounce, NoBounce
    <2>3. \A s \in Slots : s # bounces[b].slot => net'[s] = net[s]
        BY <1>8 DEF BounceEnds, Answer, ListTypeOK, NetOK
    <2>. QED
        BY <1>0, <2>1, <2>2, <2>3 DEF AwaitedOK
<1>9. ASSUME Restart  PROVE AwaitedOK'
    BY <1>9 DEF Restart, AwaitedOK, NoBounce
<1>10. ASSUME NEW s \in Slots, RequestFails(s)  PROVE AwaitedOK'
    <2>1. \A b \in Bounces : IsBounce(bounces[b])
        BY <1>0 DEF BouncesOK
    <2>2. \A b \in Bounces : /\ bounces'[b].kind = bounces[b].kind
                             /\ bounces'[b].slot = IF bounces[b].slot = s THEN 0
                                                   ELSE bounces[b].slot
        BY <1>10, <2>1 DEF RequestFails, IsBounce, NoBounce
    <2>3. \A q \in Slots : s # q => net'[q] = net[q]
        BY <1>10 DEF RequestFails, Answer, ListTypeOK, NetOK
    <2>4. \A b \in Bounces : bounces[b].slot \in Slots \cup {0}
        BY <1>0 DEF BouncesOK, IsBounce, NoBounce
    <2>. QED
        BY <1>0, <2>2, <2>3, <2>4 DEF AwaitedOK
<1>11. ASSUME User \/ Tick  PROVE AwaitedOK'
    BY <1>1, <1>2, <1>11 DEF User, Tick, Login, Logout, CreateClient, DeleteClient,
       EditClient, SaveClientSitePeer, Type, Click
<1>12. ASSUME NEW s \in Slots, Arrive(s)  PROVE AwaitedOK'
    BY <1>4, <1>12 DEF Arrive, ClientsArrive, LoginAnswered, SessionArrives, Refresh,
       LogoutAnswered, ChangeAnswered
<1>13. ASSUME NEW s \in Slots, Handle(s)  PROVE AwaitedOK'
    BY <1>3, <1>5, <1>13 DEF Handle, ChangeClients, GetClients, Unauthorized, GetSession,
       CreateSession, DestroySession
<1>14. ASSUME OthersChange \/ UNCHANGED vars  PROVE AwaitedOK'
    BY <1>1, <1>14 DEF OthersChange, vars
<1>. QED
    BY <1>6, <1>7, <1>8, <1>9, <1>10, <1>11, <1>12, <1>13, <1>14 DEF Next, Serve

LEMMA BoundsAreNat == MaxClicks \in Nat /\ MaxEvents \in Nat
<1>1. {MaxInFlight, MaxBounces, MaxClicks, MaxEvents} \subseteq Nat
    BY ListAssumption
<1>. QED
    BY <1>1

LEMMA CountersInductive ==
    ASSUME ListTypeOK, [Next]_vars
    PROVE  session' \in BOOLEAN /\ CountersOK'
<1>1. /\ session' \in {session, TRUE, FALSE}
      /\ clicks' = clicks \/ (clicks < MaxClicks /\ clicks' = clicks + 1)
      /\ events' = events \/ (events < MaxEvents /\ events' = events + 1)
    BY DEF Next, User, Serve, Handle, Arrive, Tick, OthersChange, OthersSiteRequest, Restart,
       RequestFails, Event, Click, Login, Logout, CreateClient, DeleteClient, EditClient,
       SaveClientSitePeer, Type, ChangeClients, SiteRequest, Mutate, BounceEnds, GetClients,
       Unauthorized, GetSession, CreateSession, DestroySession, Answered, ClientsArrive,
       LoginAnswered, SessionArrives, LogoutAnswered, ChangeAnswered, vars
<1>2. MaxClicks \in Nat /\ MaxEvents \in Nat
    BY BoundsAreNat
<1>3. CountersOK /\ session \in BOOLEAN
    BY DEF ListTypeOK
<1>4. clicks' \in 0 .. MaxClicks
    BY <1>1, <1>2, <1>3 DEF CountersOK
<1>5. events' \in 0 .. MaxEvents
    BY <1>1, <1>2, <1>3 DEF CountersOK
<1>. QED
    BY <1>1, <1>3, <1>4, <1>5 DEF CountersOK

\* The variables of ClientList keep their types.
THEOREM ListTypeCorrect == Spec => []ListTypeOK
<1>1. Init => ListTypeOK
    <2>. SUFFICES ASSUME Init  PROVE ListTypeOK
        OBVIOUS
    <2>1. (CHOOSE i \in Ids : TRUE) \in Ids
        BY ListAssumption
    <2>2. IsList(clients, Client)
        <3>1. \A i \in Ids : [NewClient(i) EXCEPT !.allowed = FirstAllowed] \in Client
            BY NewClientOK, ListAssumption DEF Client
        <3>. QED
            BY <2>1, <3>1 DEF Init, IsList
    <2>6. BouncesOK /\ AwaitedOK
        BY DEF Init, BouncesOK, AwaitedOK, IsBounce, NoBounce
    <2>3. NetOK
        BY RequestsOK DEF Init, NetOK
    <2>4. TabOK /\ session \in BOOLEAN
        BY DEF Init, TabOK
    <2>5. CountersOK
        BY BoundsAreNat DEF Init, CountersOK
    <2>. QED
        BY <2>2, <2>3, <2>4, <2>5, <2>6 DEF ListTypeOK
<1>2. ListTypeOK /\ [Next]_vars => ListTypeOK'
    <2>. SUFFICES ASSUME ListTypeOK, [Next]_vars  PROVE ListTypeOK'
        OBVIOUS
    <2>. QED
        BY ClientsInductive, BouncesInductive, AwaitedInductive, NetInductive, TabInductive,
           CountersInductive DEF ListTypeOK
<1>. QED
    BY <1>1, <1>2, PTL DEF Spec

-----------------------------------------------------------------------------
(* The site peers, when one of them is changed at a time *)

OneBounce == MaxBounces = 1

\* What the handler under way relies on: what it checked, before `down' and
\* after it, is right for the clients there are by then.
BounceSafe(b) ==
    LET h == bounces[b]
    IN /\ h.at = "down" /\ h.kind = "site" =>
             /\ Disjoint(Mutated(b))
             /\ h.id \in DOMAIN clients => clients[h.id].allowed = h.undo.allowed
       /\ h.at = "down" /\ h.kind = "delete" =>
             h.id \in DOMAIN clients /\ clients[h.id].allowed # {}
       /\ h.at = "up" => Disjoint(RolledBack(b))

SitesSafe == Disjoint(clients) /\ \A b \in Bounces : BounceSafe(b)

\* A change that bounces nothing leaves the AllowedIPs alone.
LEMMA QuietChange ==
    ASSUME ListTypeOK, NEW kind, NEW id, NEW body, ChangeBody(kind, id, body),
           NEW cs \in Outcomes(kind, id, body)
    PROVE  /\ \A i \in DOMAIN cs : i \in DOMAIN clients => cs[i].allowed = clients[i].allowed
           /\ \A i \in DOMAIN cs : i \notin DOMAIN clients =>
                 cs[i].allowed = {} /\ \A b \in Bounces : bounces[b].id # i
           /\ \A i \in DOMAIN clients : i \notin DOMAIN cs => clients[i].allowed = {}
<1>1. CASE cs = clients
    BY <1>1
<1>2. CASE kind = "create" /\ cs # clients
    <2>1. PICK i \in Ids : Fresh(i) /\ cs = With(i, NewClient(i))
        BY <1>2 DEF Outcomes
    <2>. QED
        BY <2>1 DEF Fresh, With, NewClient
<1>3. CASE kind = "delete" /\ cs # clients
    <2>1. cs = Without(id) /\ clients[id].allowed = {}
        BY <1>3 DEF Outcomes
    <2>. QED
        BY <2>1 DEF Without
<1>4. CASE kind = "edit" /\ cs # clients
    <2>1. id \in DOMAIN clients /\ cs = With(id, [clients[id] EXCEPT !.label = body])
        BY <1>4 DEF Outcomes
    <2>2. [clients[id] EXCEPT !.label = body].allowed = clients[id].allowed
        BY <2>1 DEF ListTypeOK, IsList, Client
    <2>. QED
        BY <2>1, <2>2 DEF With
<1>5. CASE kind = "site" /\ cs # clients
    BY <1>5 DEF Outcomes
<1>. QED
    BY <1>1, <1>2, <1>3, <1>4, <1>5 DEF ChangeBody, Changes

\* The AllowedIPs that a handler's change, and its rollback, make of a list cs.
MutatedGives(cs, h, new) ==
    /\ DOMAIN new = DOMAIN cs
    /\ \A i \in DOMAIN cs :
          new[i].allowed = IF i = h.id THEN h.body.allowed ELSE cs[i].allowed

RolledBackGives(cs, h, new) ==
    /\ h.kind # "delete" =>
          /\ DOMAIN new = DOMAIN cs
          /\ \A i \in DOMAIN cs :
                new[i].allowed = IF i = h.id THEN h.undo.allowed ELSE cs[i].allowed
    /\ h.kind = "delete" /\ h.undo = Null => new = cs
    /\ h.kind = "delete" /\ h.undo # Null =>
          /\ DOMAIN new = DOMAIN cs \cup {h.id}
          /\ \A i \in DOMAIN new : new[i] = IF i = h.id THEN h.undo ELSE cs[i]

\* The same of any list, with another With.
LEMMA GivesOf ==
    ASSUME NEW cs, IsList(cs, Client), NEW h
    PROVE  LET with(c)   == [i \in DOMAIN cs \cup {h.id} |-> IF i = h.id THEN c ELSE cs[i]]
               set(a, m) == [cs[h.id] EXCEPT !.allowed = a, !.masq = m]
           IN /\ MutatedGives(cs, h,
                     IF h.id \notin DOMAIN cs THEN cs
                     ELSE with(set(h.body.allowed, h.body.allowed # {} /\ h.body.masq)))
              /\ RolledBackGives(cs, h,
                     IF h.kind = "delete" THEN IF h.undo = Null THEN cs ELSE with(h.undo)
                     ELSE IF h.id \notin DOMAIN cs THEN cs
                     ELSE with(set(h.undo.allowed, h.undo.masq)))
<1>1. \A a, m : h.id \in DOMAIN cs =>
         [cs[h.id] EXCEPT !.allowed = a, !.masq = m].allowed = a
    BY DEF IsList, Client
<1>. QED
    BY <1>1 DEF MutatedGives, RolledBackGives

LEMMA HandlerGives ==
    ASSUME NEW b \in Bounces, IsList(clients, Client)
    PROVE  /\ bounces[b].kind = "site" => MutatedGives(clients, bounces[b], Mutated(b))
           /\ RolledBackGives(clients, bounces[b], RolledBack(b))
BY GivesOf DEF Mutated, RolledBack, With

LEMMA HandlerGivesNext ==
    ASSUME NEW b \in Bounces, IsList(clients', Client)
    PROVE  /\ bounces'[b].kind = "site" => MutatedGives(clients', bounces'[b], Mutated(b)')
           /\ RolledBackGives(clients', bounces'[b], RolledBack(b)')
BY GivesOf DEF Mutated, RolledBack, With

\* A change that bounces nothing, beside the handler.
LEMMA QuietSafe ==
    ASSUME ListTypeOK, IsList(clients', Client), SitesSafe, bounces' = bounces,
           NEW kind, NEW id, NEW body, ChangeBody(kind, id, body),
           clients' \in Outcomes(kind, id, body)
    PROVE  SitesSafe'
<1>1. /\ \A i \in DOMAIN clients' : i \in DOMAIN clients =>
             clients'[i].allowed = clients[i].allowed
      /\ \A i \in DOMAIN clients' : i \notin DOMAIN clients =>
             clients'[i].allowed = {} /\ \A b \in Bounces : bounces[b].id # i
      /\ \A i \in DOMAIN clients : i \notin DOMAIN clients' => clients[i].allowed = {}
    BY QuietChange
<1>2. Disjoint(clients) /\ Disjoint(clients')
    BY <1>1, SameCidrs DEF SitesSafe
<1>3. ASSUME NEW b \in Bounces  PROVE BounceSafe(b)'
    <2>. DEFINE h == bounces[b]
    <2>1. BounceSafe(b) /\ IsList(clients, Client)
        BY DEF SitesSafe, ListTypeOK
    <2>2. h.at = "down" /\ h.kind = "site" =>
             /\ Disjoint(Mutated(b)')
             /\ h.id \in DOMAIN clients' => clients'[h.id].allowed = h.undo.allowed
        <3>. SUFFICES ASSUME h.at = "down", h.kind = "site"
                      PROVE  /\ Disjoint(Mutated(b)')
                             /\ h.id \in DOMAIN clients' =>
                                   clients'[h.id].allowed = h.undo.allowed
            OBVIOUS
        <3>1. /\ MutatedGives(clients, h, Mutated(b))
              /\ MutatedGives(clients', h, Mutated(b)')
            BY <2>1, HandlerGives, HandlerGivesNext
        <3>. QED
            BY <1>1, <1>2, <2>1, <3>1, SameCidrs DEF BounceSafe, MutatedGives
    <2>3. h.at = "down" /\ h.kind = "delete" =>
             h.id \in DOMAIN clients' /\ clients'[h.id].allowed # {}
        BY <1>1, <2>1 DEF BounceSafe
    <2>4. h.at = "up" => Disjoint(RolledBack(b)')
        <3>1. /\ RolledBackGives(clients, h, RolledBack(b))
              /\ RolledBackGives(clients', h, RolledBack(b)')
            BY <2>1, HandlerGives, HandlerGivesNext
        <3>2. CASE h.kind # "delete" \/ h.undo # Null
            BY <1>1, <1>2, <2>1, <3>1, <3>2, SameCidrs DEF BounceSafe, RolledBackGives
        <3>3. CASE h.kind = "delete" /\ h.undo = Null
            BY <1>2, <3>1, <3>3 DEF RolledBackGives
        <3>. QED
            BY <3>2, <3>3
    <2>. QED
        BY <2>2, <2>3, <2>4 DEF BounceSafe
<1>. QED
    BY <1>2, <1>3 DEF SitesSafe

\* The check: what it accepts is disjoint from the others' at that moment.
LEMMA StartSafe ==
    ASSUME CidrsAreRead, OneBounce, ListTypeOK, SitesSafe, clients' = clients,
           NEW s \in Slots \cup {0}, NEW kind, NEW id, NEW body,
           IsBody(kind, id, body), BounceStarts(s, kind, id, body)
    PROVE  SitesSafe'
<1>1. PICK b \in Bounces :
         bounces' = [bounces EXCEPT
            ![b] = [slot |-> s, at |-> "down", kind |-> kind, id |-> id, body |-> body,
                    undo |-> clients[id]]]
    BY BounceStartsAs
<1>2. /\ id \in DOMAIN clients /\ IsList(clients, Client) /\ Disjoint(clients)
      /\ \/ kind = "site" /\ ValidClientAllowedIPs(body.allowed, Others(id))
         \/ kind = "delete" /\ clients[id].allowed # {}
    BY DEF BounceStarts, Bounced, ListTypeOK, SitesSafe
<1>3. \A q \in Bounces : q = b
    BY DEF OneBounce, Bounces
<1>4. /\ bounces'[b].at = "down" /\ bounces'[b].kind = kind /\ bounces'[b].id = id
      /\ bounces'[b].body = body /\ bounces'[b].undo = clients[id]
    BY <1>1 DEF ListTypeOK, BouncesOK
<1>. DEFINE c == [clients[id] EXCEPT !.allowed = body.allowed,
                                    !.masq = body.allowed # {} /\ body.masq]
<1>5. kind = "site" => Disjoint(Mutated(b)')
    <2>. SUFFICES ASSUME kind = "site"  PROVE Disjoint(Mutated(b)')
        OBVIOUS
    <2>1. body \in Draft /\ body.allowed # Garbage
        BY DEF IsBody
    <2>2. c \in Client
        BY <1>2, <2>1, SiteChange
    <2>3. c.allowed = body.allowed
        BY <1>2 DEF IsList, Client
    <2>4. Disjoint(With(id, c))
        BY <1>2, <2>2, <2>3, SiteChangeDisjoint
    <2>5. Mutated(b)' = With(id, c)
        BY <1>2, <1>4 DEF Mutated, With
    <2>. QED
        BY <2>4, <2>5
<1>6. BounceSafe(b)'
    BY <1>2, <1>4, <1>5 DEF BounceSafe
<1>. QED
    BY <1>2, <1>3, <1>6 DEF SitesSafe

LEMMA MutateSafe ==
    ASSUME OneBounce, ListTypeOK, IsList(clients', Client), SitesSafe,
           NEW b \in Bounces, Mutate(b)
    PROVE  SitesSafe'
<1>. DEFINE h == bounces[b]
<1>1. /\ h.at = "down" /\ clients' = Mutated(b) /\ h.kind \in {"site", "delete"}
      /\ bounces' = [bounces EXCEPT ![b] = [Captured(h) EXCEPT !.at = "up"]]
      /\ IsBounce(h) /\ h # NoBounce /\ IsList(clients, Client)
      /\ Disjoint(clients) /\ BounceSafe(b)
    BY DEF Mutate, ListTypeOK, BouncesOK, IsBounce, NoBounce, SitesSafe
<1>2. \A q \in Bounces : q = b
    BY DEF OneBounce, Bounces
<1>3. /\ bounces'[b].kind = h.kind /\ bounces'[b].id = h.id /\ bounces'[b].at = "up"
      /\ h.kind = "site" => bounces'[b].undo = h.undo
      /\ h.kind = "delete" => bounces'[b].undo = clients[h.id]
    <2>1. bounces'[b] = [Captured(h) EXCEPT !.at = "up"]
        BY <1>1 DEF ListTypeOK, BouncesOK
    <2>2. h.kind = "delete" => h.id \in DOMAIN clients
        BY <1>1 DEF BounceSafe
    <2>. QED
        BY <1>1, <2>1, <2>2 DEF Captured, IsBounce
<1>4. RolledBackGives(clients', bounces'[b], RolledBack(b)')
    BY HandlerGivesNext
<1>5. CASE h.kind = "site"
    <2>1. Disjoint(clients') /\ MutatedGives(clients, h, clients')
        BY <1>1, <1>5, HandlerGives DEF BounceSafe
    <2>2. Disjoint(RolledBack(b)')
        BY <1>1, <1>3, <1>4, <1>5, <2>1, SameCidrs
           DEF BounceSafe, MutatedGives, RolledBackGives
    <2>. QED
        BY <1>2, <1>3, <2>1, <2>2 DEF SitesSafe, BounceSafe
<1>6. CASE h.kind = "delete"
    <2>1. h.id \in DOMAIN clients /\ clients' = Without(h.id)
        BY <1>1, <1>6 DEF BounceSafe, Mutated
    <2>2. Disjoint(clients')
        BY <1>1, <2>1, SameCidrs DEF Without
    <2>3. clients[h.id] # Null \/ RolledBack(b)' = clients'
        BY <1>3, <1>4, <1>6 DEF RolledBackGives
    <2>4. Disjoint(RolledBack(b)')
        <3>1. CASE clients[h.id] = Null
            BY <2>2, <2>3, <3>1
        <3>2. CASE clients[h.id] # Null
            <4>1. /\ DOMAIN RolledBack(b)' = DOMAIN clients
                  /\ \A i \in DOMAIN clients : RolledBack(b)'[i] = clients[i]
                BY <1>3, <1>4, <1>6, <2>1, <3>2 DEF Without, RolledBackGives
            <4>. QED
                BY <1>1, <4>1, SameCidrs
        <3>. QED
            BY <3>1, <3>2
    <2>. QED
        BY <1>2, <1>3, <2>2, <2>4 DEF SitesSafe, BounceSafe
<1>. QED
    BY <1>1, <1>5, <1>6

LEMMA SitesInductive ==
    ASSUME CidrsAreRead, OneBounce, ListTypeOK, SitesSafe, [Next]_vars
    PROVE  SitesSafe'
<1>1. IsList(clients', Client) /\ BouncesOK
    BY ClientsInductive DEF ListTypeOK
<1>2. ASSUME UNCHANGED <<clients, bounces>>  PROVE SitesSafe'
    BY <1>2 DEF SitesSafe, BounceSafe, Mutated, RolledBack, With, Without
<1>3. ASSUME NEW b \in Bounces, BounceEnds(b)  PROVE SitesSafe'
    <2>1. Disjoint(clients')
        BY <1>3 DEF BounceEnds, SitesSafe, BounceSafe
    <2>2. bounces'[b] = NoBounce /\ \A q \in Bounces : q = b
        BY <1>1, <1>3 DEF BounceEnds, BouncesOK, OneBounce, Bounces
    <2>. QED
        BY <2>1, <2>2 DEF SitesSafe, BounceSafe, NoBounce
<1>4. ASSUME Restart  PROVE SitesSafe'
    <2>1. Disjoint(clients')
        BY <1>4 DEF Restart, SitesSafe, BounceSafe
    <2>. QED
        BY <1>4, <2>1 DEF Restart, SitesSafe, BounceSafe, NoBounce
<1>5. ASSUME NEW s \in Slots, RequestFails(s)  PROVE SitesSafe'
    <2>1. ASSUME NEW b \in Bounces  PROVE BounceSafe(b)'
        <3>1. /\ bounces'[b].at = bounces[b].at /\ bounces'[b].kind = bounces[b].kind
              /\ bounces'[b].id = bounces[b].id /\ bounces'[b].body = bounces[b].body
              /\ bounces'[b].undo = bounces[b].undo
            BY <1>1, <1>5 DEF RequestFails, BouncesOK, IsBounce, NoBounce
        <3>2. clients' = clients
            BY <1>5 DEF RequestFails
        <3>3. Mutated(b)' = Mutated(b) /\ RolledBack(b)' = RolledBack(b)
            BY <3>1, <3>2 DEF Mutated, RolledBack, With, Without
        <3>. QED
            BY <3>1, <3>2, <3>3 DEF SitesSafe, BounceSafe
    <2>. QED
        BY <1>5, <2>1 DEF RequestFails, SitesSafe
<1>. QED
    BY <1>1, <1>2, <1>3, <1>4, <1>5, StepKinds, QuietSafe, StartSafe, MutateSafe

\* No address is in the AllowedIPs of two site peers, through every await and
\* every rollback, if the code reads every CIDR as it is written and no second
\* site peer is changed or deleted while a first one is.
THEOREM SitePeersStayDisjoint ==
    ASSUME CidrsAreRead, OneBounce
    PROVE  Spec => []SitePeersDisjoint
<1>1. Init => SitesSafe
    <2>. SUFFICES ASSUME Init  PROVE SitesSafe
        OBVIOUS
    <2>1. \A i, j \in DOMAIN clients : i = j
        BY DEF Init
    <2>2. \A b \in Bounces : bounces[b].at = "none"
        BY DEF Init, NoBounce
    <2>. QED
        BY <2>1, <2>2 DEF SitesSafe, Disjoint, BounceSafe
<1>2. ListTypeOK /\ SitesSafe /\ [Next]_vars => SitesSafe'
    BY SitesInductive
<1>3. SitesSafe => SitePeersDisjoint
    BY DEF SitesSafe, SitePeersDisjoint
<1>. QED
    BY <1>1, <1>2, <1>3, ListTypeCorrect, PTL DEF Spec

-----------------------------------------------------------------------------
(* The drafts *)

\* No answer changes the draft of a client that is shown before and after it.
THEOREM DraftsStay == Spec => DraftsKept
<1>1. [Next]_vars =>
        [\A id \in Ids : id \in Shown(rows) /\ id \in Shown(rows)' /\ net' # net
                             => rows'[id].draft = rows[id].draft]_vars
    <2>. SUFFICES ASSUME Next, net' # net,
                         NEW id \in Ids, id \in Shown(rows), id \in Shown(rows')
                  PROVE  rows'[id].draft = rows[id].draft
        BY DEF Shown, vars
    <2>1. ASSUME NEW s \in Slots, ClientsArrive(s), rows' # rows
          PROVE  rows'[id].draft = rows[id].draft
        BY <2>1 DEF ClientsArrive, Refreshed, Shown
    <2>2. ASSUME NEW s \in Slots, LogoutAnswered(s), rows' # rows
          PROVE  FALSE
        BY <2>2 DEF LogoutAnswered, Shown
    <2>3. ASSUME \A s \in Slots : ~ ClientsArrive(s) /\ ~ LogoutAnswered(s)
          PROVE  rows' = rows
        BY <2>3 DEF Next, User, Serve, Handle, Arrive, Tick, OthersChange, OthersSiteRequest,
           Restart, RequestFails, Event, Click, Login, Logout, CreateClient, DeleteClient,
           EditClient, SaveClientSitePeer, Type, ChangeClients, SiteRequest, Mutate, BounceEnds,
           GetClients, Unauthorized, GetSession, CreateSession, DestroySession, LoginAnswered,
           SessionArrives, ChangeAnswered, tab, vars
    <2>. QED
        BY <2>1, <2>2, <2>3
<1>. QED
    BY <1>1, PTL DEF Spec, DraftsKept

-----------------------------------------------------------------------------
(* The flags of the tab.  One slot s gets another request r. *)

Put(s, r) == [net EXCEPT ![s] = r]

LEMMA SavesKept ==
    ASSUME NetOK, NEW ids, SavesMatch(net, ids), NEW s \in Slots, NEW r,
           \/ net[s].kind # "site" /\ r.kind # "site"
           \/ r.kind = net[s].kind /\ r.id = net[s].id
    PROVE  SavesMatch(Put(s, r), ids)
BY DEF SavesMatch, NetOK, Put

LEMMA SaveAdded ==
    ASSUME NetOK, NEW ids, SavesMatch(net, ids), NEW s \in Slots, NEW r,
           net[s].kind # "site", r.kind = "site", r.id \notin ids
    PROVE  SavesMatch(Put(s, r), ids \cup {r.id})
BY DEF SavesMatch, NetOK, Put

LEMMA SaveRemoved ==
    ASSUME NetOK, NEW ids, SavesMatch(net, ids), NEW s \in Slots, NEW r,
           net[s].kind = "site", r.kind # "site"
    PROVE  SavesMatch(Put(s, r), ids \ {net[s].id})
BY DEF SavesMatch, NetOK, Put

LEMMA LoginKept ==
    ASSUME NetOK, NEW flag, LoginMatches(net, flag), NEW s \in Slots, NEW r,
           r.login = net[s].login
    PROVE  LoginMatches(Put(s, r), flag)
BY DEF LoginMatches, NetOK, Put

LEMMA LoginChanged ==
    ASSUME NetOK, NEW flag, LoginMatches(net, flag), NEW s \in Slots, NEW r,
           net[s].login \/ ~ flag, NEW next \in BOOLEAN, next <=> r.login
    PROVE  LoginMatches(Put(s, r), next)
BY DEF LoginMatches, NetOK, Put

\* The handling of a request, and its failure, add an answer.
LEMMA FlagsAnswer ==
    ASSUME NetOK, FlagsMatchRequests, NEW s \in Slots, NEW a, Answer(s, a), UNCHANGED tab
    PROVE  FlagsMatchRequests'
<1>. DEFINE r == [net[s] EXCEPT !.answer = a]
<1>1. r.kind = net[s].kind /\ r.id = net[s].id /\ r.login = net[s].login
    BY DEF NetOK, IsRequest
<1>2. net' = Put(s, r)
    BY DEF Answer, Put
<1>3. UNCHANGED <<saving, authenticating>>
    BY DEF tab
<1>. HIDE DEF r
<1>4. SavesMatch(net, saving)' /\ LoginMatches(net, authenticating)'
    BY <1>1, <1>2, <1>3, SavesKept, LoginKept DEF FlagsMatchRequests
<1>. QED
    BY <1>4 DEF FlagsMatchRequests

\* Answers to several requests.
LEMMA FlagsSame ==
    ASSUME FlagsMatchRequests, UNCHANGED <<saving, authenticating>>,
           \A s \in Slots : /\ net'[s].kind = net[s].kind /\ net'[s].id = net[s].id
                            /\ net'[s].login = net[s].login
    PROVE  FlagsMatchRequests'
<1>1. {net'[s].id : s \in {q \in Slots : net'[q].kind = "site"}} =
      {net[s].id : s \in {q \in Slots : net[q].kind = "site"}}
    OBVIOUS
<1>2. SavesMatch(net, saving)'
    BY <1>1 DEF FlagsMatchRequests, SavesMatch
<1>3. LoginMatches(net, authenticating)'
    BY DEF FlagsMatchRequests, LoginMatches
<1>. QED
    BY <1>2, <1>3 DEF FlagsMatchRequests

\* A request that is neither a save nor part of a login.
LEMMA FlagsSend ==
    ASSUME NetOK, FlagsMatchRequests, NEW r, Send(r), r.kind # "site", r.login = FALSE,
           UNCHANGED <<saving, authenticating>>
    PROVE  FlagsMatchRequests'
<1>1. PICK s \in Slots : net[s].kind = "none" /\ net' = Put(s, r)
    BY DEF Send, Put
<1>2. net[s].login = FALSE
    BY <1>1 DEF NetOK, IsRequest
<1>3. SavesMatch(net, saving)' /\ LoginMatches(net, authenticating)'
    BY <1>1, <1>2, SavesKept, LoginKept DEF FlagsMatchRequests
<1>. QED
    BY <1>3 DEF FlagsMatchRequests

\* An answer arrives, and another request or none takes the slot.
LEMMA FlagsThen ==
    ASSUME NetOK, FlagsMatchRequests, NEW s \in Slots, NEW r, Then(s, r),
           r.kind # "site", net[s].kind # "site", saving' = saving,
           authenticating' \in BOOLEAN,
           \/ r.login = net[s].login /\ authenticating' = authenticating
           \/ net[s].login /\ (authenticating' <=> r.login)
    PROVE  FlagsMatchRequests'
<1>1. net' = Put(s, r)
    BY DEF Then, Put
<1>2. SavesMatch(net, saving)'
    BY <1>1, SavesKept DEF FlagsMatchRequests
<1>3. LoginMatches(net, authenticating)'
    BY <1>1, LoginKept, LoginChanged DEF FlagsMatchRequests
<1>. QED
    BY <1>2, <1>3 DEF FlagsMatchRequests

LEMMA FlagsInductive ==
    ASSUME ListTypeOK, FlagsMatchRequests, [Next]_vars
    PROVE  FlagsMatchRequests'
<1>. USE DEF ListTypeOK
<1>1. ASSUME UNCHANGED <<net, saving, authenticating>>  PROVE FlagsMatchRequests'
    BY <1>1 DEF FlagsMatchRequests, SavesMatch, LoginMatches
<1>2. ASSUME Tick  PROVE FlagsMatchRequests'
    BY <1>2, FlagsSend DEF Tick, Poll, Request, tab
<1>3. ASSUME Login  PROVE FlagsMatchRequests'
    <2>. DEFINE r == Request("login", Null, Null, TRUE)
    <2>1. PICK s \in Slots : net[s].kind = "none" /\ net' = Put(s, r)
        BY <1>3 DEF Login, Send, Put
    <2>2. r.kind = "login" /\ r.login = TRUE
        BY DEF Request
    <2>3. ~ authenticating /\ authenticating' = TRUE /\ saving' = saving
        BY <1>3 DEF Login
    <2>. HIDE DEF r
    <2>4. SavesMatch(net, saving)'
        BY <2>1, <2>2, <2>3, SavesKept DEF FlagsMatchRequests
    <2>5. LoginMatches(Put(s, r), TRUE)
        <3>1. NetOK /\ \A q \in Slots : ~ net[q].login
            BY <2>3 DEF FlagsMatchRequests, LoginMatches
        <3>2. /\ Put(s, r)[s] = r
              /\ \A q \in Slots \ {s} : Put(s, r)[q] = net[q]
            BY <3>1 DEF Put, NetOK
        <3>. QED
            BY <2>2, <3>1, <3>2 DEF LoginMatches
    <2>. QED
        BY <2>1, <2>3, <2>4, <2>5 DEF FlagsMatchRequests
<1>4. ASSUME Logout \/ CreateClient  PROVE FlagsMatchRequests'
    BY <1>4, FlagsSend DEF Logout, CreateClient, Request
<1>5. ASSUME NEW id \in Ids, DeleteClient(id) \/ \E l \in Labels : EditClient(id, l)
      PROVE  FlagsMatchRequests'
    BY <1>5, FlagsSend DEF DeleteClient, EditClient, Request
<1>6. ASSUME NEW id \in Ids, SaveClientSitePeer(id)  PROVE FlagsMatchRequests'
    <2>. DEFINE r == Request("site", id, rows[id].draft, FALSE)
    <2>1. PICK s \in Slots : net[s].kind = "none" /\ net' = Put(s, r)
        BY <1>6 DEF SaveClientSitePeer, Send, Put
    <2>2. r.kind = "site" /\ r.id = id /\ r.login = FALSE
        BY DEF Request
    <2>3. id \notin saving /\ saving' = saving \cup {id} /\ authenticating' = authenticating
        BY <1>6 DEF SaveClientSitePeer
    <2>4. net[s].login = FALSE
        BY <2>1 DEF NetOK, IsRequest
    <2>. HIDE DEF r
    <2>5. SavesMatch(net, saving)'
        BY <2>1, <2>2, <2>3, SaveAdded DEF FlagsMatchRequests
    <2>6. LoginMatches(net, authenticating)'
        BY <2>1, <2>2, <2>3, <2>4, LoginKept DEF FlagsMatchRequests
    <2>. QED
        BY <2>5, <2>6 DEF FlagsMatchRequests
<1>7. ASSUME NEW s \in Slots, Handle(s) \/ RequestFails(s), ~ SiteRequest(s)
      PROVE  FlagsMatchRequests'
    <2>1. \E a : Answer(s, a)
        BY <1>7 DEF Handle, ChangeClients, GetClients, Unauthorized, GetSession,
           CreateSession, DestroySession, RequestFails
    <2>2. UNCHANGED tab
        BY <1>7 DEF Handle, ChangeClients, GetClients, Unauthorized, GetSession,
           CreateSession, DestroySession, RequestFails, Event
    <2>. QED
        BY <2>1, <2>2, FlagsAnswer
<1>13. ASSUME NEW s \in Slots, SiteRequest(s)  PROVE FlagsMatchRequests'
    BY <1>1, <1>13 DEF SiteRequest, tab
<1>14. ASSUME NEW b \in Bounces, BounceEnds(b)  PROVE FlagsMatchRequests'
    <2>1. IsBounce(bounces[b]) /\ bounces[b] # NoBounce /\ UNCHANGED tab
        BY <1>14 DEF BouncesOK, BounceEnds, NoBounce
    <2>2. bounces[b].slot # 0 => bounces[b].slot \in Slots /\ Answer(bounces[b].slot, TRUE)
        BY <1>14, <2>1 DEF BounceEnds, IsBounce
    <2>3. bounces[b].slot = 0 => net' = net
        BY <1>14 DEF BounceEnds
    <2>. QED
        BY <1>1, <2>1, <2>2, <2>3, FlagsAnswer DEF tab
<1>15. ASSUME Restart  PROVE FlagsMatchRequests'
    <2>1. \A s \in Slots : net'[s] = net[s] \/ net'[s] = [net[s] EXCEPT !.answer = Failed]
        BY <1>15 DEF Restart
    <2>2. \A s \in Slots : /\ net'[s].kind = net[s].kind /\ net'[s].id = net[s].id
                           /\ net'[s].login = net[s].login
        BY <2>1 DEF NetOK, IsRequest
    <2>. QED
        BY <1>15, <2>2, FlagsSame DEF Restart, Event, tab
<1>8. ASSUME NEW s \in Slots, ClientsArrive(s)  PROVE FlagsMatchRequests'
    <2>1. /\ Then(s, NoRequest) /\ net[s].kind = "poll" /\ saving' = saving
          /\ authenticating' = (authenticating /\ ~ net[s].login)
          /\ net[s].login \in BOOLEAN /\ authenticating \in BOOLEAN
        BY <1>8, AnswersOK DEF ClientsArrive, Answered, TabOK
    <2>2. NoRequest.kind = "none" /\ NoRequest.login = FALSE
        BY DEF NoRequest, Request
    <2>. QED
        BY <2>1, <2>2, FlagsThen
<1>9. ASSUME NEW s \in Slots, LoginAnswered(s)  PROVE FlagsMatchRequests'
    <2>. DEFINE r == IF net[s].answer = Failed THEN NoRequest
                     ELSE Request("session", Null, Null, TRUE)
    <2>1. /\ Then(s, r) /\ net[s].kind = "login" /\ saving' = saving
          /\ authenticating' = (net[s].answer # Failed)
        BY <1>9 DEF LoginAnswered, Answered
    <2>2. /\ r.kind # "site" /\ r.login = (net[s].answer # Failed)
          /\ net[s].login
        BY <2>1 DEF NoRequest, Request, NetOK, IsRequest
    <2>. HIDE DEF r
    <2>. QED
        BY <2>1, <2>2, FlagsThen
<1>10. ASSUME NEW s \in Slots, SessionArrives(s)  PROVE FlagsMatchRequests'
    <2>1. PICK r : Then(s, r) /\ r.kind # "site" /\ r.login \in BOOLEAN
                   /\ (r.login => net[s].login)
        <3>1. net[s].login \in BOOLEAN
            BY DEF NetOK, IsRequest
        <3>. DEFINE p == [Poll EXCEPT !.login = net[s].login]
        <3>2. /\ p.kind = "poll" /\ p.login = net[s].login
              /\ NoRequest.kind = "none" /\ NoRequest.login = FALSE
            BY DEF NoRequest, Poll, Request
        <3>3. Then(s, NoRequest) \/ Then(s, p)
            BY <1>10 DEF SessionArrives, Refresh
        <3>. HIDE DEF p
        <3>. QED
            BY <3>1, <3>2, <3>3
    <2>2. net'[s] = r
        BY <2>1 DEF Then, NetOK
    <2>3. /\ net[s].kind = "session" /\ saving' = saving
          /\ authenticating' = (authenticating /\ (net[s].login => r.login))
          /\ net[s].login \in BOOLEAN /\ authenticating \in BOOLEAN
        BY <1>10, <2>2, AnswersOK DEF SessionArrives, Answered, TabOK
    <2>4. net[s].login => authenticating
        BY DEF FlagsMatchRequests, LoginMatches
    <2>. QED
        BY <2>1, <2>3, <2>4, FlagsThen
<1>11. ASSUME NEW s \in Slots, LogoutAnswered(s)  PROVE FlagsMatchRequests'
    <2>1. net[s].kind = "logout" /\ UNCHANGED <<saving, authenticating>> /\ Then(s, NoRequest)
        BY <1>11 DEF LogoutAnswered, Answered
    <2>2. net[s].login = FALSE /\ NoRequest.kind = "none" /\ NoRequest.login = FALSE
          /\ authenticating \in BOOLEAN
        BY <2>1 DEF NoRequest, Request, NetOK, IsRequest, TabOK
    <2>. QED
        BY <2>1, <2>2, FlagsThen
<1>12. ASSUME NEW s \in Slots, ChangeAnswered(s)  PROVE FlagsMatchRequests'
    <2>1. PICK r : Then(s, r) /\ r.kind # "site" /\ r.login = FALSE
        BY <1>12 DEF ChangeAnswered, Refresh, NoRequest, Poll, Request
    <2>2. /\ saving' = saving \ (IF net[s].kind = "site" THEN {net[s].id} ELSE {})
          /\ authenticating' = authenticating /\ authenticating \in BOOLEAN
          /\ net[s].login = FALSE
        BY <1>12, AnswersOK DEF ChangeAnswered, Answered, TabOK
    <2>3. net' = Put(s, r)
        BY <2>1 DEF Then, Put
    <2>4. SavesMatch(net, saving)'
        BY <2>1, <2>2, <2>3, SavesKept, SaveRemoved DEF FlagsMatchRequests
    <2>5. LoginMatches(net, authenticating)'
        BY <2>1, <2>2, <2>3, LoginKept DEF FlagsMatchRequests
    <2>. QED
        BY <2>4, <2>5 DEF FlagsMatchRequests
<1>. QED
    BY <1>1, <1>2, <1>3, <1>4, <1>5, <1>6, <1>7, <1>8, <1>9, <1>10, <1>11, <1>12, <1>13,
       <1>14, <1>15
       DEF Next, User, Serve, Arrive, Type, OthersChange, OthersSiteRequest, Event, Mutate, tab, vars

\* The flags that disable the Save buttons and the login form are set exactly
\* while their requests are in flight, and never stay set.
THEOREM FlagsStayMatched == Spec => []FlagsMatchRequests
<1>1. Init => FlagsMatchRequests
    <2>. SUFFICES ASSUME Init  PROVE FlagsMatchRequests
        OBVIOUS
    <2>1. \A s \in Slots : net[s].kind # "site" /\ net[s].login = FALSE
        BY DEF Init, NoRequest, Request
    <2>. QED
        BY <2>1 DEF Init, FlagsMatchRequests, SavesMatch, LoginMatches
<1>2. ListTypeOK /\ FlagsMatchRequests /\ [Next]_vars => FlagsMatchRequests'
    BY FlagsInductive
<1>. QED
    BY <1>1, <1>2, ListTypeCorrect, PTL DEF Spec
=============================================================================
