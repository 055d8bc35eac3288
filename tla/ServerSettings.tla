--------------------------- MODULE ServerSettings ----------------------------
(***************************************************************************)
(* The rules of the server settings: src/lib/serverSettings.js, its mirror  *)
(* in the UI (src/www/js/app.js) and the random header ranges of            *)
(* src/config.js.                                                           *)
(*                                                                         *)
(* A settings record is a function from field names to values.  A number    *)
(* field holds an integer, or Blank for what does not parse as one (an      *)
(* empty MTU is Blank too).  A text field holds a member of Texts: what the *)
(* two validators say of a text is all that matters of it, so the constants *)
(* ServerAccepts and UiAccepts give their verdicts.                         *)
(***************************************************************************)
EXTENDS Integers

CONSTANTS
    Fields,         \* the fields of the instance
    Blank,          \* null, '' or a text that is no integer
    Texts,          \* the texts of the instance
    ServerAccepts,  \* the texts isValidHostname, isValidIPList, ... accept
    UiAccepts       \* the texts svIsIP, svIsCIDR and the regexps of the UI accept

HSpaceMin == 5
HSpaceMax == 2147483647

NumberFields == {"port", "mtu", "persistentKeepalive", "jc", "jmin", "jmax",
                 "s1", "s2", "s3", "s4"}
RangeFields  == {"h1", "h2", "h3", "h4"}
TextFields   == {"host", "dns", "allowedIPs", "defaultAddress"}
FreeFields   == {"i1", "i2", "i3", "i4", "i5", "publicKey"}
AllFields    == NumberFields \cup RangeFields \cup TextFields \cup FreeFields

HSpace == HSpaceMin .. HSpaceMax

\* What a field can hold.
Values(f) ==
    CASE f \in NumberFields -> Int \cup {Blank}
      [] f \in RangeFields  -> [min: Int, max: Int] \cup {Blank}
      [] OTHER              -> Texts

IsPatch(p) ==
    /\ p = [f \in DOMAIN p |-> p[f]]
    /\ \A f \in DOMAIN p : p[f] \in Values(f)

IsSettings(s) == DOMAIN s = Fields /\ IsPatch(s)

ASSUME SettingsAssumption ==
    /\ Fields \subseteq AllFields
    /\ ServerAccepts \in [TextFields -> SUBSET Texts]
    /\ UiAccepts \in [TextFields -> SUBSET Texts]

-----------------------------------------------------------------------------
(* The validator of the server *)

Limits(f) ==
    CASE f = "port" -> 1 .. 65535
      [] f = "mtu"  -> 576 .. 1500
      [] f = "persistentKeepalive" -> 0 .. 65535
      [] f = "jc"   -> 1 .. 128
      [] OTHER      -> 0 .. 1280

IsHeaderRange(h) ==
    h # Blank /\ h.min \in HSpace /\ h.max \in HSpace /\ h.min <= h.max

\* The check of one field.  defaultAddress must be the x-template of the
\* subnet of the server's own address; i1 to i5 are any text; no rule names
\* publicKey, which the UI sends back with the rest.
ValidField(f, v) ==
    CASE f \in NumberFields -> v \in Limits(f) \/ (f = "mtu" /\ v = Blank)
      [] f \in RangeFields  -> IsHeaderRange(v)
      [] f \in TextFields   -> v \in ServerAccepts[f]
      [] OTHER              -> TRUE

\* Object.assign(config.server, patch)
Assign(server, patch) ==
    [f \in DOMAIN server |-> IF f \in DOMAIN patch THEN patch[f] ELSE server[f]]

\* Jmin and Jmax are compared whoever of them the patch brings.
CrossError(bad, s) ==
    /\ {"jmin", "jmax"} \subseteq DOMAIN s
    /\ bad \cap {"jmin", "jmax"} = {}
    /\ s["jmin"] > s["jmax"]

\* Mutant: Jmin and Jmax are compared only if the patch brings both.
ValidateServerSettings_PatchOnly(patch, current) ==
    LET bad == {f \in DOMAIN patch : ~ ValidField(f, patch[f])}
    IN bad \cup IF CrossError(bad, patch) THEN {"jmax"} ELSE {}

\* The fields with an error.
ValidateServerSettings(patch, current) ==
    LET bad == {f \in DOMAIN patch : ~ ValidField(f, patch[f])}
    IN bad \cup IF CrossError(bad, Assign(current, patch)) THEN {"jmax"} ELSE {}

-----------------------------------------------------------------------------
(* What a change means to the tunnel *)

RestartFields  == {"port", "mtu", "jc", "jmin", "jmax", "s1", "s2", "s3", "s4",
                   "h1", "h2", "h3", "h4"}
ReimportFields == {"host"} \cup RestartFields

EqualValue(f, a, b) ==
    IF f \in RangeFields THEN a.min = b.min /\ a.max = b.max ELSE a = b

\* classify: the fields a patch changes, and what the change asks for.
Changed(prev, next) == {f \in DOMAIN next : ~ EqualValue(f, prev[f], next[f])}
NeedsRestart(prev, next) == Changed(prev, next) \cap RestartFields # {}
MustReimport(prev, next) == Changed(prev, next) \cap ReimportFields # {}

\* A field that wg0.json lacks is seeded from the environment.
SeedServerDefaults(server, seeds) ==
    [f \in DOMAIN server \cup DOMAIN seeds |->
        IF f \in DOMAIN server THEN server[f] ELSE seeds[f]]

-----------------------------------------------------------------------------
(* The validator of the UI, for the inline errors and the Save button *)

UiLimits(f) ==
    CASE f = "port" -> 1 .. 65535
      [] f = "mtu"  -> 576 .. 1500
      [] f = "persistentKeepalive" -> 0 .. 65535
      [] f = "jc"   -> 1 .. 128
      [] OTHER      -> 0 .. 1280

UiHSpaceMax == 2147483647
UiHSpace    == 5 .. UiHSpaceMax

UiValidField(f, v) ==
    CASE f \in NumberFields -> v \in UiLimits(f) \/ (f = "mtu" /\ v = Blank)
      [] f \in RangeFields  -> v # Blank /\ v.min \in UiHSpace /\ v.max \in UiHSpace
                               /\ v.min <= v.max
      [] f \in TextFields   -> v \in UiAccepts[f]
      [] OTHER              -> TRUE

\* Mutant: the UI does not compare Jmin and Jmax.
ValidateServerDraft_NoCross(draft) ==
    {f \in DOMAIN draft : ~ UiValidField(f, draft[f])}

ValidateServerDraft(draft) ==
    LET bad == {f \in DOMAIN draft : ~ UiValidField(f, draft[f])}
    IN bad \cup IF CrossError(bad, draft) THEN {"jmax"} ELSE {}

-----------------------------------------------------------------------------
(* The header ranges of a new server *)

QuadrantSize(lo, hi) == (hi - lo) \div 4

\* Quadrant i of [lo, hi], as its two ends.
Quadrant(lo, hi, i) ==
    [min |-> lo + (i - 1) * QuadrantSize(lo, hi),
     max |-> IF i = 4 THEN hi ELSE lo + i * QuadrantSize(lo, hi)]

\* getRandomInt(a, b): from a up to, but not including, b.
RandomInt(a, b) == IF a < b THEN a .. b - 1 ELSE {a}

\* getRandomHRangeIn: a range of 30 to 80 % of the quadrant, the products taken
\* exactly.
RandomHRanges(q) ==
    LET span == q.max - q.min
    IN UNION {{[min |-> m, max |-> m + size] : m \in RandomInt(q.min, q.max - size)} :
                  size \in RandomInt((span * 3) \div 10, (span * 8) \div 10)}
=============================================================================
