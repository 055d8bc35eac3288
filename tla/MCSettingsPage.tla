--------------------------- MODULE MCSettingsPage ----------------------------
(* Values of the constants of SettingsPage for TLC. *)
EXTENDS SettingsPage, TLC

McFields == {"host", "jmin", "jmax", "publicKey"}

\* "a b" is a name to the UI, not to the server.
McAccepts(hosts) == [f \in TextFields |-> IF f = "host" THEN hosts ELSE {}]
McServerAccepts == McAccepts({"vpn"})
McUiAccepts     == McAccepts({"vpn", "a b"})

\* 60 and 50 are valid, but not together.
McInputs  == "host" :> {"a b"} @@ "jmax" :> {50}
McPatches == {"jmin" :> 60}
McSeeds   == "host" :> "vpn"
McStored  == {"jmin" :> 50 @@ "jmax" :> 70 @@ "publicKey" :> "k1"}
=============================================================================
