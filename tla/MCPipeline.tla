---------------------------- MODULE MCPipeline ----------------------------
(***************************************************************************)
(* Pipeline on records of the four vendors about two hosts, the protected  *)
(* domain controller dc01 and the workstation ws-7, the accounts alice and *)
(* bob, known-bad addresses and a known-bad domain; bob and one of the     *)
(* addresses are protected.  The records are chosen so that every          *)
(* hypothesis occurs, alone and together with others, and so that the same *)
(* things come in different fields and spellings, alone and in lists.      *)
(***************************************************************************)
EXTENDS Pipeline, TLC

MCRawValues == {"DC01", "dc01", "ws-7", "CORP\\alice", "alice", "BOB", "bob", "SYSTEM",
                "system", "203.0.113.5", "[203.0.113.5]", "198.51.100.7", "10.0.0.9",
                "127.0.0.1", "evil.example"}

\* security.py, on these values.
Lower == ("DC01" :> "dc01" @@ "BOB" :> "bob" @@ "SYSTEM" :> "system" @@ [v \in MCRawValues |-> v])

Ips == {"203.0.113.5", "198.51.100.7", "10.0.0.9", "127.0.0.1"}

MCCanonical ==
    [k \in EntityTypes |-> [v \in MCRawValues |->
        CASE k = "host" -> IF v \in {"CORP\\alice", "[203.0.113.5]"} THEN {} ELSE {Lower[v]}
          [] k = "user" -> IF v = "CORP\\alice" THEN {"alice"} ELSE {Lower[v]}
          [] k = "ip" -> IF v = "[203.0.113.5]" THEN {"203.0.113.5"} ELSE {v} \intersect Ips
          [] k = "domain" -> {v} \intersect {"evil.example"}
          [] k = "url" -> {v}
          [] OTHER -> {}]]

MCDomainOfUrl == [v \in MCRawValues |-> {v} \intersect {"evil.example"}]

MCDotted == {"ws-7", "203.0.113.5", "[203.0.113.5]", "198.51.100.7", "10.0.0.9", "127.0.0.1",
             "evil.example"}

Blank == [source |-> "", event |-> "", search |-> "", at |-> 0, titled |-> TRUE, timed |-> TRUE,
          severity |-> <<"word", "medium">>, techniques |-> {}, tactics |-> {}, words |-> {},
          fields |-> {}, listed |-> {}]

Splunk == [Blank EXCEPT !.source = "splunk"]
Sentinel == [Blank EXCEPT !.source = "sentinel"]
Crowdstrike == [Blank EXCEPT !.source = "crowdstrike"]
Elastic == [Blank EXCEPT !.source = "elastic"]
Generic == [Blank EXCEPT !.source = "generic"]

Spray == [Splunk EXCEPT !.techniques = {"T1110"}, !.severity = <<"number", 40>>,
    !.fields = {<<"user", "CORP\\alice">>, <<"src_user", "BOB">>, <<"dest", "[203.0.113.5]">>}]

SignIn == [Sentinel EXCEPT !.words = {"success"}, !.severity = <<"word", "low">>,
    !.fields = {<<"Account", "alice">>, <<"CompromisedEntity", "ws-7">>, <<"Ip", "127.0.0.1">>}]

Script == [Crowdstrike EXCEPT !.techniques = {"T1059"}, !.severity = <<"number", 75>>,
    !.fields = {<<"device.hostname", "DC01">>, <<"user_name", "CORP\\alice">>}]

Beacon == [Elastic EXCEPT !.techniques = {"T1071"}, !.severity = <<"word", "high">>,
    !.fields = {<<"host.name", "dc01">>, <<"destination.ip", "203.0.113.5">>}]

Encryption == [Crowdstrike EXCEPT !.techniques = {"T1486"}, !.severity = <<"number", 95>>,
    !.fields = {<<"device.hostname", "ws-7">>, <<"user_name", "SYSTEM">>,
                <<"ioc.ipv4", "203.0.113.5">>, <<"ioc.ipv4", "198.51.100.7">>},
    !.listed = {"ioc.ipv4"}]

RemoteLogon == [Sentinel EXCEPT !.techniques = {"T1021"}, !.severity = <<"word", "Strange">>,
    !.fields = {<<"Host", "DC01">>, <<"Host", "ws-7">>, <<"Account", "alice">>}]

Mail == [Elastic EXCEPT !.event = "m1", !.techniques = {"T1566"}, !.severity = <<"number", 10>>,
    !.fields = {<<"user.name", "alice">>, <<"url.full", "evil.example">>}]

\* The host and the address in the list dest both become hosts, and the list src_ip nothing.
Upload == [Splunk EXCEPT !.tactics = {"TA0010", "Unknown"}, !.severity = <<"word", "info">>,
    !.fields = {<<"host", "ws-7">>, <<"url", "evil.example">>, <<"dest_ip", "10.0.0.9">>,
                <<"dest", "DC01">>, <<"dest", "203.0.113.5">>, <<"src_ip", "203.0.113.5">>},
    !.listed = {"dest", "src_ip"}]

Implant == [Crowdstrike EXCEPT !.techniques = {"T1059", "T1071"}, !.words = {"anomaly"},
    !.fields = {<<"device.hostname", "ws-7">>, <<"ioc.ipv4", "203.0.113.5">>}]

\* A record of the normalised schema, and one of a type that the schema does not know.
Exported == [Generic EXCEPT !.event = "g2", !.tactics = {"TA0003"}, !.techniques = {"T1490"},
    !.fields = {<<"host", "DC01">>, <<"ip", "203.0.113.5">>}]

Misfit == [Generic EXCEPT !.event = "g3", !.fields = {<<"hostname", "ws-7">>}]

Untitled == [Elastic EXCEPT !.titled = FALSE]

MCRecords == {Spray, SignIn, Script, Beacon, Encryption, RemoteLogon, Mail, Upload, Implant,
              Exported, Misfit, Untitled}

\* Sightings of one infected host by one vendor.
MCImplants == {Implant}

MCNoise == {<<"user", "system">>, <<"ip", "127.0.0.1">>}

MCIndicators == {<<"ip", "203.0.113.5">>, <<"ip", "198.51.100.7">>, <<"ip", "10.0.0.9">>,
                 <<"domain", "evil.example">>}

MCOwnerOf == [h \in {"dc01", "ws-7"} |-> IF h = "dc01" THEN {"alice"} ELSE {}]

MCEntities ==
    UNION {{k} \X UNION {MCCanonical[k][v] : v \in MCRawValues} : k \in EntityTypes}
        \union Exported.fields

\* The whole history, and a lookback that has lost the first alert.
MCPeriods == {<<1, 3>>, <<2, 3>>}
==========================================================================
