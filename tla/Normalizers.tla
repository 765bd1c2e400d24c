--------------------------- MODULE Normalizers ---------------------------
(***************************************************************************)
(* normalizers.py, mitre.py and the canonical forms of security.py: what   *)
(* alert a record of a source becomes.  A record is its source, whether it *)
(* has a title and a readable time, its ids, the number of its time, its   *)
(* severity, its techniques and tactics, the telling words of its text and *)
(* its fields, as pairs of a name and a value, with the names of those     *)
(* that hold a list (listed), each item of it a pair of its own.  An       *)
(* entity is a pair of a type and a value.  Nested and aliased field names *)
(* are written as one name; limits of length, attributes, redaction and    *)
(* values that are no texts are left out.                                  *)
(***************************************************************************)
EXTENDS Integers, FiniteSets

CONSTANTS
    RawValues,      \* what a field may hold
    Canonical,      \* for each type and value the canonical form, as a set of at most one
    DomainOfUrl,    \* for each value the domain of the URL, as a set of at most one
    Dotted          \* values with a dot or a dash

EntityTypes == {"host", "user", "ip", "domain", "hash", "url", "email"}

ASSUME NormalizerAssumption ==
    /\ DOMAIN Canonical = EntityTypes
    /\ \A k \in EntityTypes : /\ DOMAIN Canonical[k] = RawValues
                              /\ \A v \in RawValues : /\ Cardinality(Canonical[k][v]) \in {0, 1}
                                                      /\ Canonical[k][v] \subseteq RawValues
    /\ DOMAIN DomainOfUrl = RawValues
    /\ Dotted \subseteq RawValues

\* Wrong variant: an address is not recognised and becomes a host.
IsIpNever(v) == v \notin RawValues

IsIp(v) == Canonical["ip"][v] # {}

\* Wrong variant: host names are kept as they come.
CollectedVerbatim(kind, v) ==
    IF kind = "host" THEN {<<kind, v>>} ELSE {<<kind, c>> : c \in Canonical[kind][v]}

\* EntityBag.add: the canonical value, nothing for an invalid one, and the domain of
\* a URL besides the URL.
Collected(kind, v) ==
    {<<kind, c>> : c \in Canonical[kind][v]}
        \union {<<"domain", d>> : d \in IF kind = "url" THEN DomainOfUrl[v] ELSE {}}

(***************************************************************************)
(* Which types the mapping of each source gives to the value v of field f: *)
(* EntityBag.add takes lists apart, but drops a list inside a list, which  *)
(* is what some mappings make of a field that holds one.                   *)
(***************************************************************************)
SplunkTypes(raw, f, v) ==
    LET text == f \notin raw.listed
    IN  {k \in EntityTypes :
            \/ /\ k = "ip" /\ text /\ IsIp(v)
               /\ f \in {"src", "src_ip", "dest_ip", "dest", "src_host", "dest_host", "host"}
            \/ /\ k = "host" /\ ~(text /\ IsIp(v))
               /\ f \in {"dest", "dest_host", "src_host", "host"}
            \/ k = "user" /\ text /\ f \in {"user", "src_user", "dest_user"}
            \/ k = "hash" /\ text /\ f \in {"file_hash", "hash", "sha256", "md5"}
            \/ k = "url" /\ f = "url"
            \/ k = "domain" /\ text /\ f \in {"domain", "query"}}

\* CompromisedEntity is a host if its text, the text of all of a list, has a dot or a dash.
SentinelTypes(raw, f, v) ==
    {k \in EntityTypes :
        \/ k = "host" /\ f = "Host"
        \/ /\ k = "host" /\ f = "CompromisedEntity"
           /\ \E x \in raw.fields : x[1] = f /\ x[2] \in Dotted
        \/ k = "user" /\ f = "Account"
        \/ k = "ip" /\ f = "Ip"
        \/ k = "url" /\ f = "Url"
        \/ k = "domain" /\ f = "Dns"
        \/ k = "hash" /\ f = "File"}

CrowdstrikeTypes(raw, f, v) ==
    LET text == f \notin raw.listed
    IN  {k \in EntityTypes :
            \/ k = "host" /\ text /\ f \in {"device.hostname", "hostname"}
            \/ k = "ip" /\ text /\ f \in {"device.local_ip", "device.external_ip"}
            \/ k = "ip" /\ f \in {"ioc.ipv4", "ioc.ipv6"}
            \/ k = "user" /\ f = "user_name"
            \/ k = "hash" /\ text /\ f \in {"sha256", "md5"}
            \/ k = "hash" /\ f \in {"ioc.sha256", "ioc.md5"}
            \/ k = "domain" /\ f = "ioc.domain"}

ElasticTypes(raw, f, v) ==
    LET text == f \notin raw.listed
    IN  {k \in EntityTypes :
            \/ k = "host" /\ f = "host.name"
            \/ k = "user" /\ f = "user.name"
            \/ k = "ip" /\ text /\ f \in {"source.ip", "destination.ip"}
            \/ /\ k = "hash" /\ text
               /\ f \in {"process.hash.sha256", "file.hash.sha256", "file.hash.md5"}
            \/ k = "domain" /\ f = "dns.question.name"
            \/ k = "url" /\ f = "url.full"
            \/ k = "email" /\ f = "email.from.address"}

FieldTypes(raw, f, v) ==
    CASE raw.source = "splunk" -> SplunkTypes(raw, f, v)
      [] raw.source = "sentinel" -> SentinelTypes(raw, f, v)
      [] raw.source = "crowdstrike" -> CrowdstrikeTypes(raw, f, v)
      [] raw.source = "elastic" -> ElasticTypes(raw, f, v)

\* Records of the normalised schema name the type and keep the value as it is.
EntitiesOf(raw) ==
    IF raw.source = "generic" THEN raw.fields
    ELSE UNION {UNION {Collected(k, fv[2]) : k \in FieldTypes(raw, fv[1], fv[2])} :
                fv \in raw.fields}

(***************************************************************************)
(* mitre.py: tactics in the order of an attack, and the tactic that each   *)
(* technique of the catalogue implies.  A sub-technique is its parent.     *)
(***************************************************************************)
Tactics == {"TA0001", "TA0002", "TA0003", "TA0004", "TA0005", "TA0006",
            "TA0007", "TA0008", "TA0009", "TA0010", "TA0011", "TA0040"}

Implied(technique) ==
    CASE technique \in {"T1078", "T1190", "T1566"} -> {"TA0001"}
      [] technique = "T1059" -> {"TA0002"}
      [] technique \in {"T1053", "T1547"} -> {"TA0003"}
      [] technique = "T1562" -> {"TA0005"}
      [] technique \in {"T1003", "T1110"} -> {"TA0006"}
      [] technique = "T1021" -> {"TA0008"}
      [] technique \in {"T1071", "T1105"} -> {"TA0011"}
      [] technique \in {"T1041", "T1048"} -> {"TA0010"}
      [] technique \in {"T1486", "T1490"} -> {"TA0040"}
      [] OTHER -> {}

\* mitre_fields: unknown tactics are dropped, implied ones added; not for generic.
TacticsOf(raw) ==
    IF raw.source = "generic" THEN raw.tactics
    ELSE (raw.tactics \intersect Tactics) \union UNION {Implied(t) : t \in raw.techniques}

\* Severity.rank.
SeverityWords == [info |-> 0, low |-> 1, medium |-> 2, high |-> 3, critical |-> 4]

\* map_severity: numbers by limits; unknown words are medium.
SeverityOf(raw) ==
    LET kind == raw.severity[1]
        value == raw.severity[2]
    IN  CASE kind = "number" -> Cardinality({limit \in {20, 40, 70, 90} : value >= limit})
          [] kind = "word" /\ value \in DOMAIN SeverityWords -> SeverityWords[value]
          [] OTHER -> 2

\* NormalizeError: no title or time, or for generic a field the schema does not know.
Rejected(raw) ==
    \/ ~raw.titled \/ ~raw.timed
    \/ /\ raw.source = "generic"
       /\ \/ raw.event = ""
          \/ ~ (raw.severity[1] = "word" /\ raw.severity[2] \in DOMAIN SeverityWords)
          \/ \E fv \in raw.fields : fv[1] \notin EntityTypes

\* alert_id: the id of the vendor, for Splunk else the id of the search, else a hash
\* of what identifies the alert.  Generic records bring an id of their own; that it
\* may be the id of another source's alert is left out.
AlertId(raw) ==
    CASE raw.event # "" -> <<raw.source, raw.event>>
      [] raw.event = "" /\ raw.source = "splunk" /\ raw.search # "" -> <<"splunk", raw.search>>
      [] OTHER -> <<raw.source, raw.words, raw.at, EntitiesOf(raw)>>

\* build and generic: the alert that record raw becomes, as alert number n.
Normalized(raw, n) ==
    [id |-> n, key |-> AlertId(raw), at |-> raw.at, severity |-> SeverityOf(raw),
     entities |-> EntitiesOf(raw), techniques |-> raw.techniques, tactics |-> TacticsOf(raw),
     words |-> raw.words]
==========================================================================
