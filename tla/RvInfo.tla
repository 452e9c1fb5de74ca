------------------------------- MODULE RvInfo -------------------------------
(***************************************************************************)
(* The rendezvous information that the manufacturing server gives devices: *)
(* one row, written and read by two management APIs with a JSON format     *)
(* each (V1: internal/db/db.go, api/handlers/rvinfo.go; V2:                *)
(* internal/handlers/rvinfo, internal/state/rvinfo.go), stored as a third  *)
(* one, the CBOR that goes into vouchers, and migrated to it at startup.   *)
(*                                                                         *)
(* A JSON value, and a CBOR value, is a tuple of its type and what it      *)
(* holds.  An IP address stands for its canonical text, bytes for their    *)
(* lower-case hex text.                                                    *)
(***************************************************************************)
EXTENDS Integers, Sequences, FiniteSets

CONSTANTS
    Handler,     \* goroutines serving the V2 API
    Legacy,      \* the V1 documents that earlier releases stored as they were
    V1Input,     \* the JSON documents that V1 clients send
    V2Input,     \* those that V2 clients send
    IPText,      \* the canonical text of every text that is an IP address
    HexText,     \* and of every one that is bytes in hex
    MaxPort,     \* 65535, scaled down
    MaxUint32,   \* the largest uint32, scaled down
    Saturates,   \* does the build's float64 to uint32 conversion saturate?
    DBCanFail    \* may a statement fail?

ASSUME NumberAssumption ==
    /\ MaxPort \in Nat
    /\ MaxUint32 \in Nat
    /\ Saturates \in BOOLEAN
    /\ DBCanFail \in BOOLEAN

\* What net.IP.String and hex.EncodeToString print is read as what was printed.
Canonical(texts) ==
    \A s \in DOMAIN texts : texts[s] \in DOMAIN texts /\ texts[texts[s]] = texts[s]

ASSUME TextAssumption ==
    /\ Canonical(IPText)
    /\ Canonical(HexText)
    /\ \A s \in DOMAIN IPText : IPText[s] # ""
    /\ \A s \in DOMAIN HexText : s # "" => HexText[s] # ""

-----------------------------------------------------------------------------
(***************************************************************************)
(* Instructions.                                                           *)
(***************************************************************************)

TextKey == {"dns", "wifi_ssid", "wifi_pw"}
PortKey == {"device_port", "owner_port"}
HashKey == {"sv_cert_hash", "cl_cert_hash"}
BoolKey == {"dev_only", "owner_only", "rv_bypass"}
FlagKey == BoolKey \cup {"user_input"}

\* The fields of rvHuman, in the order in which V1 appends them.
V1Order == <<"dns", "ip", "protocol", "medium", "device_port", "owner_port",
             "wifi_ssid", "wifi_pw", "dev_only", "owner_only", "rv_bypass",
             "delay_seconds", "sv_cert_hash", "cl_cert_hash", "user_input", "ext_rv">>

Key == {V1Order[k] : k \in 1 .. Len(V1Order)}

Place(key) == CHOOSE k \in 1 .. Len(V1Order) : V1Order[k] = key

Rank(key, keys) == Cardinality({other \in keys : Place(other) <= Place(key)})

\* The keys of a set, in that order.
InOrder(keys) == [k \in 1 .. Cardinality(keys) |-> CHOOSE key \in keys : Rank(key, keys) = k]

\* What encoding/json makes of the values of a document.
JsonValue ==
    ({"str"} \X STRING) \cup ({"num"} \X Int) \cup {<<"frac">>} \cup ({"bool"} \X BOOLEAN)
    \cup ({"list"} \X Seq(STRING))

\* And those of V1, where text may be decimal, <<"dec", n>>, or hold a JSON list,
\* <<"json", list>>.
V1JsonValue == JsonValue \cup ({"dec"} \X Int) \cup ({"json"} \X Seq(STRING))

\* A field that rvHuman does not have is ignored: the objects are without.
ASSUME DocumentAssumption ==
    /\ V2Input \subseteq Seq(Seq(STRING \X JsonValue))
    /\ \A items \in Legacy \cup V1Input :
          /\ items \in Seq({items[i] : i \in DOMAIN items})
          /\ \A i \in DOMAIN items :
                /\ DOMAIN items[i] \subseteq Key
                /\ items[i] \in [DOMAIN items[i] -> V1JsonValue]

NoValue == <<"none">>

Refused == <<"refused">>

Instr(key, value) == [var |-> key, val |-> value]

ProtocolName == <<"rest", "http", "https", "tcp", "tls", "coap+tcp", "coap">>

MediumName == <<"eth_all", "wifi_all">>

\* ProtocolCodeFromString and MediumCodeFromString (medium codes count from 0).
CodeFromString(names, s) ==
    IF \E k \in 1 .. Len(names) : names[k] = s
       THEN <<"uint", (CHOOSE k \in 1 .. Len(names) : names[k] = s) - 1>>
       ELSE Refused

MutantSwapped(names, code) ==
    names[IF code >= 5 THEN 12 - code ELSE code + 1]

\* ProtocolStringFromCode and MediumStringFromCode, of a code that has a name.
StringFromCode(names, code) == names[code + 1]

\* net.ParseIP: an IPv4 address may be written as an IPv6 address too.
ParseIP(s) == IF s \in DOMAIN IPText THEN <<"bytes", IPText[s]>> ELSE Refused

MutantRawHex(s) == <<"text", s>>

\* hex.DecodeString
DecodeHex(s) == IF s \in DOMAIN HexText THEN <<"bytes", HexText[s]>> ELSE Refused

MutantAnyPort(n) == <<"uint", n>>

\* parsePortValue, of an integer
Port(n) == IF n \in 1 .. MaxPort THEN <<"uint", n>> ELSE Refused

\* uint32(num) of a whole float64: out of range, what the build makes of it.
ToUint32(n) ==
    IF n <= MaxUint32 THEN n
    ELSE IF Saturates THEN MaxUint32 ELSE n % (MaxUint32 + 1)

-----------------------------------------------------------------------------
(***************************************************************************)
(* V2: a list of directives, each a list of <<key, value>>.                *)
(***************************************************************************)

\* parseRvInstruction and encodeRvValue
parseRvInstruction(key, json) ==
    CASE key \in TextKey /\ json[1] = "str" -> <<"text", json[2]>>
      [] key = "ip" /\ json[1] = "str" -> ParseIP(json[2])
      [] key = "protocol" /\ json[1] = "str" -> CodeFromString(ProtocolName, json[2])
      [] key = "medium" /\ json[1] = "str" -> CodeFromString(MediumName, json[2])
      [] key \in PortKey /\ json[1] = "num" -> Port(json[2])
      [] key \in FlagKey /\ json = <<"bool", TRUE>> -> NoValue
      [] key = "delay_seconds" /\ json[1] = "num" ->
            IF json[2] >= 0 THEN <<"uint", ToUint32(json[2])>> ELSE Refused
      [] key \in HashKey /\ json[1] = "str" -> DecodeHex(json[2])
      [] key = "ext_rv" /\ json[1] = "list" -> <<"texts", json[2]>>
      [] OTHER -> Refused

HasDNSorIP(directive) ==
    \E k \in 1 .. Len(directive) : directive[k][1] \in {"dns", "ip"}

\* Does parseV2JSON accept the document?
AcceptsV2(directives) ==
    \A i \in 1 .. Len(directives) :
        /\ HasDNSorIP(directives[i])
        /\ \A k \in 1 .. Len(directives[i]) :
              parseRvInstruction(directives[i][k][1], directives[i][k][2]) # Refused

parseV2JSON(directives) ==
    [i \in 1 .. Len(directives) |->
        [k \in 1 .. Len(directives[i]) |->
            Instr(directives[i][k][1],
                  parseRvInstruction(directives[i][k][1], directives[i][k][2]))]]

\* What cbor.Unmarshal needs the value of a variable to be for a reader.
Decodes(instr) ==
    CASE instr.var \in TextKey -> instr.val[1] = "text"
      [] instr.var \in HashKey \cup {"ip"} -> instr.val[1] = "bytes"
      [] instr.var \in PortKey \cup {"protocol", "medium", "delay_seconds"} -> instr.val[1] = "uint"
      [] instr.var = "ext_rv" -> instr.val[1] = "texts"
      [] instr.var \in FlagKey -> TRUE

\* Can the readers of either API convert the configuration?
Readable(config) ==
    \A i \in 1 .. Len(config) : \A k \in 1 .. Len(config[i]) : Decodes(config[i][k])

\* The JSON value that convertToV2JSON gives an instruction.
V2Value(instr) ==
    CASE instr.var \in TextKey \cup HashKey \cup {"ip"} -> <<"str", instr.val[2]>>
      [] instr.var = "protocol" -> <<"str", StringFromCode(ProtocolName, instr.val[2])>>
      [] instr.var = "medium" -> <<"str", StringFromCode(MediumName, instr.val[2])>>
      [] instr.var \in PortKey \cup {"delay_seconds"} -> <<"num", instr.val[2]>>
      [] instr.var \in FlagKey -> <<"bool", TRUE>>
      [] instr.var = "ext_rv" -> <<"list", instr.val[2]>>

convertToV2JSON(config) ==
    [i \in 1 .. Len(config) |->
        [k \in 1 .. Len(config[i]) |-> <<config[i][k].var, V2Value(config[i][k])>>]]

-----------------------------------------------------------------------------
(***************************************************************************)
(* V1: a list of objects, each a function from keys to values.  Ports are  *)
(* decimal text, and the list of ext_rv is text that holds JSON.           *)
(***************************************************************************)

\* json.Unmarshal into rvHuman: the type of the field.
Fits(key, json) ==
    CASE key \in BoolKey -> json[1] = "bool"
      [] key = "delay_seconds" -> json[1] = "num" /\ json[2] \in 0 .. MaxUint32
      [] key \in PortKey -> json[1] \in {"str", "dec"}
      [] key = "ext_rv" -> json[1] \in {"str", "json"}
      [] OTHER -> json[1] = "str"

\* A field with the zero value of its type is as good as absent.
Present(item, key) ==
    key \in DOMAIN item /\ item[key] # <<"str", "">> /\ item[key] # <<"bool", FALSE>>

\* parsePortValue, of text: decimal, or refused.
PortText(json) == IF json[1] = "dec" THEN Port(json[2]) ELSE Refused

\* encodeRvValue, of the value of a field.
EncodeV1(key, json) ==
    CASE key \in TextKey \cup {"user_input"} -> <<"text", json[2]>>
      [] key = "ip" -> ParseIP(json[2])
      [] key = "protocol" -> CodeFromString(ProtocolName, json[2])
      [] key = "medium" -> CodeFromString(MediumName, json[2])
      [] key \in PortKey -> PortText(json)
      [] key \in BoolKey -> NoValue
      [] key = "delay_seconds" -> <<"uint", json[2]>>
      [] key \in HashKey -> DecodeHex(json[2])
      [] key = "ext_rv" -> <<"jsontext", json[2]>>

\* Does ParseHumanReadableRvJSON accept the document?
AcceptsV1(items) ==
    \A i \in 1 .. Len(items) :
        /\ \A key \in DOMAIN items[i] : Fits(key, items[i][key])
        /\ \E key \in {"dns", "ip"} : Present(items[i], key)
        /\ \A key \in DOMAIN items[i] :
              Present(items[i], key) => EncodeV1(key, items[i][key]) # Refused

ParseHumanReadableRvJSON(items) ==
    [i \in 1 .. Len(items) |->
        LET fields == InOrder({key \in Key : Present(items[i], key)})
        IN  [k \in 1 .. Len(fields) |->
                Instr(fields[k], EncodeV1(fields[k], items[i][fields[k]]))]]

MutantPortLost(instr) ==
    CASE instr.var \in PortKey -> <<"str", "">>
      [] instr.var = "ext_rv" -> <<"json", instr.val[2]>>
      [] instr.var = "user_input" -> <<"str", "true">>
      [] OTHER -> V2Value(instr)

\* The value that ConvertRvInstructionsToV1JSON gives the field of a variable.
V1Value(instr) ==
    CASE instr.var \in PortKey -> <<"dec", instr.val[2]>>
      [] instr.var = "ext_rv" -> <<"json", instr.val[2]>>
      [] instr.var = "user_input" -> <<"str", "true">>
      [] OTHER -> V2Value(instr)

\* One object per directive: of a variable that occurs twice the last counts,
\* and what is empty is omitted (omitempty).
ConvertRvInstructionsToV1JSON(config) ==
    [i \in 1 .. Len(config) |->
        LET Last(key) == CHOOSE k \in 1 .. Len(config[i]) :
                            /\ config[i][k].var = key
                            /\ \A l \in k + 1 .. Len(config[i]) : config[i][l].var # key
            Field(key) == V1Value(config[i][Last(key)])
            keys == {config[i][k].var : k \in 1 .. Len(config[i])}
        IN  [key \in {f \in keys : Field(f) # <<"str", "">>} |-> Field(key)]]

-----------------------------------------------------------------------------
(***************************************************************************)
(* The row and the requests.                                               *)
(***************************************************************************)

\* The row: none, the CBOR of a configuration, the V1 JSON that an earlier
\* release stored, or something else.
NoRow == <<"none">>
Cbor(config) == <<"cbor", config>>
Json(items) == <<"json", items>>
Unknown == <<"unknown">>

VARIABLES
    row,      \* the rvinfo row
    writer,   \* ghost: the API that wrote it
    pc,       \* where each V2 handler is
    put       \* the document its PUT was sent

vars == <<row, writer, pc, put>>

\* What devices are given: directives with an address and ports in range.
Usable(config) ==
    \A i \in 1 .. Len(config) :
        /\ \E k \in 1 .. Len(config[i]) : config[i][k].var \in {"dns", "ip"}
        /\ \A k \in 1 .. Len(config[i]) :
              /\ config[i][k].var \in Key
              /\ config[i][k].var \in PortKey => config[i][k].val[2] \in 1 .. MaxPort
              /\ config[i][k].var = "delay_seconds" => config[i][k].val[2] \in 0 .. MaxUint32

TypeOK ==
    /\ \/ row[1] \in {"none", "unknown", "json"}
       \/ row[1] = "cbor" /\ Usable(row[2])
    /\ writer \in {"v1", "v2"}
    /\ pc \in [Handler -> {"idle", "update", "create", "delete"}]
    /\ \A h \in Handler : put[h] \in V2Input \cup {<<>>}

\* migrateRvInfoToCBOR, at startup, which nothing else runs alongside: V1 JSON
\* becomes CBOR, everything else is left alone.
Migrated(r) ==
    IF r[1] = "json" /\ AcceptsV1(r[2]) THEN Cbor(ParseHumanReadableRvJSON(r[2])) ELSE r

Idle ==
    /\ pc = [h \in Handler |-> "idle"]
    /\ put = [h \in Handler |-> <<>>]

\* The server starts without a row, or on that of an earlier release (which the
\* migration may have failed to convert).
Init ==
    /\ \/ row \in {NoRow, Unknown}
       \/ \E items \in Legacy : row \in {Json(items), Migrated(Json(items))}
    /\ writer = "v1"
    /\ Idle

Write(config, api) ==
    /\ row' = Cbor(config)
    /\ writer' = api

Goto(h, label) == pc' = [pc EXCEPT ![h] = label]

Answered(h) ==
    /\ Goto(h, "idle")
    /\ put' = [put EXCEPT ![h] = <<>>]

\* INSERT ... ON CONFLICT DO NOTHING
InsertRvInfoCBOR(config, api) == row = NoRow /\ Write(config, api)

\* UPDATE
UpdateRvInfoCBOR(config, api) == row # NoRow /\ Write(config, api)

\* V1 POST (201; 409 if there is a row, 400 if the document is refused: nothing
\* changes).
createRvInfo(items) ==
    /\ AcceptsV1(items)
    /\ InsertRvInfoCBOR(ParseHumanReadableRvJSON(items), "v1")
    /\ UNCHANGED <<pc, put>>

\* V1 PUT (200; 404 if there is no row, 400).
updateRvInfo(items) ==
    /\ AcceptsV1(items)
    /\ UpdateRvInfoCBOR(ParseHumanReadableRvJSON(items), "v1")
    /\ UNCHANGED <<pc, put>>

\* V2 PUT: a document that is refused is answered 400 at once.
UpdateRendezvousInfo(h, directives) ==
    /\ pc[h] = "idle"
    /\ AcceptsV2(directives)
    /\ Goto(h, "update")
    /\ put' = [put EXCEPT ![h] = directives]
    /\ UNCHANGED <<row, writer>>

\* The Save of UpsertRvInfoCBOR is an UPDATE and, if that finds no row, an
\* INSERT ... ON CONFLICT DO UPDATE.
SaveUpdates(h) ==
    /\ pc[h] = "update"
    /\ IF row # NoRow
          THEN Write(parseV2JSON(put[h]), "v2") /\ Answered(h)
          ELSE Goto(h, "create") /\ UNCHANGED <<row, writer, put>>

SaveCreates(h) ==
    /\ pc[h] = "create"
    /\ Write(parseV2JSON(put[h]), "v2")
    /\ Answered(h)

\* V2 DELETE: FetchRvInfo and the conversion of what the answer will be.  No
\* row is answered 200, one that cannot be read or converted 500.
DeleteRendezvousInfo(h) ==
    /\ pc[h] = "idle"
    /\ row[1] = "cbor"
    /\ Readable(row[2])
    /\ Goto(h, "delete")
    /\ UNCHANGED <<row, writer, put>>

\* DeleteRvInfo (500 if the row is gone).
DeleteRvInfo(h) ==
    /\ pc[h] = "delete"
    /\ row' = NoRow
    /\ Answered(h)
    /\ UNCHANGED writer

StatementFails(h) ==
    /\ DBCanFail
    /\ pc[h] # "idle"
    /\ Answered(h)
    /\ UNCHANGED <<row, writer>>

\* The server is started again; the migration is best-effort.
Restart ==
    /\ row' \in {Migrated(row)} \cup IF DBCanFail THEN {row} ELSE {}
    /\ pc' = [h \in Handler |-> "idle"]
    /\ put' = [h \in Handler |-> <<>>]
    /\ UNCHANGED writer

Next ==
    \/ \E items \in V1Input : createRvInfo(items) \/ updateRvInfo(items)
    \/ \E h \in Handler :
          \/ \E directives \in V2Input : UpdateRendezvousInfo(h, directives)
          \/ SaveUpdates(h)
          \/ SaveCreates(h)
          \/ DeleteRendezvousInfo(h)
          \/ DeleteRvInfo(h)
          \/ StatementFails(h)
    \/ Restart

Spec == Init /\ [][Next]_vars

-----------------------------------------------------------------------------
(***************************************************************************)
(* Properties.                                                             *)
(***************************************************************************)

\* ConfigReadable: what either API accepted, and what was migrated, can be
\* read through both: no accepted configuration makes the GETs, and DELETE,
\* answer 500 (encodeRvValue against the readers' cbor.Unmarshal).  ext_rv of
\* V1, of which a test says that it "is stored as JSON array string in V1",
\* breaks it.
ConfigReadable == row[1] = "cbor" => Readable(row[2])

WithUserInput(config, value) ==
    [i \in 1 .. Len(config) |->
        [k \in 1 .. Len(config[i]) |->
            IF config[i][k].var = "user_input" THEN Instr("user_input", value) ELSE config[i][k]]]

\* V2ReadWriteKeeps: a client that reads the configuration through V2, whoever
\* wrote it, and writes it back changes nothing for the devices (the value of
\* user_input aside, which has no meaning): convertToV2JSON and parseV2JSON
\* are inverse to each other although no code relates them.
V2ReadWriteKeeps ==
    row[1] = "cbor" /\ Readable(row[2]) =>
        LET json == convertToV2JSON(row[2])
        IN  AcceptsV2(json) /\ parseV2JSON(json) = WithUserInput(row[2], NoValue)

\* V1ReadWriteKeeps: so does a V1 client with what V1 wrote or was migrated
\* (ConvertRvInstructionsToV1JSON, ParseHumanReadableRvJSON).
V1ReadWriteKeeps ==
    row[1] = "cbor" /\ Readable(row[2]) /\ writer = "v1" =>
        LET json == ConvertRvInstructionsToV1JSON(row[2])
        IN  /\ AcceptsV1(json)
            /\ ParseHumanReadableRvJSON(json) = WithUserInput(row[2], <<"text", "true">>)
===========================================================================
