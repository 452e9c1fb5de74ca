---------------------------- MODULE RvInfoProofs ----------------------------
(***************************************************************************)
(* Theorems about the rendezvous information, for any documents that the   *)
(* clients of both APIs send and any that earlier releases stored.         *)
(***************************************************************************)
EXTENDS RvInfo, FiniteSetTheorems, TLAPS

-----------------------------------------------------------------------------
(***************************************************************************)
(* The order in which V1 appends the fields.                               *)
(***************************************************************************)

\* Every key has a place in the order.
LEMMA Places ==
    ASSUME NEW key \in Key
    PROVE  Place(key) \in 1 .. 16 /\ Place(key) \in Int /\ V1Order[Place(key)] = key
<1>1. Len(V1Order) = 16
  BY DEF V1Order
<1>2. \E k \in 1 .. Len(V1Order) : V1Order[k] = key
  BY DEF Key
<1> QED
  BY <1>1, <1>2 DEF Place

\* Every key has a place of its own, so a set of keys is finite.
LEMMA KeysFinite ==
    ASSUME NEW S \in SUBSET Key
    PROVE  IsFiniteSet(S) /\ Cardinality(S) \in Nat
<1> DEFINE f == [key \in S |-> Place(key)]
<1>1. f \in Injection(S, 1 .. 16)
  BY Places DEF Injection, IsInjective
<1>2. \A b \in Int : IsFiniteSet(1 .. b)
  BY FS_Interval
<1>3. IsFiniteSet(1 .. 16)
  BY <1>2, 16 \in Int
<1>4. IsFiniteSet(S)
  BY <1>1, <1>3, FS_Injection
<1> QED
  BY <1>4, FS_CardinalityType

\* Ranks count from 1.
LEMMA Ranks ==
    ASSUME NEW S \in SUBSET Key, NEW key \in S
    PROVE  Rank(key, S) \in 1 .. Cardinality(S)
<1> DEFINE below == {other \in S : Place(other) <= Place(key)}
<1>1. IsFiniteSet(S) /\ Cardinality(S) \in Nat
  BY KeysFinite
<1>2. IsFiniteSet(below) /\ Cardinality(below) <= Cardinality(S)
  BY <1>1, FS_Subset
<1>3. Cardinality(below) \in Nat
  BY <1>2, FS_CardinalityType
<1>4. key \in below
  BY Places
<1>5. Cardinality(below) # 0
  BY <1>2, <1>4, FS_EmptySet
<1> QED
  BY <1>1, <1>2, <1>3, <1>5 DEF Rank

\* Different keys have different ranks.
LEMMA RanksDiffer ==
    ASSUME NEW S \in SUBSET Key, NEW k \in S, NEW l \in S, Rank(k, S) = Rank(l, S)
    PROVE  k = l
<1> DEFINE below(x) == {other \in S : Place(other) <= Place(x)}
<1>0. IsFiniteSet(S)
  BY KeysFinite
<1>1. ASSUME NEW x \in S PROVE Place(x) \in Int /\ V1Order[Place(x)] = x
  BY Places
<1>2. \A x \in S : IsFiniteSet(below(x)) /\ x \in below(x)
  BY <1>0, <1>1, FS_Subset
<1>3. ASSUME NEW x \in S, NEW y \in S, Rank(x, S) = Rank(y, S), Place(x) <= Place(y)
      PROVE  x = y
  <2>1. below(x) \in SUBSET below(y)
    BY <1>1, <1>3
  <2>2. Cardinality(below(y)) = Cardinality(below(x))
    BY <1>3 DEF Rank
  <2>3. below(y) = below(x)
    BY <1>2, <2>1, <2>2, FS_Subset
  <2>4. Place(y) <= Place(x)
    BY <1>2, <2>3
  <2>5. Place(x) = Place(y)
    BY <1>1, <1>3, <2>4
  <2> QED
    BY <1>1, <2>5
<1>4. Place(k) <= Place(l) \/ Place(l) <= Place(k)
  BY <1>1
<1> QED
  BY <1>3, <1>4

\* The keys in order are the keys, each of them once.
LEMMA InOrderKeys ==
    ASSUME NEW S \in SUBSET Key
    PROVE  /\ InOrder(S) \in Seq(S)
           /\ \A key \in S : \E k \in 1 .. Len(InOrder(S)) : InOrder(S)[k] = key
           /\ \A k, l \in 1 .. Len(InOrder(S)) : InOrder(S)[k] = InOrder(S)[l] => k = l
<1> DEFINE n == Cardinality(S)
           f == [key \in S |-> Rank(key, S)]
<1>1. IsFiniteSet(S) /\ n \in Nat
  BY KeysFinite
<1>2. f \in Injection(S, 1 .. n)
  BY Ranks, RanksDiffer DEF Injection, IsInjective
<1>3. IsFiniteSet(1 .. n) /\ Cardinality(1 .. n) = n
  BY <1>1, FS_Interval
<1>4. f \in Surjection(S, 1 .. n)
  BY <1>2, <1>3, FS_Injection
<1>5. \A k \in 1 .. n : \E key \in S : Rank(key, S) = k
  BY <1>4 DEF Surjection
<1>6. \A k \in 1 .. n : InOrder(S)[k] \in S /\ Rank(InOrder(S)[k], S) = k
  BY <1>5 DEF InOrder
<1>7. InOrder(S) \in Seq(S) /\ Len(InOrder(S)) = n
  <2>1. InOrder(S) \in [1 .. n -> S]
    BY <1>6 DEF InOrder
  <2> HIDE DEF n
  <2> QED
    BY <1>1, <2>1
<1>8. ASSUME NEW key \in S PROVE \E k \in 1 .. n : InOrder(S)[k] = key
  <2>1. Rank(key, S) \in 1 .. n
    BY Ranks
  <2> QED
    BY <1>6, <2>1, RanksDiffer
<1> QED
  BY <1>6, <1>7, <1>8

-----------------------------------------------------------------------------
(***************************************************************************)
(* One instruction: what is parsed, printed and parsed again.              *)
(***************************************************************************)

\* The keys, one by one.
LEMMA Keys ==
    Key = {"dns", "ip", "protocol", "medium", "device_port", "owner_port", "wifi_ssid", "wifi_pw",
           "dev_only", "owner_only", "rv_bypass", "delay_seconds", "sv_cert_hash", "cl_cert_hash",
           "user_input", "ext_rv"}
<1>1. Len(V1Order) = 16
  BY DEF V1Order
<1>2. 1 .. 16 = {1, 2, 3, 4, 5, 6, 7, 8, 9, 10, 11, 12, 13, 14, 15, 16}
  OBVIOUS
<1> QED
  BY <1>1, <1>2 DEF Key, V1Order

\* The kinds of keys.
LEMMA Kinds ==
    Key = TextKey \cup PortKey \cup HashKey \cup BoolKey
            \cup {"ip", "protocol", "medium", "delay_seconds", "user_input", "ext_rv"}
BY Keys DEF TextKey, PortKey, HashKey, BoolKey

\* What parseRvInstruction does for each kind.
LEMMA Parses ==
    ASSUME NEW key, NEW json
    PROVE  /\ key \in TextKey =>
                 parseRvInstruction(key, json) = IF json[1] = "str" THEN <<"text", json[2]>> ELSE Refused
           /\ key = "ip" =>
                 parseRvInstruction(key, json) = IF json[1] = "str" THEN ParseIP(json[2]) ELSE Refused
           /\ key = "protocol" =>
                 parseRvInstruction(key, json) =
                    IF json[1] = "str" THEN CodeFromString(ProtocolName, json[2]) ELSE Refused
           /\ key = "medium" =>
                 parseRvInstruction(key, json) =
                    IF json[1] = "str" THEN CodeFromString(MediumName, json[2]) ELSE Refused
           /\ key \in PortKey =>
                 parseRvInstruction(key, json) = IF json[1] = "num" THEN Port(json[2]) ELSE Refused
           /\ key \in FlagKey =>
                 parseRvInstruction(key, json) = IF json = <<"bool", TRUE>> THEN NoValue ELSE Refused
           /\ key = "delay_seconds" =>
                 parseRvInstruction(key, json) =
                    IF json[1] = "num" /\ json[2] >= 0 THEN <<"uint", ToUint32(json[2])>> ELSE Refused
           /\ key \in HashKey =>
                 parseRvInstruction(key, json) = IF json[1] = "str" THEN DecodeHex(json[2]) ELSE Refused
           /\ key = "ext_rv" =>
                 parseRvInstruction(key, json) = IF json[1] = "list" THEN <<"texts", json[2]>> ELSE Refused
           /\ key \notin Key => parseRvInstruction(key, json) = Refused
<1> USE DEF parseRvInstruction, TextKey, PortKey, HashKey, FlagKey, BoolKey
<1>1. ASSUME key \in TextKey
      PROVE  parseRvInstruction(key, json) = IF json[1] = "str" THEN <<"text", json[2]>> ELSE Refused
  BY <1>1
<1>2. ASSUME key = "ip"
      PROVE  parseRvInstruction(key, json) = IF json[1] = "str" THEN ParseIP(json[2]) ELSE Refused
  BY <1>2
<1>3. ASSUME key = "protocol"
      PROVE  parseRvInstruction(key, json) =
                IF json[1] = "str" THEN CodeFromString(ProtocolName, json[2]) ELSE Refused
  BY <1>3
<1>4. ASSUME key = "medium"
      PROVE  parseRvInstruction(key, json) =
                IF json[1] = "str" THEN CodeFromString(MediumName, json[2]) ELSE Refused
  BY <1>4
<1>5. ASSUME key \in PortKey
      PROVE  parseRvInstruction(key, json) = IF json[1] = "num" THEN Port(json[2]) ELSE Refused
  BY <1>5
<1>6. ASSUME key \in FlagKey
      PROVE  parseRvInstruction(key, json) = IF json = <<"bool", TRUE>> THEN NoValue ELSE Refused
  BY <1>6
<1>7. ASSUME key = "delay_seconds"
      PROVE  parseRvInstruction(key, json) =
                IF json[1] = "num" /\ json[2] >= 0 THEN <<"uint", ToUint32(json[2])>> ELSE Refused
  BY <1>7
<1>8. ASSUME key \in HashKey
      PROVE  parseRvInstruction(key, json) = IF json[1] = "str" THEN DecodeHex(json[2]) ELSE Refused
  BY <1>8
<1>9. ASSUME key = "ext_rv"
      PROVE  parseRvInstruction(key, json) = IF json[1] = "list" THEN <<"texts", json[2]>> ELSE Refused
  BY <1>9
<1>10. ASSUME key \notin Key PROVE parseRvInstruction(key, json) = Refused
  BY <1>10, Keys
<1> QED
  BY <1>1, <1>2, <1>3, <1>4, <1>5, <1>6, <1>7, <1>8, <1>9, <1>10

\* A code that was parsed from a name is printed as that name.
LEMMA Codes ==
    ASSUME NEW names, Len(names) \in Nat, NEW name, CodeFromString(names, name) # Refused
    PROVE  LET code == CodeFromString(names, name)
           IN  /\ code[1] = "uint"
               /\ StringFromCode(names, code[2]) = name
<1> DEFINE k == CHOOSE n \in 1 .. Len(names) : names[n] = name
<1>1. \E n \in 1 .. Len(names) : names[n] = name
  BY DEF CodeFromString
<1>2. CodeFromString(names, name) = <<"uint", k - 1>>
  BY <1>1 DEF CodeFromString
<1>3. k \in 1 .. Len(names) /\ names[k] = name
  BY <1>1
<1> HIDE DEF k
<1>4. k - 1 + 1 = k
  BY <1>3
<1> QED
  BY <1>2, <1>3, <1>4 DEF StringFromCode

\* So is an address, or bytes: what is printed parses as what was parsed.
LEMMA Texts ==
    ASSUME NEW text
    PROVE  /\ ParseIP(text) # Refused => /\ ParseIP(text)[1] = "bytes"
                                         /\ ParseIP(text)[2] # ""
                                         /\ ParseIP(ParseIP(text)[2]) = ParseIP(text)
           /\ DecodeHex(text) # Refused => /\ DecodeHex(text)[1] = "bytes"
                                           /\ text # "" => DecodeHex(text)[2] # ""
                                           /\ DecodeHex(DecodeHex(text)[2]) = DecodeHex(text)
BY TextAssumption DEF ParseIP, DecodeHex, Canonical

\* Ports and delays: what is stored of them is in range.
LEMMA Numbers ==
    /\ \A n : Port(n) # Refused => n \in 1 .. MaxPort /\ Port(n) = <<"uint", n>>
    /\ \A n \in 1 .. MaxPort : Port(n) = <<"uint", n>>
    /\ \A n \in Nat : ToUint32(n) \in 0 .. MaxUint32
    /\ \A n \in 0 .. MaxUint32 : ToUint32(n) = n
<1>1. \A n \in Nat : n % (MaxUint32 + 1) \in 0 .. MaxUint32
  BY NumberAssumption
<1> QED
  BY <1>1, NumberAssumption DEF Port, ToUint32

\* No value that is stored is a refusal.
LEMMA NotRefused == \A val : val[1] \in {"text", "bytes", "uint", "texts", "none"} => val # Refused
BY DEF Refused

\* What is stored of an instruction, whichever API parsed it: its numbers are in
\* range, and if the readers can decode it, V2 reads what V2 prints as what is
\* stored.
Kept(instr) ==
    /\ instr.var \in Key
    /\ instr.var \in PortKey => instr.val[2] \in 1 .. MaxPort
    /\ instr.var = "delay_seconds" => instr.val[2] \in 0 .. MaxUint32
    /\ Decodes(instr) =>
          LET again == parseRvInstruction(instr.var, V2Value(instr))
          IN  again # Refused /\ again = IF instr.var = "user_input" THEN NoValue ELSE instr.val

\* Kept and decoded, kind by kind.  Text.
LEMMA KeptText ==
    ASSUME NEW key \in TextKey, NEW text
    PROVE  Kept(Instr(key, <<"text", text>>)) /\ Decodes(Instr(key, <<"text", text>>))
<1> DEFINE val == <<"text", text>>
<1>1. key \in Key /\ key \notin PortKey /\ key # "delay_seconds" /\ key # "user_input"
  BY Keys DEF TextKey, PortKey
<1>2. V2Value(Instr(key, val)) = <<"str", text>>
  BY DEF V2Value, Instr, TextKey, PortKey, HashKey, FlagKey, BoolKey
<1>3. parseRvInstruction(key, <<"str", text>>) = val
  BY DEF parseRvInstruction, TextKey, PortKey, HashKey, FlagKey, BoolKey
<1>4. val # Refused
  BY NotRefused
<1>d. Decodes(Instr(key, val))
  BY DEF Decodes, Instr, TextKey, PortKey, HashKey, FlagKey, BoolKey
<1> QED
  BY <1>1, <1>2, <1>3, <1>4, <1>d DEF Kept, Instr

\* An address, or bytes.
LEMMA KeptBytes ==
    ASSUME NEW key \in HashKey \cup {"ip"}, NEW text,
           NEW val, val = (IF key = "ip" THEN ParseIP(text) ELSE DecodeHex(text)), val # Refused
    PROVE  Kept(Instr(key, val)) /\ Decodes(Instr(key, val))
<1>1. key \in Key /\ key \notin PortKey /\ key # "delay_seconds" /\ key # "user_input"
  BY Keys DEF HashKey, PortKey
<1>2. V2Value(Instr(key, val)) = <<"str", val[2]>>
  BY DEF V2Value, Instr, TextKey, PortKey, HashKey, FlagKey, BoolKey
<1>3. parseRvInstruction(key, <<"str", val[2]>>) = val
  BY Texts DEF parseRvInstruction, TextKey, PortKey, HashKey, FlagKey, BoolKey
<1>d. Decodes(Instr(key, val))
  BY Texts DEF Decodes, Instr, TextKey, PortKey, HashKey, FlagKey, BoolKey
<1> QED
  BY <1>1, <1>2, <1>3, <1>d DEF Kept, Instr

\* A protocol or a medium.
LEMMA KeptCode ==
    ASSUME NEW key \in {"protocol", "medium"}, NEW text, NEW names,
           names = (IF key = "protocol" THEN ProtocolName ELSE MediumName),
           NEW val, val = CodeFromString(names, text), val # Refused
    PROVE  Kept(Instr(key, val)) /\ Decodes(Instr(key, val))
<1>1. key \in Key /\ key \notin PortKey /\ key # "delay_seconds" /\ key # "user_input"
  BY Keys DEF PortKey
<1>2. Len(names) \in Nat
  BY DEF ProtocolName, MediumName
<1>3. V2Value(Instr(key, val)) = <<"str", text>>
  BY <1>2, Codes DEF V2Value, Instr, TextKey, PortKey, HashKey, FlagKey, BoolKey
<1>4. parseRvInstruction(key, <<"str", text>>) = val
  BY DEF parseRvInstruction, TextKey, PortKey, HashKey, FlagKey, BoolKey
<1>d. Decodes(Instr(key, val))
  BY Codes, <1>2 DEF Decodes, Instr, TextKey, PortKey, HashKey, FlagKey, BoolKey
<1> QED
  BY <1>1, <1>3, <1>4, <1>d DEF Kept, Instr

\* A port or a delay.
LEMMA KeptNumber ==
    ASSUME NEW key, NEW n,
           \/ key \in PortKey /\ n \in 1 .. MaxPort
           \/ key = "delay_seconds" /\ n \in 0 .. MaxUint32
    PROVE  Kept(Instr(key, <<"uint", n>>)) /\ Decodes(Instr(key, <<"uint", n>>))
<1> DEFINE val == <<"uint", n>>
<1>1. /\ key \in Key /\ key # "user_input"
      /\ key \in PortKey => key # "delay_seconds" /\ n \in 1 .. MaxPort
      /\ key = "delay_seconds" => key \notin PortKey /\ n \in 0 .. MaxUint32
  BY Keys DEF PortKey
<1>2. V2Value(Instr(key, val)) = <<"num", n>>
  BY DEF V2Value, Instr, TextKey, PortKey, HashKey, FlagKey, BoolKey
<1>3. parseRvInstruction(key, <<"num", n>>) = val
  <2>1. CASE key \in PortKey
    BY <1>1, <2>1, Numbers DEF parseRvInstruction, TextKey, PortKey, HashKey, FlagKey, BoolKey
  <2>2. CASE key = "delay_seconds"
    <3>1. n >= 0 /\ ToUint32(n) = n
      BY <1>1, <2>2, Numbers, NumberAssumption
    <3> QED
      BY <2>2, <3>1 DEF parseRvInstruction, TextKey, PortKey, HashKey, FlagKey, BoolKey
  <2> QED
    BY <2>1, <2>2
<1>4. val # Refused
  BY NotRefused
<1>d. Decodes(Instr(key, val))
  BY DEF Decodes, Instr, TextKey, PortKey, HashKey, FlagKey, BoolKey
<1> QED
  BY <1>1, <1>2, <1>3, <1>4, <1>d DEF Kept, Instr

\* A flag: of user_input whatever V1 stored.
LEMMA KeptFlag ==
    ASSUME NEW key \in FlagKey, NEW val, val = NoValue \/ key = "user_input"
    PROVE  Kept(Instr(key, val)) /\ Decodes(Instr(key, val))
<1>1. key \in Key /\ key \notin PortKey /\ key # "delay_seconds"
  BY Keys DEF FlagKey, BoolKey, PortKey
<1>2. V2Value(Instr(key, val)) = <<"bool", TRUE>>
  BY DEF V2Value, Instr, TextKey, PortKey, HashKey, FlagKey, BoolKey
<1>3. parseRvInstruction(key, <<"bool", TRUE>>) = NoValue
  BY DEF parseRvInstruction, TextKey, PortKey, HashKey, FlagKey, BoolKey
<1>4. NoValue # Refused
  BY DEF NoValue, Refused
<1>d. Decodes(Instr(key, val))
  BY DEF Decodes, Instr, TextKey, PortKey, HashKey, FlagKey, BoolKey
<1> QED
  BY <1>1, <1>2, <1>3, <1>4, <1>d DEF Kept, Instr

\* ext_rv: a list of V2, or what V1 stores, which is not decoded.
LEMMA KeptExtRV ==
    ASSUME NEW val, val[1] # "texts" \/ \E list : val = <<"texts", list>>
    PROVE  Kept(Instr("ext_rv", val)) /\ (Decodes(Instr("ext_rv", val)) <=> val[1] = "texts")
<1>1. "ext_rv" \in Key /\ "ext_rv" \notin PortKey
  BY Keys DEF PortKey
<1>d. Decodes(Instr("ext_rv", val)) <=> val[1] = "texts"
  BY DEF Decodes, Instr, TextKey, PortKey, HashKey, FlagKey, BoolKey
<1>2. CASE val[1] # "texts"
  <2>1. ~Decodes(Instr("ext_rv", val))
    BY <1>2, <1>d
  <2> QED
    BY <1>1, <1>d, <2>1 DEF Kept, Instr
<1>3. CASE \E list : val = <<"texts", list>>
  <2>1. PICK list : val = <<"texts", list>>
    BY <1>3
  <2>2. V2Value(Instr("ext_rv", val)) = <<"list", list>>
    BY <2>1 DEF V2Value, Instr, TextKey, PortKey, HashKey, FlagKey, BoolKey
  <2>3. parseRvInstruction("ext_rv", <<"list", list>>) = val
    BY <2>1 DEF parseRvInstruction, TextKey, PortKey, HashKey, FlagKey, BoolKey
  <2>4. val # Refused
    BY <2>1, NotRefused
  <2> QED
    BY <1>1, <1>d, <2>2, <2>3, <2>4 DEF Kept, Instr
<1> QED
  BY <1>2, <1>3, <1>d

\* Kept, and decoded, is whatever V2 accepts.
LEMMA KeptV2 ==
    ASSUME NEW key, NEW json \in JsonValue, parseRvInstruction(key, json) # Refused
    PROVE  /\ Kept(Instr(key, parseRvInstruction(key, json)))
           /\ Decodes(Instr(key, parseRvInstruction(key, json)))
<1> DEFINE val == parseRvInstruction(key, json)
<1>0. key \in Key
  BY Parses
<1>1. CASE key \in TextKey
  <2>1. val = <<"text", json[2]>>
    BY <1>1, Parses
  <2> QED
    BY <1>1, <2>1, KeptText
<1>2. CASE key \in HashKey \cup {"ip"}
  <2>1. CASE key = "ip"
    BY <2>1, Parses, KeptBytes
  <2>2. CASE key \in HashKey
    BY <2>2, Parses, KeptBytes DEF HashKey
  <2> QED
    BY <1>2, <2>1, <2>2
<1>3. CASE key \in {"protocol", "medium"}
  <2>1. CASE key = "protocol"
    BY <2>1, Parses, KeptCode
  <2>2. CASE key = "medium"
    BY <2>2, Parses, KeptCode
  <2> QED
    BY <1>3, <2>1, <2>2
<1>4. CASE key \in PortKey
  <2>1. val = <<"uint", json[2]>> /\ json[2] \in 1 .. MaxPort
    BY <1>4, Parses, Numbers
  <2> QED
    BY <1>4, <2>1, KeptNumber
<1>5. CASE key = "delay_seconds"
  <2>1. val = <<"uint", ToUint32(json[2])>> /\ json[1] = "num" /\ json[2] >= 0
    BY <1>5, Parses
  <2>2. json[2] \in Nat
    BY <2>1 DEF JsonValue
  <2>3. ToUint32(json[2]) \in 0 .. MaxUint32
    BY <2>2, Numbers
  <2> QED
    BY <1>5, <2>1, <2>3, KeptNumber
<1>6. CASE key \in FlagKey
  <2>1. val = NoValue
    BY <1>6, Parses
  <2> QED
    BY <1>6, <2>1, KeptFlag
<1>7. CASE key = "ext_rv"
  <2>1. val = <<"texts", json[2]>>
    BY <1>7, Parses
  <2> QED
    BY <1>7, <2>1, KeptExtRV
<1> QED
  BY <1>0, <1>1, <1>2, <1>3, <1>4, <1>5, <1>6, <1>7, Kinds DEF FlagKey

\* What is stored of a field of V1: if the readers can decode it, V1 reads the
\* field that V1 prints as what is stored.
KeptV1(instr) ==
    LET json == V1Value(instr)
    IN  Decodes(instr) =>
          /\ Fits(instr.var, json)
          /\ json # <<"str", "">> /\ json # <<"bool", FALSE>>
          /\ EncodeV1(instr.var, json) # Refused
          /\ EncodeV1(instr.var, json)
                = IF instr.var = "user_input" THEN <<"text", "true">> ELSE instr.val

\* A JSON value of V1 that is text is a pair.
LEMMA JsonText ==
    ASSUME NEW json \in V1JsonValue, json[1] = "str"
    PROVE  json = <<"str", json[2]>>
<1>1. CASE json \in {"str"} \X STRING
  BY <1>1
<1>2. CASE json \in {"num", "dec"} \X Int
  BY <1>2
<1>3. CASE json = <<"frac">>
  BY <1>3
<1>4. CASE json \in {"bool"} \X BOOLEAN
  BY <1>4
<1>5. CASE json \in {"list", "json"} \X Seq(STRING)
  BY <1>5
<1> QED
  BY <1>1, <1>2, <1>3, <1>4, <1>5 DEF V1JsonValue, JsonValue

\* What V1 accepts in a field is kept by both APIs.
LEMMA KeptField ==
    ASSUME NEW key \in Key, NEW json \in V1JsonValue, Fits(key, json),
           json # <<"str", "">>, json # <<"bool", FALSE>>, EncodeV1(key, json) # Refused
    PROVE  /\ Kept(Instr(key, EncodeV1(key, json)))
           /\ KeptV1(Instr(key, EncodeV1(key, json)))
           /\ key # "ext_rv" => Decodes(Instr(key, EncodeV1(key, json)))
<1> DEFINE val == EncodeV1(key, json)
           again == V1Value(Instr(key, val))
<1>0. ASSUME json[1] = "str" PROVE json[2] # ""
  BY <1>0, JsonText
<1>a. val = EncodeV1(key, json)
  OBVIOUS
<1>b. again = V1Value(Instr(key, val))
  OBVIOUS
<1>c. SUFFICES /\ Kept(Instr(key, val))
               /\ KeptV1(Instr(key, val))
               /\ key # "ext_rv" => Decodes(Instr(key, val))
  OBVIOUS
<1>e. val # Refused
  OBVIOUS
<1>d. ASSUME Fits(key, again), again # <<"str", "">>, again # <<"bool", FALSE>>,
             EncodeV1(key, again) = IF key = "user_input" THEN <<"text", "true">> ELSE val
      PROVE  KeptV1(Instr(key, val))
  <2>0. <<"text", "true">> # Refused
    BY DEF Refused
  <2>1. EncodeV1(key, again) # Refused
    <3> HIDE DEF val, again
    <3> QED
      BY <1>d, <1>e, <2>0
  <2> QED
    BY <1>d, <2>1 DEF KeptV1, Instr
<1> HIDE DEF val, again
<1>1. CASE key \in TextKey
  <2>1. json[1] = "str" /\ val = <<"text", json[2]>>
    BY <1>a, <1>1 DEF Fits, EncodeV1, TextKey, PortKey, HashKey, BoolKey
  <2>2. again = <<"str", json[2]>>
    BY <1>b, <1>1, <2>1 DEF V1Value, V2Value, Instr, TextKey, PortKey, HashKey, FlagKey, BoolKey
  <2>3. Fits(key, again) /\ EncodeV1(key, again) = val
    BY <1>1, <2>1, <2>2 DEF Fits, EncodeV1, TextKey, PortKey, HashKey, BoolKey
  <2>4. again # <<"str", "">> /\ again # <<"bool", FALSE>> /\ key # "user_input"
    BY <1>0, <1>1, <2>1, <2>2 DEF TextKey
  <2> QED
    BY <1>d, <1>1, <2>1, <2>3, <2>4, KeptText
<1>2. CASE key \in HashKey \cup {"ip"}
  <2>1. /\ json[1] = "str"
        /\ key = "ip" => val = ParseIP(json[2])
        /\ key \in HashKey => val = DecodeHex(json[2])
    BY <1>a, <1>2 DEF Fits, EncodeV1, TextKey, PortKey, HashKey, BoolKey
  <2>2. Kept(Instr(key, val)) /\ Decodes(Instr(key, val))
    BY <1>2, <1>e, <2>1, KeptBytes DEF HashKey
  <2>3. val[2] # ""
    BY <1>0, <1>2, <1>e, <2>1, Texts
  <2>8. again = <<"str", val[2]>>
    BY <1>b, <1>2
       DEF V1Value, V2Value, Instr, TextKey, PortKey, HashKey, FlagKey, BoolKey
  <2>4. Fits(key, again)
    BY <1>2, <2>8 DEF Fits, TextKey, PortKey, HashKey, BoolKey
  <2>5. EncodeV1(key, <<"str", val[2]>>)
          = IF key = "ip" THEN ParseIP(val[2]) ELSE DecodeHex(val[2])
    BY <1>2 DEF EncodeV1, TextKey, PortKey, HashKey, BoolKey
  <2>6. EncodeV1(key, again) = val
    BY <1>2, <1>e, <2>1, <2>8, <2>5, Texts DEF HashKey
  <2>7. again # <<"str", "">> /\ again # <<"bool", FALSE>> /\ key # "user_input" /\ key # "ext_rv"
    BY <1>2, <2>3, <2>8 DEF HashKey
  <2> QED
    BY <1>d, <2>2, <2>4, <2>6, <2>7
<1>3. CASE key \in {"protocol", "medium"}
  <2> DEFINE names == IF key = "protocol" THEN ProtocolName ELSE MediumName
  <2>1. json[1] = "str" /\ val = CodeFromString(names, json[2])
    BY <1>a, <1>3 DEF Fits, EncodeV1, TextKey, PortKey, HashKey, BoolKey
  <2>2. Kept(Instr(key, val)) /\ Decodes(Instr(key, val))
    BY <1>3, <1>e, <2>1, KeptCode
  <2>3. Len(names) \in Nat
    BY DEF ProtocolName, MediumName
  <2>4. again = <<"str", StringFromCode(names, val[2])>>
    BY <1>b, <1>3 DEF V1Value, V2Value, Instr, TextKey, PortKey, HashKey, FlagKey, BoolKey
  <2>5. again = <<"str", json[2]>>
    <3> HIDE DEF names, val, again
    <3> QED
      BY <2>1, <2>3, <2>4, Codes DEF val
  <2>6. Fits(key, again) /\ EncodeV1(key, again) = val
    BY <1>3, <2>1, <2>5 DEF Fits, EncodeV1, TextKey, PortKey, HashKey, BoolKey
  <2>7. again # <<"str", "">> /\ again # <<"bool", FALSE>>
    BY <1>0, <2>1, <2>5
  <2> QED
    BY <1>d, <1>3, <2>2, <2>6, <2>7
<1>4. CASE key \in PortKey
  <2>1. val = PortText(json)
    BY <1>a, <1>4 DEF EncodeV1, TextKey, PortKey, HashKey, BoolKey
  <2>2. json[1] = "dec" /\ json[2] \in 1 .. MaxPort /\ val = <<"uint", json[2]>>
    BY <1>e, <2>1, Numbers DEF PortText
  <2>3. again = <<"dec", json[2]>>
    BY <1>b, <1>4, <2>2 DEF V1Value, Instr, PortKey
  <2>4. Fits(key, again) /\ EncodeV1(key, again) = val
    BY <1>4, <2>2, <2>3, Numbers DEF Fits, EncodeV1, PortText, TextKey, PortKey, HashKey, BoolKey
  <2>5. again # <<"str", "">> /\ again # <<"bool", FALSE>> /\ key # "user_input"
    BY <1>4, <2>3 DEF PortKey
  <2> QED
    BY <1>d, <1>4, <2>2, <2>4, <2>5, KeptNumber
<1>5. CASE key = "delay_seconds"
  <2>1. json[1] = "num" /\ json[2] \in 0 .. MaxUint32 /\ val = <<"uint", json[2]>>
    BY <1>a, <1>5 DEF Fits, EncodeV1, TextKey, PortKey, HashKey, BoolKey
  <2>2. again = <<"num", json[2]>>
    BY <1>b, <1>5, <2>1 DEF V1Value, V2Value, Instr, TextKey, PortKey, HashKey, FlagKey, BoolKey
  <2>3. Fits(key, again) /\ EncodeV1(key, again) = val
    BY <1>5, <2>1, <2>2 DEF Fits, EncodeV1, TextKey, PortKey, HashKey, BoolKey
  <2>4. again # <<"str", "">> /\ again # <<"bool", FALSE>>
    BY <2>2
  <2> QED
    BY <1>d, <1>5, <2>1, <2>3, <2>4, KeptNumber
<1>6. CASE key \in BoolKey
  <2>1. val = NoValue
    BY <1>a, <1>6 DEF EncodeV1, TextKey, PortKey, HashKey, BoolKey
  <2>2. again = <<"bool", TRUE>>
    BY <1>b, <1>6, <2>1 DEF V1Value, V2Value, Instr, TextKey, PortKey, HashKey, FlagKey, BoolKey
  <2>3. Fits(key, again) /\ EncodeV1(key, again) = val
    BY <1>6, <2>1, <2>2 DEF Fits, EncodeV1, TextKey, PortKey, HashKey, BoolKey
  <2>4. again # <<"str", "">> /\ again # <<"bool", FALSE>> /\ key # "user_input" /\ key \in FlagKey
    BY <1>6, <2>2 DEF FlagKey, BoolKey
  <2> QED
    BY <1>d, <1>6, <2>1, <2>3, <2>4, KeptFlag
<1>7. CASE key = "user_input"
  <2>1. again = <<"str", "true">>
    BY <1>b, <1>7 DEF V1Value, Instr, PortKey
  <2>2. Fits(key, again) /\ EncodeV1(key, again) = <<"text", "true">>
    BY <1>7, <2>1 DEF Fits, EncodeV1, TextKey, PortKey, HashKey, BoolKey
  <2>3. again # <<"str", "">> /\ again # <<"bool", FALSE>>
    BY <2>1
  <2>4. key \in FlagKey
    BY <1>7 DEF FlagKey
  <2> QED
    BY <1>d, <1>7, <2>2, <2>3, <2>4, KeptFlag
<1>8. CASE key = "ext_rv"
  <2>1. val = <<"jsontext", json[2]>>
    BY <1>a, <1>8 DEF EncodeV1, TextKey, PortKey, HashKey, BoolKey
  <2>2. Kept(Instr("ext_rv", val)) /\ ~Decodes(Instr("ext_rv", val))
    BY <2>1, KeptExtRV, <<"jsontext", json[2]>>[1] = "jsontext"
  <2> QED
    BY <1>8, <2>2 DEF KeptV1
<1> QED
  BY <1>1, <1>2, <1>3, <1>4, <1>5, <1>6, <1>7, <1>8, Kinds

-----------------------------------------------------------------------------
(***************************************************************************)
(* A whole configuration.                                                  *)
(***************************************************************************)

IsTuple(s) == Len(s) \in Nat /\ s = [k \in 1 .. Len(s) |-> s[k]]

\* The length of a sequence that is written as a function.
LEMMA Tuples ==
    ASSUME NEW n \in Nat, NEW f, f = [k \in 1 .. n |-> f[k]]
    PROVE  Len(f) = n /\ IsTuple(f)
<1>1. f \in [1 .. n -> {f[k] : k \in 1 .. n}]
  OBVIOUS
<1>2. Len(f) = n
  BY <1>1
<1> QED
  BY <1>2 DEF IsTuple

\* A stored configuration: every directive has an address, and every instruction
\* is kept.
Stored(config) ==
    /\ IsTuple(config)
    /\ \A i \in 1 .. Len(config) :
          /\ IsTuple(config[i])
          /\ \E k \in 1 .. Len(config[i]) : config[i][k].var \in {"dns", "ip"}
          /\ \A k \in 1 .. Len(config[i]) :
                /\ config[i][k] = Instr(config[i][k].var, config[i][k].val)
                /\ Kept(config[i][k])

\* What V2 accepts is stored, and readable.
LEMMA ParsedV2 ==
    ASSUME NEW directives \in V2Input, AcceptsV2(directives)
    PROVE  Stored(parseV2JSON(directives)) /\ Readable(parseV2JSON(directives))
<1> DEFINE config == parseV2JSON(directives)
           Directive(d) == [k \in 1 .. Len(d) |-> Instr(d[k][1], parseRvInstruction(d[k][1], d[k][2]))]
<1>1. directives \in Seq(Seq(STRING \X JsonValue))
  BY DocumentAssumption
<1>2. Len(directives) \in Nat /\ config = [i \in 1 .. Len(directives) |-> Directive(directives[i])]
  BY <1>1 DEF parseV2JSON
<1> HIDE DEF config
<1>3. Len(config) = Len(directives) /\ IsTuple(config)
  <2>1. config = [i \in 1 .. Len(directives) |-> config[i]]
    BY <1>2
  <2> QED
    BY <1>2, <2>1, Tuples
<1>4. ASSUME NEW i \in 1 .. Len(config)
      PROVE  /\ IsTuple(config[i])
             /\ \E k \in 1 .. Len(config[i]) : config[i][k].var \in {"dns", "ip"}
             /\ \A k \in 1 .. Len(config[i]) :
                   /\ config[i][k] = Instr(config[i][k].var, config[i][k].val)
                   /\ Kept(config[i][k])
                   /\ Decodes(config[i][k])
  <2> DEFINE d == directives[i]
  <2>1. d \in Seq(STRING \X JsonValue) /\ i \in 1 .. Len(directives)
    BY <1>1, <1>3
  <2>2. /\ HasDNSorIP(d)
        /\ \A k \in 1 .. Len(d) : parseRvInstruction(d[k][1], d[k][2]) # Refused
    BY <2>1 DEF AcceptsV2
  <2>3. config[i] = Directive(d)
    BY <1>2, <2>1
  <2> HIDE DEF d
  <2>4. Len(d) \in Nat /\ \A k \in 1 .. Len(d) : d[k][2] \in JsonValue
    BY <2>1
  <2>5. IsTuple(Directive(d)) /\ Len(Directive(d)) = Len(d)
    <3> DEFINE f == Directive(d)
    <3>1. f = [k \in 1 .. Len(d) |-> f[k]]
      OBVIOUS
    <3> HIDE DEF f
    <3>2. Len(f) = Len(d) /\ IsTuple(f)
      BY <2>4, <3>1, Tuples
    <3> QED
      BY <3>2 DEF f
  <2>6. ASSUME NEW k \in 1 .. Len(d)
        PROVE  /\ Directive(d)[k].var = d[k][1]
               /\ Directive(d)[k] = Instr(Directive(d)[k].var, Directive(d)[k].val)
               /\ Kept(Directive(d)[k])
               /\ Decodes(Directive(d)[k])
    <3>1. Directive(d)[k] = Instr(d[k][1], parseRvInstruction(d[k][1], d[k][2]))
      OBVIOUS
    <3> HIDE DEF Directive
    <3>2. Kept(Directive(d)[k]) /\ Decodes(Directive(d)[k])
      BY <2>2, <2>4, <3>1, KeptV2
    <3> QED
      BY <3>1, <3>2 DEF Instr
  <2> HIDE DEF Directive
  <2> QED
    BY <2>2, <2>3, <2>5, <2>6 DEF HasDNSorIP
<1> QED
  BY <1>3, <1>4 DEF Stored, Readable, config

\* Reading a stored configuration through V2 and writing it back.
LEMMA ReadWriteV2 ==
    ASSUME NEW config, Stored(config), Readable(config)
    PROVE  LET json == convertToV2JSON(config)
           IN  AcceptsV2(json) /\ parseV2JSON(json) = WithUserInput(config, NoValue)
<1> DEFINE json == convertToV2JSON(config)
           Printed(d) == [k \in 1 .. Len(d) |-> <<d[k].var, V2Value(d[k])>>]
<1>1. /\ Len(config) \in Nat
      /\ json = [i \in 1 .. Len(config) |-> Printed(config[i])]
  BY DEF convertToV2JSON, Stored, IsTuple
<1> HIDE DEF json
<1>2. Len(json) = Len(config)
  <2>1. json = [i \in 1 .. Len(config) |-> json[i]]
    BY <1>1
  <2> QED
    BY <1>1, <2>1, Tuples
<1>3. ASSUME NEW i \in 1 .. Len(config)
      PROVE  /\ Len(json[i]) = Len(config[i])
             /\ \A k \in 1 .. Len(config[i]) :
                  /\ json[i][k][1] = config[i][k].var
                  /\ json[i][k][2] = V2Value(config[i][k])
  <2>1. json[i] = Printed(config[i]) /\ Len(config[i]) \in Nat
    BY <1>1 DEF Stored, IsTuple
  <2>2. json[i] = [k \in 1 .. Len(config[i]) |-> json[i][k]]
    BY <2>1
  <2>3. Len(json[i]) = Len(config[i])
    BY <2>1, <2>2, Tuples
  <2> QED
    BY <2>1, <2>3
<1> HIDE DEF Printed
<1>4. ASSUME NEW i \in 1 .. Len(config), NEW k \in 1 .. Len(config[i])
      PROVE  LET again == parseRvInstruction(config[i][k].var, V2Value(config[i][k]))
             IN  /\ again # Refused
                 /\ Instr(config[i][k].var, again)
                      = IF config[i][k].var = "user_input" THEN Instr("user_input", NoValue) ELSE config[i][k]
  <2>1. /\ Kept(config[i][k]) /\ Decodes(config[i][k])
        /\ config[i][k] = Instr(config[i][k].var, config[i][k].val)
    BY DEF Stored, Readable
  <2> QED
    BY <2>1 DEF Kept
<1>5. AcceptsV2(json)
  <2>1. ASSUME NEW i \in 1 .. Len(config) PROVE HasDNSorIP(json[i])
    <3>1. PICK k \in 1 .. Len(config[i]) : config[i][k].var \in {"dns", "ip"}
      BY DEF Stored
    <3> QED
      BY <1>3, <3>1 DEF HasDNSorIP
  <2>2. ASSUME NEW i \in 1 .. Len(config), NEW k \in 1 .. Len(json[i])
        PROVE  parseRvInstruction(json[i][k][1], json[i][k][2]) # Refused
    BY <1>3, <1>4
  <2> QED
    BY <1>2, <2>1, <2>2 DEF AcceptsV2
<1>6. ASSUME NEW i \in 1 .. Len(config)
      PROVE  [k \in 1 .. Len(json[i]) |->
                 Instr(json[i][k][1], parseRvInstruction(json[i][k][1], json[i][k][2]))]
             = [k \in 1 .. Len(config[i]) |->
                   IF config[i][k].var = "user_input" THEN Instr("user_input", NoValue) ELSE config[i][k]]
  BY <1>3, <1>4
<1>7. parseV2JSON(json) = WithUserInput(config, NoValue)
  BY <1>2, <1>6 DEF parseV2JSON, WithUserInput
<1> QED
  BY <1>5, <1>7 DEF json

\* A configuration that V1 wrote: every variable once, in the order of the fields,
\* and ext_rv, the one that cannot be read, only if a document has it.
HasExtRV == \E items \in Legacy \cup V1Input : \E i \in DOMAIN items : "ext_rv" \in DOMAIN items[i]

VarsOf(directive) == {directive[k].var : k \in 1 .. Len(directive)}

StoredV1(config) ==
    \A i \in 1 .. Len(config) :
        /\ Len(config[i]) = Len(InOrder(VarsOf(config[i])))
        /\ \A k \in 1 .. Len(config[i]) :
              /\ config[i][k].var = InOrder(VarsOf(config[i]))[k]
              /\ KeptV1(config[i][k])
              /\ Decodes(config[i][k]) \/ (config[i][k].var = "ext_rv" /\ HasExtRV)

\* What V1 accepts is stored.
LEMMA ParsedV1 ==
    ASSUME NEW items \in Legacy \cup V1Input, AcceptsV1(items)
    PROVE  Stored(ParseHumanReadableRvJSON(items)) /\ StoredV1(ParseHumanReadableRvJSON(items))
<1> DEFINE config == ParseHumanReadableRvJSON(items)
           Fields(item) == InOrder({key \in Key : Present(item, key)})
           Directive(item) ==
               [k \in 1 .. Len(Fields(item)) |->
                   Instr(Fields(item)[k], EncodeV1(Fields(item)[k], item[Fields(item)[k]]))]
<1>1. Len(items) \in Nat /\ DOMAIN items = 1 .. Len(items)
  BY DocumentAssumption
<1>2. config = [i \in 1 .. Len(items) |-> Directive(items[i])]
  BY DEF ParseHumanReadableRvJSON
<1> HIDE DEF config
<1>3. Len(config) = Len(items) /\ IsTuple(config)
  <2>1. config = [i \in 1 .. Len(items) |-> config[i]]
    BY <1>2
  <2> QED
    BY <1>1, <2>1, Tuples
<1>4. ASSUME NEW i \in 1 .. Len(config)
      PROVE  /\ IsTuple(config[i])
             /\ \E k \in 1 .. Len(config[i]) : config[i][k].var \in {"dns", "ip"}
             /\ Len(config[i]) = Len(InOrder(VarsOf(config[i])))
             /\ \A k \in 1 .. Len(config[i]) :
                   /\ config[i][k] = Instr(config[i][k].var, config[i][k].val)
                   /\ config[i][k].var = InOrder(VarsOf(config[i]))[k]
                   /\ Kept(config[i][k])
                   /\ KeptV1(config[i][k])
                   /\ Decodes(config[i][k]) \/ (config[i][k].var = "ext_rv" /\ HasExtRV)
  <2> DEFINE item == items[i]
             present == {key \in Key : Present(item, key)}
             fields == InOrder(present)
             directive == [k \in 1 .. Len(fields) |-> Instr(fields[k], EncodeV1(fields[k], item[fields[k]]))]
  <2>1. i \in 1 .. Len(items) /\ i \in DOMAIN items
    BY <1>1, <1>3
  <2>2. /\ \A key \in DOMAIN item : Fits(key, item[key])
        /\ \E key \in {"dns", "ip"} : Present(item, key)
        /\ \A key \in DOMAIN item : Present(item, key) => EncodeV1(key, item[key]) # Refused
    BY <2>1 DEF AcceptsV1
  <2>3. \A key \in DOMAIN item : key \in Key /\ item[key] \in V1JsonValue
    BY <2>1, DocumentAssumption
  <2>4. config[i] = directive
    BY <1>2, <2>1
  <2>5. "ext_rv" \in DOMAIN item => HasExtRV
    BY <2>1 DEF HasExtRV
  <2> HIDE DEF item
  <2>6. ASSUME NEW key \in present
        PROVE  /\ Kept(Instr(key, EncodeV1(key, item[key])))
               /\ KeptV1(Instr(key, EncodeV1(key, item[key])))
               /\ Decodes(Instr(key, EncodeV1(key, item[key]))) \/ (key = "ext_rv" /\ HasExtRV)
    <3>1. /\ key \in Key /\ key \in DOMAIN item
          /\ item[key] # <<"str", "">> /\ item[key] # <<"bool", FALSE>>
      BY DEF Present
    <3>2. Fits(key, item[key]) /\ EncodeV1(key, item[key]) # Refused /\ item[key] \in V1JsonValue
      BY <2>2, <2>3, <3>1
    <3> QED
      BY <2>5, <3>1, <3>2, KeptField
  <2>7. PICK address \in {"dns", "ip"} : address \in present
    BY <2>2, Keys
  <2>8. present \in SUBSET Key
    OBVIOUS
  <2> HIDE DEF present
  <2>9. /\ fields \in Seq(present)
        /\ \A key \in present : \E k \in 1 .. Len(fields) : fields[k] = key
    BY <2>8, InOrderKeys
  <2> HIDE DEF fields
  <2>10. Len(directive) = Len(fields) /\ IsTuple(directive)
    <3>1. Len(fields) \in Nat
      BY <2>9
    <3>2. directive = [k \in 1 .. Len(fields) |-> directive[k]]
      OBVIOUS
    <3> HIDE DEF directive
    <3> QED
      BY <3>1, <3>2, Tuples
  <2>11. \A k \in 1 .. Len(fields) :
            /\ fields[k] \in present
            /\ directive[k] = Instr(fields[k], EncodeV1(fields[k], item[fields[k]]))
            /\ directive[k].var = fields[k]
            /\ directive[k] = Instr(directive[k].var, directive[k].val)
    BY <2>9 DEF Instr
  <2> HIDE DEF directive
  <2>12. VarsOf(directive) = present
    BY <2>9, <2>10, <2>11 DEF VarsOf
  <2>13. InOrder(VarsOf(directive)) = fields
    BY <2>12 DEF fields
  <2>14. \E k \in 1 .. Len(directive) : directive[k].var \in {"dns", "ip"}
    BY <2>7, <2>9, <2>10, <2>11
  <2>15. ASSUME NEW k \in 1 .. Len(directive)
         PROVE  /\ directive[k] = Instr(directive[k].var, directive[k].val)
                /\ directive[k].var = fields[k]
                /\ Kept(directive[k])
                /\ KeptV1(directive[k])
                /\ Decodes(directive[k]) \/ (directive[k].var = "ext_rv" /\ HasExtRV)
    BY <2>6, <2>10, <2>11
  <2> QED
    BY <2>4, <2>10, <2>13, <2>14, <2>15
<1> QED
  BY <1>3, <1>4 DEF Stored, StoredV1, config

\* Reading a configuration that V1 wrote through V1 and writing it back.
LEMMA ReadWriteV1 ==
    ASSUME NEW config, Stored(config), StoredV1(config), Readable(config)
    PROVE  LET json == ConvertRvInstructionsToV1JSON(config)
           IN  /\ AcceptsV1(json)
               /\ ParseHumanReadableRvJSON(json) = WithUserInput(config, <<"text", "true">>)
<1> DEFINE json == ConvertRvInstructionsToV1JSON(config)
           Last(d, key) == CHOOSE k \in 1 .. Len(d) :
                              /\ d[k].var = key
                              /\ \A l \in k + 1 .. Len(d) : d[l].var # key
           Field(d, key) == V1Value(d[Last(d, key)])
           Object(d) == [key \in {f \in VarsOf(d) : Field(d, f) # <<"str", "">>} |-> Field(d, key)]
           Again(item) ==
               LET fields == InOrder({key \in Key : Present(item, key)})
               IN  [k \in 1 .. Len(fields) |-> Instr(fields[k], EncodeV1(fields[k], item[fields[k]]))]
           Kept1(d) == [k \in 1 .. Len(d) |->
                           IF d[k].var = "user_input" THEN Instr("user_input", <<"text", "true">>) ELSE d[k]]
<1>1. Len(config) \in Nat /\ json = [i \in 1 .. Len(config) |-> Object(config[i])]
  BY DEF ConvertRvInstructionsToV1JSON, Stored, IsTuple, VarsOf
<1> HIDE DEF json
<1>2. Len(json) = Len(config)
  <2>1. json = [i \in 1 .. Len(config) |-> json[i]]
    BY <1>1
  <2> QED
    BY <1>1, <2>1, Tuples
<1>3. ASSUME NEW i \in 1 .. Len(config)
      PROVE  /\ \A key \in DOMAIN json[i] : Fits(key, json[i][key])
             /\ \E key \in {"dns", "ip"} : Present(json[i], key)
             /\ \A key \in DOMAIN json[i] : EncodeV1(key, json[i][key]) # Refused
             /\ Again(json[i]) = Kept1(config[i])
  <2> DEFINE d == config[i]
             item == json[i]
  <2>1. json[i] = Object(d)
    BY <1>1
  <2>2. /\ Len(d) \in Nat
        /\ \E k \in 1 .. Len(d) : d[k].var \in {"dns", "ip"}
        /\ \A k \in 1 .. Len(d) :
              d[k] = Instr(d[k].var, d[k].val) /\ d[k].var \in Key /\ Decodes(d[k]) /\ KeptV1(d[k])
    BY DEF Stored, StoredV1, IsTuple, Readable, Kept
  <2>3. /\ Len(d) = Len(InOrder(VarsOf(d)))
        /\ \A k \in 1 .. Len(d) : d[k].var = InOrder(VarsOf(d))[k]
    BY DEF StoredV1
  <2> HIDE DEF d
  <2>4. VarsOf(d) \in SUBSET Key
    BY <2>2 DEF VarsOf
  <2>5. \A k, l \in 1 .. Len(d) : d[k].var = d[l].var => k = l
    BY <2>3, <2>4, InOrderKeys
  <2>6. ASSUME NEW k \in 1 .. Len(d) PROVE Field(d, d[k].var) = V1Value(d[k])
    <3>1. \A l \in k + 1 .. Len(d) : d[l].var # d[k].var
      BY <2>2, <2>5
    <3>2. Last(d, d[k].var) = k
      BY <2>5, <3>1
    <3> QED
      BY <3>2
  <2> HIDE DEF Field
  <2>7. ASSUME NEW k \in 1 .. Len(d)
        PROVE  /\ Fits(d[k].var, V1Value(d[k]))
               /\ V1Value(d[k]) # <<"str", "">> /\ V1Value(d[k]) # <<"bool", FALSE>>
               /\ EncodeV1(d[k].var, V1Value(d[k])) # Refused
               /\ EncodeV1(d[k].var, V1Value(d[k]))
                    = IF d[k].var = "user_input" THEN <<"text", "true">> ELSE d[k].val
    BY <2>2 DEF KeptV1
  <2>8. DOMAIN item = VarsOf(d) /\ \A k \in 1 .. Len(d) : d[k].var \in DOMAIN item /\ item[d[k].var] = V1Value(d[k])
    <3>1. {f \in VarsOf(d) : Field(d, f) # <<"str", "">>} = VarsOf(d)
      BY <2>6, <2>7 DEF VarsOf
    <3> QED
      BY <2>1, <2>6, <3>1 DEF VarsOf
  <2> HIDE DEF item
  <2>9. \A key \in DOMAIN item : Present(item, key) /\ Fits(key, item[key]) /\ EncodeV1(key, item[key]) # Refused
    <3> TAKE key \in DOMAIN item
    <3>1. PICK k \in 1 .. Len(d) : key = d[k].var
      BY <2>8 DEF VarsOf
    <3>2. item[key] = V1Value(d[k])
      BY <2>8, <3>1
    <3> QED
      BY <2>7, <3>1, <3>2 DEF Present
  <2>10. \E key \in {"dns", "ip"} : Present(item, key)
    BY <2>2, <2>8, <2>9
  <2>11. {key \in Key : Present(item, key)} = VarsOf(d)
    BY <2>4, <2>8, <2>9 DEF Present
  <2>12. Again(item) = [k \in 1 .. Len(d) |-> Instr(d[k].var, EncodeV1(d[k].var, item[d[k].var]))]
    BY <2>3, <2>11
  <2>13. ASSUME NEW k \in 1 .. Len(d)
         PROVE  Instr(d[k].var, EncodeV1(d[k].var, item[d[k].var]))
                  = IF d[k].var = "user_input" THEN Instr("user_input", <<"text", "true">>) ELSE d[k]
    BY <2>2, <2>7, <2>8
  <2>14. Again(item) = Kept1(d)
    BY <2>12, <2>13
  <2> QED
    BY <2>9, <2>10, <2>14 DEF item, d
<1>4. AcceptsV1(json)
  BY <1>2, <1>3 DEF AcceptsV1
<1>5. ParseHumanReadableRvJSON(json) = WithUserInput(config, <<"text", "true">>)
  <2>1. ParseHumanReadableRvJSON(json) = [i \in 1 .. Len(json) |-> Again(json[i])]
    BY DEF ParseHumanReadableRvJSON
  <2>2. WithUserInput(config, <<"text", "true">>) = [i \in 1 .. Len(config) |-> Kept1(config[i])]
    BY DEF WithUserInput
  <2> HIDE DEF Again, Kept1
  <2> QED
    BY <1>2, <1>3, <2>1, <2>2
<1> QED
  BY <1>4, <1>5 DEF json

-----------------------------------------------------------------------------
(***************************************************************************)
(* The row.                                                                *)
(***************************************************************************)

Typed ==
    /\ writer \in {"v1", "v2"}
    /\ pc \in [Handler -> {"idle", "update", "create", "delete"}]
    /\ put \in [Handler -> V2Input \cup {<<>>}]

\* Between its statements a PUT holds a document that was accepted.
Accepted(h) == pc[h] \in {"update", "create"} => put[h] \in V2Input /\ AcceptsV2(put[h])

\* A row is what an earlier release left or a configuration as the API stores it.
RowKept ==
    \/ row \in {NoRow, Unknown}
    \/ writer = "v1" /\ \E items \in Legacy : row = Json(items)
    \/ /\ row[1] = "cbor"
       /\ Stored(row[2])
       /\ IF writer = "v1" THEN StoredV1(row[2]) ELSE Readable(row[2])

Inv == Typed /\ (\A h \in Handler : Accepted(h)) /\ RowKept

\* The kinds of rows.
LEMMA Rows ==
    /\ \A config : Cbor(config)[1] = "cbor" /\ Cbor(config)[2] = config
    /\ \A items : Json(items)[1] = "json" /\ Json(items)[2] = items
    /\ NoRow[1] = "none" /\ Unknown[1] = "unknown"
BY DEF Cbor, Json, NoRow, Unknown

\* What the migration makes of a legacy document is kept.
LEMMA MigratedKept ==
    ASSUME NEW items \in Legacy
    PROVE  LET r == Migrated(Json(items))
           IN  \/ r = Json(items)
               \/ r[1] = "cbor" /\ Stored(r[2]) /\ StoredV1(r[2])
<1>1. CASE AcceptsV1(items)
  <2>1. Migrated(Json(items)) = Cbor(ParseHumanReadableRvJSON(items))
    BY <1>1, Rows DEF Migrated
  <2>2. Stored(ParseHumanReadableRvJSON(items)) /\ StoredV1(ParseHumanReadableRvJSON(items))
    BY <1>1, ParsedV1
  <2> QED
    BY <2>1, <2>2, Rows
<1>2. CASE ~AcceptsV1(items)
  BY <1>2, Rows DEF Migrated
<1> QED
  BY <1>1, <1>2

\* Inv is inductive: it holds when the server starts,
LEMMA InvInit == Init => Inv
<1> SUFFICES ASSUME Init PROVE Inv
  OBVIOUS
<1>1. Typed /\ \A h \in Handler : Accepted(h)
  BY DEF Init, Idle, Typed, Accepted
<1>2. RowKept
  BY MigratedKept DEF Init, RowKept
<1> QED
  BY <1>1, <1>2 DEF Inv

\* every request, statement and restart preserves it,
LEMMA InvStep == Inv /\ [Next]_vars => Inv'
<1> SUFFICES ASSUME Inv, [Next]_vars PROVE Inv'
  OBVIOUS
<1> USE DEF Inv
<1>1. ASSUME NEW items \in V1Input, createRvInfo(items) \/ updateRvInfo(items) PROVE Inv'
  <2>1. AcceptsV1(items) /\ row' = Cbor(ParseHumanReadableRvJSON(items)) /\ writer' = "v1"
    BY <1>1 DEF createRvInfo, updateRvInfo, InsertRvInfoCBOR, UpdateRvInfoCBOR, Write
  <2>2. UNCHANGED <<pc, put>>
    BY <1>1 DEF createRvInfo, updateRvInfo
  <2>3. RowKept'
    BY <2>1, ParsedV1, Rows DEF RowKept
  <2> QED
    BY <2>1, <2>2, <2>3 DEF Typed, Accepted
<1>2. ASSUME NEW h \in Handler, NEW directives \in V2Input, UpdateRendezvousInfo(h, directives) PROVE Inv'
  BY <1>2 DEF UpdateRendezvousInfo, Goto, Typed, Accepted, RowKept
<1>3. ASSUME NEW h \in Handler, SaveUpdates(h) \/ SaveCreates(h), row' # row \/ writer' # writer \/ put' # put
      PROVE  Inv'
  <2>1. pc[h] \in {"update", "create"} /\ Write(parseV2JSON(put[h]), "v2") /\ Answered(h)
    BY <1>3 DEF SaveUpdates, SaveCreates
  <2>2. put[h] \in V2Input /\ AcceptsV2(put[h])
    BY <2>1 DEF Accepted
  <2>3. row' = Cbor(parseV2JSON(put[h])) /\ writer' = "v2"
    BY <2>1 DEF Write
  <2>4. RowKept'
    BY <2>2, <2>3, ParsedV2, Rows DEF RowKept
  <2>5. Typed' /\ \A g \in Handler : Accepted(g)'
    BY <2>1, <2>3 DEF Typed, Accepted, Answered, Goto
  <2> QED
    BY <2>4, <2>5
<1>4. ASSUME NEW h \in Handler, SaveUpdates(h) \/ SaveCreates(h), UNCHANGED <<row, writer, put>>
      PROVE  Inv'
  <2>1. pc[h] \in {"update", "create"} /\ (Goto(h, "idle") \/ Goto(h, "create"))
    BY <1>4 DEF SaveUpdates, SaveCreates, Answered
  <2> QED
    BY <1>4, <2>1 DEF Typed, Accepted, RowKept, Goto
<1>5. ASSUME NEW h \in Handler, DeleteRendezvousInfo(h) PROVE Inv'
  BY <1>5 DEF DeleteRendezvousInfo, Goto, Typed, Accepted, RowKept
<1>6. ASSUME NEW h \in Handler, DeleteRvInfo(h) PROVE Inv'
  BY <1>6 DEF DeleteRvInfo, Answered, Goto, Typed, Accepted, RowKept
<1>7. ASSUME NEW h \in Handler, StatementFails(h) PROVE Inv'
  BY <1>7 DEF StatementFails, Answered, Goto, Typed, Accepted, RowKept
<1>8. ASSUME Restart PROVE Inv'
  <2>1. Typed' /\ \A h \in Handler : Accepted(h)'
    BY <1>8 DEF Restart, Typed, Accepted
  <2>2. writer' = writer /\ (row' = row \/ row' = Migrated(row))
    BY <1>8 DEF Restart
  <2>3. CASE row' = row
    BY <2>1, <2>2, <2>3 DEF RowKept
  <2>4. CASE row' = Migrated(row) /\ row' # row
    <3>1. PICK items \in Legacy : row = Json(items) /\ writer = "v1"
      BY <2>4, Rows DEF RowKept, Migrated
    <3> QED
      BY <2>1, <2>2, <2>4, <3>1, MigratedKept DEF RowKept
  <2> QED
    BY <2>2, <2>3, <2>4
<1>9. ASSUME UNCHANGED vars PROVE Inv'
  BY <1>9 DEF vars, Typed, Accepted, RowKept
<1> QED
  BY <1>1, <1>2, <1>3, <1>4, <1>5, <1>6, <1>7, <1>8, <1>9 DEF Next

\* so it always holds.
LEMMA Invariant == Spec => []Inv
<1> QED
  BY InvInit, InvStep, PTL DEF Spec

-----------------------------------------------------------------------------

\* TypeCorrect: whatever clients of either API send, and whatever an earlier
\* release stored, the configuration that devices are given has an address in
\* every directive, known variables only, and its ports and delays in range.
THEOREM TypeCorrect == Spec => []TypeOK
<1>1. Inv => TypeOK
  <2> SUFFICES ASSUME Inv PROVE TypeOK
    OBVIOUS
  <2>1. row[1] \in {"none", "unknown", "json"} \/ (row[1] = "cbor" /\ Stored(row[2]))
    BY Rows DEF Inv, RowKept
  <2>2. Stored(row[2]) => Usable(row[2])
    BY DEF Stored, Usable, Kept
  <2> QED
    BY <2>1, <2>2 DEF Inv, Typed, TypeOK
<1> QED
  BY <1>1, Invariant, PTL

\* The one instruction that is stored and cannot be read is ext_rv of a V1
\* document.
OnlyExtRVUnreadable ==
    row[1] = "cbor" =>
        \A i \in 1 .. Len(row[2]) : \A k \in 1 .. Len(row[2][i]) :
            Decodes(row[2][i][k]) \/ (writer = "v1" /\ row[2][i][k].var = "ext_rv" /\ HasExtRV)

\* OnlyExtRV: what the run that checks ext_rv shows of V1 can happen to no other
\* variable, and never to what V2 wrote (encodeRvValue of both, cbor.Unmarshal).
THEOREM OnlyExtRV == Spec => []OnlyExtRVUnreadable
<1>1. Inv => OnlyExtRVUnreadable
  BY Rows DEF Inv, RowKept, OnlyExtRVUnreadable, StoredV1, Readable
<1> QED
  BY <1>1, Invariant, PTL

\* Readability: unless a V1 document has ext_rv, whatever either API accepted
\* can be read through both (encodeRvValue against the readers' cbor.Unmarshal).
THEOREM Readability ==
    ASSUME ~HasExtRV
    PROVE  Spec => []ConfigReadable
<1>1. OnlyExtRVUnreadable => ConfigReadable
  BY DEF OnlyExtRVUnreadable, ConfigReadable, Readable
<1> QED
  BY <1>1, OnlyExtRV, PTL

\* V2ReadWrite: a V2 client that reads the configuration and writes it back
\* changes nothing, whoever wrote it and whatever it holds (convertToV2JSON,
\* parseV2JSON).
THEOREM V2ReadWrite == Spec => []V2ReadWriteKeeps
<1>1. Inv => V2ReadWriteKeeps
  BY Rows, ReadWriteV2 DEF Inv, RowKept, V2ReadWriteKeeps
<1> QED
  BY <1>1, Invariant, PTL

\* V1ReadWrite: nor does a V1 client, with what V1 wrote or was migrated
\* (ConvertRvInstructionsToV1JSON, ParseHumanReadableRvJSON).
THEOREM V1ReadWrite == Spec => []V1ReadWriteKeeps
<1>1. Inv => V1ReadWriteKeeps
  BY Rows, ReadWriteV1 DEF Inv, RowKept, V1ReadWriteKeeps
<1> QED
  BY <1>1, Invariant, PTL
=============================================================================
