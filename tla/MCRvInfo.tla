------------------------------ MODULE MCRvInfo ------------------------------
(***************************************************************************)
(* Instances of RvInfo for TLC.                                            *)
(***************************************************************************)
EXTENDS RvInfo, TLC

Str(s) == <<"str", s>>
Num(n) == <<"num", n>>
Frac == <<"frac">>

IPs == [s \in {"192.0.2.1", "::ffff:192.0.2.1"} |-> "192.0.2.1"]

Hexes == [s \in {"", "ab", "AB"} |-> IF s = "AB" THEN "ab" ELSE s]

Address == {<<"dns", Str("a")>>, <<"ip", Str("::ffff:192.0.2.1")>>}

\* Every key, with the values at the edges and ones that are refused.
V2Pairs ==
    {<<key, Str(s)>> : key \in {"dns", "wifi_ssid", "wifi_pw"}, s \in {"", "b"}}
    \cup {<<"ip", Str(s)>> : s \in {"192.0.2.1", "999"}}
    \cup {<<"protocol", Str(s)>> : s \in {"rest", "https", "coap", "coap+tcp", "gopher"}}
    \cup {<<"medium", Str(s)>> : s \in {"eth_all", "wifi_all", "wired_all"}}
    \cup {<<key, Num(n)>> : key \in PortKey, n \in {0, 1, MaxPort, MaxPort + 1}}
    \cup {<<"owner_port", Frac>>, <<"dns", Num(1)>>, <<"other", Str("b")>>}
    \cup {<<key, <<"bool", b>>>> : key \in {"owner_only", "user_input"}, b \in BOOLEAN}
    \cup {<<"delay_seconds", Num(n)>> : n \in {-1, 0, MaxUint32, MaxUint32 + 1}}
    \cup {<<"sv_cert_hash", Str(s)>> : s \in {"", "AB", "g"}}
    \cup {<<"ext_rv", <<"list", l>>>> : l \in {<<>>, <<"x", "y">>}}

\* Documents of one or two directives.
V2Documents ==
    {<<>>}
    \cup {<<<<p>>>> : p \in V2Pairs}
    \cup {<<<<a, p>>>> : a \in Address, p \in V2Pairs}
    \cup {<<<<p, a>>>> : a \in Address, p \in V2Pairs}
    \cup {<<<<a>>, <<b, p>>>> : a \in Address, b \in Address, p \in {<<"owner_only", <<"bool", TRUE>>>>}}

V1Fields ==
    {<<key, Str(s)>> : key \in {"wifi_ssid", "user_input"}, s \in {"", "no"}}
    \cup {<<"protocol", Str(s)>> : s \in {"http", "coap", "coap+tcp", "gopher"}}
    \cup {<<"medium", Str("eth_all")>>, <<"owner_port", Str("eighty")>>}
    \cup {<<key, <<"dec", n>>>> : key \in PortKey, n \in {0, MaxPort, MaxPort + 1}}
    \cup {<<"dev_only", <<"bool", b>>>> : b \in BOOLEAN}
    \cup {<<"delay_seconds", Num(n)>> : n \in {-1, 0, MaxUint32, MaxUint32 + 1}}
    \cup {<<"cl_cert_hash", Str(s)>> : s \in {"AB", "g"}}

Item(fields) == [key \in {f[1] : f \in fields} |-> (CHOOSE f \in fields : f[1] = key)[2]]

V1Documents ==
    {<<>>, <<Item({})>>}
    \cup {<<Item({a, f})>> : a \in Address, f \in V1Fields}
    \cup {<<Item(Address)>>, <<Item(Address \cup {<<"user_input", Str("no")>>, <<"dev_only", <<"bool", TRUE>>>>})>>}

\* A V1 document with ext_rv: text that holds a JSON array.
V1ExtRV == {<<Item({<<"dns", Str("a")>>, <<"ext_rv", <<"json", <<"x", "y">>>>>>})>>}

V2Two == {<<<<<<"dns", Str(s)>>>>>> : s \in {"a", "b"}}
===========================================================================
