--------------------------- MODULE MCIdentifiers ---------------------------
EXTENDS Identifiers

V(type, name, spelling) == [type |-> type, text |-> [name |-> name, spelling |-> spelling]]
T(name, spelling) == [name |-> name, spelling |-> spelling]

host == V("dns", "host", "lower")
Host == V("dns", "host", "mixed")
wild == V("dns", "*.host", "lower")
v4 == V("ip", "v4", "lower")
v4Name == V("dns", "v4", "lower")
v6 == V("ip", "v6", "lower")
v6Long == V("ip", "v6", "mixed")
email == V("other", "host", "lower")

MCRequests == {<<host>>, <<Host>>, <<Host, host>>, <<wild, host>>, <<v6>>,
               <<v4, v4Name>>, <<v4Name, wild, v4>>, <<v6, Host, v4>>, <<Host, wild>>}
MCWireOrders == {<<host>>, <<Host, wild>>, <<v4>>, <<v4Name>>, <<v4Name, v4>>,
                 <<v6>>, <<v6Long>>, <<email>>, <<>>, <<Host, host>>}
MCRequesters ==
    [cns : {{}, {T("host", "lower")}, {T("host", "mixed")}, {T("v4", "lower")},
            {T("v6", "lower")}, {T("host", "lower"), T("*.host", "lower")}},
     sans : {<<>>} \cup {<<a>> : a \in {host, Host, wild, v4, v4Name, v6, email}}
            \cup {<<wild, Host>>, <<v4, v4Name>>, <<host, host>>, <<v6, host>>}]
MCStraySANs == {<<>>, <<host, host>>, <<email>>, <<v4>>, <<v4Name>>, <<Host>>, <<v6, host, v4>>}
=============================================================================
