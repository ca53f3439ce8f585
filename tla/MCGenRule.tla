------------------------------ MODULE MCGenRule ------------------------------
(* Tables of four or five protocols, with bytes of two bits: graphs in     *)
(* which a protocol has two parents, with type fields of one and of two    *)
(* bytes at one depth, cycles, names without a row, headers that look      *)
(* alike, masks that leave bits out, one rule or one layer more than there *)
(* are registers, and tables in which a name has two rows.                 *)
EXTENDS GenRule

Two(high, low) == {b + TYPE_WIDTH : b \in high} \cup low
All == 0 .. TYPE_WIDTH - 1

Announce(value, name) == [value |-> value, next |-> name]

(* A row whose type field has that mask, at that place.                    *)
Row(name, offset, mask, proto) ==
  [name |-> name, proto |-> proto, keys |-> <<0, 1>>, replace |-> <<0, 1>>,
   offset |-> offset, mask |-> mask,
   len |-> IF proto = <<>> THEN 0 ELSE IF \E b \in mask : b >= TYPE_WIDTH THEN 2 ELSE 1]

IP == Two({1}, {})        \* 08 00
VLAN == Two({1}, {0, 1})  \* 81 00, whose first byte is that of IP here

(* The first protocol announces with two bytes, the second with one, which *)
(* may be the first byte of IP, the third with two or with one.            *)
MCTables ==
  {<<Row("eth", 2, Two(All, All), e), Row("ip", 1, m, i),
     Row("vlan", 1, v.mask, v.proto), Row("udp", 0, {}, <<>>)>> :
     e \in {<<Announce(IP, "ip")>>, <<Announce(IP, "ip"), Announce(VLAN, "vlan")>>,
            <<Announce(VLAN, "vlan"), Announce(IP, "ip"), Announce({}, "udp")>>,
            <<Announce(IP, "ip"), Announce(VLAN, "vlan"), Announce({}, "udp"),
              Announce({0}, "vlan")>>},
     m \in {All, {1}},
     i \in {<<Announce({1}, "udp")>>, <<Announce({}, "udp"), Announce({0}, "udp")>>,
            <<Announce({0, 1}, "vlan"), Announce({1}, "udp")>>, <<Announce({1}, "tls")>>,
            <<Announce({}, "ip")>>},
     v \in [mask : {Two(All, All), Two({}, All)},
            proto : {<<Announce(IP, "ip")>>, <<>>}]
           \cup [mask : {All}, proto : {<<Announce({0}, "udp")>>, <<Announce({0}, "eth")>>}]}
  \cup {<<Row("eth", 0, Two(All, All), <<Announce(IP, "vlan")>>), Row("ip", 0, All, <<>>),
          Row("vlan", 0, All, <<>>),
          Row("eth", 0, Two(All, All), e), Row("ip", 3, All, <<Announce({1}, "vlan")>>)>> :
           e \in {<<Announce(IP, "ip")>>, <<Announce(IP, "ip"), Announce(VLAN, "vlan")>>}}
  \cup {<<Row("eth", 2, Two(All, All), <<Announce(IP, "ip")>>),
          Row("ip", 1, All, <<Announce({1}, "udp")>>), Row("udp", 0, All, <<Announce({1}, "app")>>),
          Row("app", 2, All, a), Row("end", 0, {}, <<>>)>> :
           a \in {<<>>, <<Announce({}, "end")>>}}
=============================================================================
