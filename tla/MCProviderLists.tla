-------------------------- MODULE MCProviderLists --------------------------
(* Addresses of 3 bits, two lists of networks and one of domains.  The update    *)
(* that may be under way at first carries one line or two, whatever they may be. *)
EXTENDS ProviderLists, TLC
MCNet(addr, len) == [kind |-> "cidr", addr |-> addr, len |-> len]
MCOther(kind, addr) == [kind |-> kind, addr |-> addr, len |-> 0]
MCRaw == {MCNet(a, n) : a \in Address, n \in 0..W}
           \cup {MCOther("v6", 0), MCOther("junk", 0)}
MCType == "ip" :> "ip" @@ "ip2" :> "ip" @@ "dom" :> "domain"
MCLists == "ip" :> {{MCNet(5, 2), MCNet(1, 3), MCOther("v6", 0)}}
        @@ "ip2" :> {{MCNet(6, 2), MCNet(3, 3)}, {MCOther("junk", 0)}}
        @@ "dom" :> {{MCOther("name", 1)}}
MCUnderWay == "ip" :> {{a, b} : a, b \in MCRaw} @@ "ip2" :> {} @@ "dom" :> {}
MCTorn == "ip" :> {{MCNet(4, 1)}, {MCOther("junk", 0)}} @@ "ip2" :> {} @@ "dom" :> {{}}
MCOwn == {MCNet(0, 3)}
MCFile == {MCNet(2, 3)}
MCSpent == {<<0, 0, 1>>, <<1, 1, 0>>}
MCUpdateOnly == {<<1, 1, 1>>}
MCRuleOrder == <<"dom", "file", "ip", "ip2">>
=============================================================================
