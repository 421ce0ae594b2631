---------------------------- MODULE MCConfigFile ----------------------------
(* Two processes, a subscription with a short name and one whose name leaves   *)
(* room for one digit of the hash, which a and b share.  Links a and a2 are    *)
(* the same node with other parameters; x lacks its password and y its key; z  *)
(* does not parse; the label of b is the tag of the pool, whose members are    *)
(* the two nodes imported first.                                               *)
EXTENDS ConfigFile, TLC
MCTrojan(server, label) ==
  [scheme |-> "trojan", endpoint |-> server, credential |-> "pw", method |-> None,
   reality |-> FALSE, pbk |-> FALSE, label |-> <<label>>]
MCEntry ==
  "a" :> MCTrojan("A", "home") @@ "a2" :> MCTrojan("A", "at home")
    @@ "b" :> MCTrojan("B", "pool")
    @@ "x" :> [MCTrojan("X", "x") EXCEPT !.scheme = "ss", !.method = "aes", !.credential = None]
    @@ "y" :> [MCTrojan("Y", "y") EXCEPT !.scheme = "vless", !.reality = TRUE]
    @@ "z" :> [MCTrojan("Z", "z") EXCEPT !.scheme = "socks"]
MCLists == {<<"a", "a2">>, <<"b", "z", "a">>, <<"x", "y">>, <<"z">>}
MCTag(name) == [name |-> <<name>>, n |-> 1]
MCImported(name, l) ==
  [tag |-> MCTag(name), node |-> NodeOf(l), sub |-> Manual, good |-> TRUE]
MCInitial == <<MCImported("home", "a"), MCImported("office", "b")>>
MCMembers == {MCTag("home"), MCTag("office")}
MCPoolTags == {MCTag("pool")}
MCSubscriptions == <<"s", "long">>
MCStem == "s" :> "s" @@ "long" :> "long"
MCWidth == "s" :> 1 @@ "long" :> 46
MCDigit == "a" :> "0" @@ "b" :> "0" @@ "a2" :> "1" @@ "x" :> "2" @@ "y" :> "3" @@ "z" :> "4"
MCHash == [l \in DOMAIN MCEntry |->
             [d \in 0..10 |-> IF d = 0 THEN "" ELSE IF d = 1 THEN MCDigit[l] ELSE l]]
\* The processes are interchangeable.
JobSymmetry == Permutations(Job)
=============================================================================
