--------------------------- MODULE MCZakopService ---------------------------
(* Two listen addresses and two marks; a user with servers and an option of      *)
(* their own, and one with a value like those zakop writes and no server.        *)
EXTENDS ZakopService

C(enabled, manage, listen, mark) ==
  [enabled |-> enabled, manage |-> manage, listen |-> listen, mark |-> mark]
MCConfs == { C(TRUE, TRUE, "5353", "m"), C(TRUE, TRUE, "5354", "n"),
             C(TRUE, FALSE, "5354", "n"), C(FALSE, TRUE, "5353", "m") }

U(servers, noresolv, addsubnet) ==
  [servers |-> servers,
   option |-> [o \in Option |-> IF o = "noresolv" THEN noresolv ELSE addsubnet]]
MCUserDhcps == {U({}, "none", "zakop"), U({"own"}, "zakop", "other")}
=============================================================================
