---------------------------- MODULE ZakopService ----------------------------
(***************************************************************************)
(* The service script (embedded/files/etc/init.d/zakop) and zakopd apply:  *)
(* how a start, a reload, a stop and a restart bring up the daemons, the   *)
(* nftables table with its policy routing, and take over dnsmasq's         *)
(* upstream in /etc/config/dhcp, and how they give all of it back.         *)
(*                                                                         *)
(* The script keeps what the user had in state files.  They are on flash   *)
(* like /etc/config/dhcp, but the two are not written together, and a      *)
(* change made with uci is in a file under /tmp until it is committed.     *)
(* The script can be killed and the router can lose power between any two  *)
(* steps.  rc.common runs one script at a time (procd_lock) and maps       *)
(* reload to start.  A commit is followed by a reload of dnsmasq, which    *)
(* therefore runs with what is in flash.                                   *)
(*                                                                         *)
(* Both dnsmasq options are abstracted to "none" (not set), "zakop" (the   *)
(* value the script writes: noresolv 1, addsubnet 32) and "other".         *)
(***************************************************************************)
EXTENDS Naturals, FiniteSets

CONSTANTS
  Listen,       \* values of dns_listen, as dnsmasq servers
  Default,      \* 127.0.0.1#5353
  UserServer,   \* upstream servers of the user's own
  Mark,         \* values of mark (and table)
  Confs,        \* configurations of zakop
  UserDhcps     \* what users have in /etc/config/dhcp

Absent == "absent"
Value == {"none", "zakop", "other"}
Option == {"noresolv", "addsubnet"}

Conf == [enabled : BOOLEAN,  \* main.enabled
         manage : BOOLEAN,   \* main.manage_dnsmasq
         listen : Listen, mark : Mark]

Dhcp == [servers : SUBSET (UserServer \cup Listen), option : [Option -> Value]]

ASSUME ConfsAssumption == Confs \subseteq Conf /\ Confs # {}
ASSUME AddressAssumption == /\ Default \in Listen
                            /\ Listen \cap UserServer = {}
                            /\ Absent \notin Listen \cup UserServer \cup Mark
ASSUME UserAssumption == \A u \in UserDhcps : u \in Dhcp /\ u.servers \subseteq UserServer

VARIABLES
  conf,     \* /etc/config/zakop
  user,     \* what the user wrote to /etc/config/dhcp (history)
  flash,    \* /etc/config/dhcp
  uci,      \* what uci shows of it: flash and the changes not yet committed
  saved,    \* the state files
  table,    \* the nftables table, by the mark it sets
  rules,    \* the marks that have an ip rule
  routes,   \* the marks that have the local route
  instances,\* does procd have instances of the service?
  zakopd,   \* the address zakopd listens on
  script,   \* the running script
  torn,     \* were changes of flash lost, and the state files kept? (history)
  cut       \* was an apply killed that had a table, no rule or route, and nothing
            \* deleted that table since? (history)

vars == <<conf, user, flash, uci, saved, table, rules, routes, instances, zakopd,
          script, torn, cut>>
kernel == <<table, rules, routes, cut>>
daemons == <<instances, zakopd>>
dhcp == <<flash, uci, saved>>

Step == {"check", "submit", "load", "ready",
         "apply", "compile", "load_table", "add_rule", "add_route",
         "undo_table", "undo_rule", "undo_route",
         "save_server", "save_noresolv", "save_addsubnet", "switch",
         "commit_switch", "write_cron",
         "delete_table", "delete_rule", "delete_route", "restore", "forget_server",
         "forget_noresolv", "forget_addsubnet", "commit_restore", "remove_cron"}

Script == [step : Step,
           job : {"start", "stop", "restart"},
           conf : Confs,       \* what config_load read
           ok : BOOLEAN,       \* did start_service fill in the instances, and has
                               \* zakopd apply not failed since?
           mark : Mark \cup {Absent},      \* what zakopd apply read
           probed : Listen \cup {Absent},  \* what has answered its probe (history)
           steady : BOOLEAN]   \* has conf stayed the same meanwhile? (history)
Idle == [step |-> "idle"]

Saved == [server : Listen \cup {Absent}, option : [Option -> Value \cup {Absent}]]
NothingSaved == [server |-> Absent, option |-> [o \in Option |-> Absent]]

\* The types of the variables.
TypeOK ==
  /\ conf \in Confs
  /\ user \in Dhcp /\ flash \in Dhcp /\ uci \in Dhcp
  /\ saved \in Saved
  /\ table \in Mark \cup {Absent} /\ rules \subseteq Mark /\ routes \subseteq Mark
  /\ instances \in BOOLEAN /\ zakopd \in Listen \cup {Absent}
  /\ script \in Script \cup {Idle}
  /\ torn \in BOOLEAN /\ cut \in BOOLEAN

-----------------------------------------------------------------------------
\* An installed router that never ran zakop.
Init ==
  /\ conf \in Confs
  /\ user \in UserDhcps /\ flash = user /\ uci = user
  /\ saved = NothingSaved
  /\ table = Absent /\ rules = {} /\ routes = {}
  /\ instances = FALSE /\ zakopd = Absent
  /\ script = Idle
  /\ torn = FALSE /\ cut = FALSE

At(step) == script.step = step
Goto(step) == script' = [script EXCEPT !.step = step]
End == script' = Idle

\* A conf read from a user's or LuCI's commit, at any time.
ConfChanges ==
  /\ conf' \in Confs \ {conf}
  /\ script' = IF At("idle") THEN script ELSE [script EXCEPT !.steady = FALSE]
  /\ UNCHANGED <<user, dhcp, kernel, daemons, torn>>

Begin(job, step) ==
  script' = [step |-> step, job |-> job, conf |-> conf, ok |-> FALSE,
             mark |-> Absent, probed |-> Absent, steady |-> TRUE]

\* start_service's config_load, and its choice for a disabled service: what
\* stop_service does.
StartService == Begin("start", IF conf.enabled THEN "check" ELSE "delete_table")

\* stop_service's config_load.
StopService(job) == Begin(job, "delete_table")

\* A script is called: by the user, LuCI, or a reload trigger.  (Bound: the
\* model follows a torn /etc/config/dhcp to the end of the boot, no further.)
Call(job) ==
  /\ At("idle") /\ ~torn
  /\ IF job = "start" THEN StartService ELSE StopService(job)
  /\ UNCHANGED <<conf, user, dhcp, kernel, daemons, torn>>

-----------------------------------------------------------------------------
(* start *)

\* zakopd check, zakopd compile and sing-box check: of the configuration, and of
\* what is installed.
Check ==
  /\ At("check")
  /\ \E ok \in BOOLEAN : script' = [script EXCEPT !.step = "submit", !.ok = ok]
  /\ UNCHANGED <<conf, user, dhcp, kernel, daemons, torn>>

\* rc_procd hands over the instances, whatever start_service returned.  procd
\* ends instances that are not there any more, and leaves alone those that did not
\* change: nothing in them depends on the configuration, but for singbox_bin.
Submit ==
  /\ At("submit")
  /\ instances' = script.ok
  /\ zakopd' = IF script.ok THEN zakopd ELSE Absent
  /\ Goto("load")
  /\ UNCHANGED <<conf, user, dhcp, kernel, torn>>

\* service_started: its own config_load.
Load ==
  /\ At("load")
  /\ IF conf.enabled THEN script' = [script EXCEPT !.conf = conf, !.step = "ready"]
     ELSE End
  /\ UNCHANGED <<conf, user, dhcp, kernel, daemons, torn>>

\* zakopd ready -timeout 30s.  UnprobedReady is the call without "|| return 1".
UnprobedReady ==
  /\ At("ready")
  /\ Goto("apply")
  /\ UNCHANGED <<conf, user, dhcp, kernel, daemons, torn>>
Ready ==
  /\ At("ready")
  /\ \/ /\ conf.enabled /\ zakopd = conf.listen
        /\ script' = [script EXCEPT !.step = "apply", !.probed = conf.listen]
     \/ End
  /\ UNCHANGED <<conf, user, dhcp, kernel, daemons, torn>>

\* zakopd apply is killed with the script, or goes on and keeps the lock to its
\* end.  First its LoadFile.
Apply ==
  /\ At("apply")
  /\ \/ End
     \/ conf.enabled /\ Goto("compile")
     \/ /\ ~conf.enabled
        /\ script' = [script EXCEPT !.step = "undo_table", !.mark = conf.mark]
  /\ UNCHANGED <<conf, user, dhcp, kernel, daemons, torn>>

\* compile reads the configuration a second time.  Then nft -c and the removal of
\* the old table.
Compile ==
  /\ At("compile")
  /\ \/ End /\ UNCHANGED <<table, cut>>
     \/ /\ script' = [script EXCEPT !.step = "load_table", !.mark = conf.mark]
        /\ table' = Absent /\ cut' = FALSE
  /\ UNCHANGED <<conf, user, dhcp, rules, routes, daemons, torn>>

\* nft -f, which adds the whole table or nothing.
LoadTable ==
  /\ At("load_table")
  /\ \/ End /\ UNCHANGED table
     \/ Goto("add_rule") /\ table' = script.mark
  /\ UNCHANGED <<conf, user, dhcp, rules, routes, cut, daemons, torn>>

\* ensureRouting.  When one of its commands fails, apply undoes all of it.
\* KeepTableOnError is apply without that.
KeepTableOnError == End
Fail == script' = [script EXCEPT !.step = "undo_table", !.ok = FALSE]
AddRule ==
  /\ At("add_rule")
  /\ \/ Fail /\ UNCHANGED rules
     \/ Goto("add_route") /\ rules' = rules \cup {script.mark}
  /\ UNCHANGED <<conf, user, dhcp, table, routes, cut, daemons, torn>>
ApplyEnds(ok) ==
  IF ok THEN script' = [script EXCEPT !.step = "save_server", !.mark = Absent] ELSE End
AddRoute ==
  /\ At("add_route")
  /\ \/ Fail /\ UNCHANGED routes
     \/ ApplyEnds(TRUE) /\ routes' = routes \cup {script.mark}
  /\ UNCHANGED <<conf, user, dhcp, table, rules, cut, daemons, torn>>

\* deleteNftTable and cleanupRouting, which stops at its first error.
UndoTable ==
  /\ At("undo_table")
  /\ table' = Absent /\ cut' = FALSE
  /\ Goto("undo_rule")
  /\ UNCHANGED <<conf, user, dhcp, rules, routes, daemons, torn>>
UndoRule ==
  /\ At("undo_rule")
  /\ \/ Goto("undo_route") /\ rules' = rules \ {script.mark}
     \/ ApplyEnds(script.ok) /\ UNCHANGED rules
  /\ UNCHANGED <<conf, user, dhcp, table, routes, cut, daemons, torn>>
UndoRoute ==
  /\ At("undo_route")
  /\ ApplyEnds(script.ok)
  /\ \/ routes' = routes \ {script.mark}
     \/ UNCHANGED routes
  /\ UNCHANGED <<conf, user, dhcp, table, rules, cut, daemons, torn>>

-----------------------------------------------------------------------------
(* zakop_write_dnsmasq *)

\* zakop_dnsmasq_has_non_zakop_server.
HasNonZakopServer(current, old) ==
  uci.servers \ {current, old, Default} # {}

\* What is kept of an option: a value that zakop itself may have left behind, with
\* no server beside zakop's that it could belong to, counts as not set.
ValueToKeep(o) ==
  IF uci.option[o] = "zakop" /\ ~HasNonZakopServer(script.conf.listen, saved.server)
  THEN "none" ELSE uci.option[o]

\* OldServerStays does not take the address of the last start away.
OldServerStays ==
  /\ At("save_server")
  /\ IF script.conf.manage
     THEN /\ saved' = [saved EXCEPT !.server = script.conf.listen]
          /\ Goto("save_noresolv")
     ELSE Goto("write_cron") /\ UNCHANGED saved
  /\ UNCHANGED <<conf, user, uci, flash, kernel, daemons, torn>>
SaveServer ==
  /\ At("save_server")
  /\ IF script.conf.manage
     THEN /\ uci' = [uci EXCEPT !.servers = @ \ ({saved.server} \ {script.conf.listen})]
          /\ saved' = [saved EXCEPT !.server = script.conf.listen]
          /\ Goto("save_noresolv")
     ELSE Goto("write_cron") /\ UNCHANGED <<uci, saved>>
  /\ UNCHANGED <<conf, user, flash, kernel, daemons, torn>>

\* A state file that is there already is from a start that was not undone yet.
SaveOption(o, step, next) ==
  /\ At(step)
  /\ saved' = [saved EXCEPT !.option[o] = IF @ = Absent THEN ValueToKeep(o) ELSE @]
  /\ Goto(next)
  /\ UNCHANGED <<conf, user, uci, flash, kernel, daemons, torn>>
SaveNoresolv == SaveOption("noresolv", "save_noresolv", "save_addsubnet")
SaveAddsubnet == SaveOption("addsubnet", "save_addsubnet", "switch")

\* uci commit dhcp, and the reload of dnsmasq.
Commit(step, next) ==
  /\ At(step)
  /\ flash' = uci
  /\ Goto(next)
  /\ UNCHANGED <<conf, user, uci, saved, kernel, daemons, torn>>

\* The changes.  SetServer sets the list where the script adds to it.  (The uci
\* between two writes to flash are one step.)
SetServer ==
  /\ At("switch")
  /\ uci' = [servers |-> {script.conf.listen}, option |-> [o \in Option |-> "zakop"]]
  /\ Goto("commit_switch")
  /\ UNCHANGED <<conf, user, flash, saved, kernel, daemons, torn>>
Switch ==
  /\ At("switch")
  /\ uci' = [servers |-> uci.servers \cup {script.conf.listen},
             option |-> [o \in Option |-> "zakop"]]
  /\ Goto("commit_switch")
  /\ UNCHANGED <<conf, user, flash, saved, kernel, daemons, torn>>
CommitSwitch == Commit("commit_switch", "write_cron")

\* zakop_write_cron.  (The crontab is left out: nothing reads it but cron, and a
\* script can be called at any time.)
WriteCron ==
  /\ At("write_cron")
  /\ End
  /\ UNCHANGED <<conf, user, dhcp, kernel, daemons, torn>>

-----------------------------------------------------------------------------
(* stop_service *)

\* nft delete table, ip rule del, ip route del.
DeleteTable ==
  /\ At("delete_table")
  /\ table' = Absent /\ cut' = FALSE
  /\ Goto("delete_rule")
  /\ UNCHANGED <<conf, user, dhcp, rules, routes, daemons, torn>>
DeleteRule ==
  /\ At("delete_rule")
  /\ rules' = rules \ {script.conf.mark}
  /\ Goto("delete_route")
  /\ UNCHANGED <<conf, user, dhcp, table, routes, cut, daemons, torn>>
DeleteRoute ==
  /\ At("delete_route")
  /\ routes' = routes \ {script.conf.mark}
  /\ Goto("restore")
  /\ UNCHANGED <<conf, user, dhcp, table, rules, cut, daemons, torn>>

\* zakop_remove_dnsmasq, up to the removal of the state files.  An option that is
\* still zakop's, with no server beside zakop's, goes.
\* RemoveCurrentOnly forgets the address of the last start, RestoreBlindly that there
\* may be no state file.
RestoreBlindly(servers) ==
  LET alone == servers \ {script.conf.listen, saved.server, Default} = {}
      back(o) == saved.option[o]
  IN [servers |-> servers,
      option |-> [o \in Option |-> IF back(o) = "zakop" /\ alone THEN "none" ELSE back(o)]]
Restored(servers) ==
  LET alone == servers \ {script.conf.listen, saved.server, Default} = {}
      back(o) == IF saved.option[o] = Absent THEN uci.option[o] ELSE saved.option[o]
  IN [servers |-> servers,
      option |-> [o \in Option |-> IF back(o) = "zakop" /\ alone THEN "none" ELSE back(o)]]
RemoveCurrentOnly ==
  /\ At("restore")
  /\ uci' = Restored(uci.servers \ {script.conf.listen, Default})
  /\ Goto("forget_server")
  /\ UNCHANGED <<conf, user, flash, saved, kernel, daemons, torn>>
Restore ==
  /\ At("restore")
  /\ uci' = Restored(uci.servers \ {script.conf.listen, saved.server, Default})
  /\ Goto("forget_server")
  /\ UNCHANGED <<conf, user, flash, saved, kernel, daemons, torn>>

Forget(files, step, next) ==
  /\ At(step)
  /\ saved' = files
  /\ Goto(next)
  /\ UNCHANGED <<conf, user, uci, flash, kernel, daemons, torn>>
ForgetServer == Forget([saved EXCEPT !.server = Absent], "forget_server", "forget_noresolv")
ForgetNoresolv ==
  Forget([saved EXCEPT !.option["noresolv"] = Absent], "forget_noresolv", "forget_addsubnet")
ForgetAddsubnet ==
  Forget([saved EXCEPT !.option["addsubnet"] = Absent], "forget_addsubnet", "commit_restore")

CommitRestore == Commit("commit_restore", "remove_cron")

\* The end of stop_service.  Then rc.common's stop kills the service, restart goes
\* on with start, and start_service returns without an instance.
RemoveCron ==
  /\ At("remove_cron")
  /\ IF script.job = "start"
     THEN Goto("submit") /\ UNCHANGED daemons
     ELSE /\ instances' = FALSE /\ zakopd' = Absent
          /\ IF script.job = "stop" THEN End ELSE StartService
  /\ UNCHANGED <<conf, user, dhcp, kernel, torn>>

-----------------------------------------------------------------------------
(* Everything else *)

\* procd runs zakopd, which reads the configuration itself, and runs it again
\* whenever it has ended.
ZakopdStarts ==
  /\ instances /\ zakopd = Absent
  /\ conf.enabled
  /\ zakopd' = conf.listen
  /\ UNCHANGED <<conf, user, dhcp, kernel, instances, script, torn>>

ZakopdDies ==
  /\ zakopd # Absent
  /\ zakopd' = Absent
  /\ UNCHANGED <<conf, user, dhcp, kernel, instances, script, torn>>

\* Is there a table without the rule and the route that bring what it marks to
\* sing-box?
Unrouted == table \notin {Absent} \cup (rules \cap routes)

\* The script is killed.  What it did stays done, its uncommitted changes, too.
Kill ==
  /\ ~At("idle")
  /\ End
  /\ cut' = Unrouted
  /\ UNCHANGED <<conf, user, dhcp, table, rules, routes, daemons, torn>>

\* Do the state files tell how to undo what zakop has in flash?
Covered ==
  /\ flash.servers \cap Listen \subseteq {saved.server}
  /\ \A o \in Option : saved.option[o] = Absent => flash.option[o] = user.option[o]

\* The router loses power and boots, which starts the service.  The uncommitted
\* changes are lost, those of the state files are not.
PowerLoss ==
  /\ ~torn
  /\ uci' = flash
  /\ torn' = ~Covered
  /\ table' = Absent /\ rules' = {} /\ routes' = {} /\ cut' = FALSE
  /\ instances' = FALSE /\ zakopd' = Absent
  /\ StartService
  /\ UNCHANGED <<conf, user, flash, saved>>

\* The user edits /etc/config/dhcp, while zakop has no part in it.
UserEdits ==
  /\ At("idle") /\ saved = NothingSaved /\ uci = user
  /\ user' \in UserDhcps /\ flash' = user' /\ uci' = user'
  /\ UNCHANGED <<conf, saved, kernel, daemons, script, torn>>

ScriptStep ==
  \/ Check \/ Submit \/ Load \/ Ready
  \/ Apply \/ Compile \/ LoadTable \/ AddRule \/ AddRoute
  \/ UndoTable \/ UndoRule \/ UndoRoute
  \/ SaveServer \/ SaveNoresolv \/ SaveAddsubnet \/ Switch
  \/ CommitSwitch \/ WriteCron
  \/ DeleteTable \/ DeleteRule \/ DeleteRoute
  \/ Restore \/ ForgetServer \/ ForgetNoresolv \/ ForgetAddsubnet
  \/ CommitRestore \/ RemoveCron

Next ==
  \/ \E job \in {"start", "stop", "restart"} : Call(job)
  \/ ScriptStep
  \/ ConfChanges \/ UserEdits
  \/ ZakopdStarts \/ ZakopdDies
  \/ Kill \/ PowerLoss

Spec == Init /\ [][Next]_vars

-----------------------------------------------------------------------------
\* zakop's values in the user's own configuration can be told from those that a
\* zakop left behind: there is a server they belong to.
Recognisable(u) == u.servers = {} => \A o \in Option : u.option[o] # "zakop"

\* "Stopping zakop should restore previous dnsmasq state" (docs/ROUTER_TESTING.md:337).
\* A stop leaves exactly what the user had, however often the service was started
\* before, with whatever addresses, with which step of it failed, and although
\* scripts were killed halfway and power was lost, but for a loss that tore flash
\* from the state files.
StopRestores ==
  At("remove_cron") /\ ~torn /\ Recognisable(user) => flash = user /\ saved = NothingSaved

\* The same without its conditions.
StopRestoresAll == At("remove_cron") => flash = user

\* "When manage_dnsmasq=1, zakop configures dnsmasq to forward DNS to zakopd"
\* (docs/ROUTER_TESTING.md:308).  A start that comes to its end leaves the user's own
\* servers, the present address and no earlier one, and the table of the
\* configuration it read, whatever failed starts, kills, lost power and changes of
\* the configuration left behind: a later start repairs all of it.
StartTakesOver ==
  At("write_cron") /\ ~torn /\ script.conf.manage =>
    /\ flash = [servers |-> user.servers \cup {script.conf.listen},
                option |-> [o \in Option |-> "zakop"]]
    /\ script.steady => table = conf.mark

\* dnsmasq has at most one address of zakop, however dns_listen changed and
\* whatever was killed: a start with a new dns_listen replaces the old one.  The
\* exception is a loss of power between SaveServer, which has only uci forget the
\* old address, and CommitSwitch (torn): it may leave both.
OneZakopServer == ~torn => Cardinality(flash.servers \cap Listen) <= 1

\* The servers dnsmasq has are the user's own and zakop's: none of the user's is
\* ever lost, not even when power is lost between a state file and a commit.
OwnServersStay == flash.servers \ Listen = user.servers

\* A table that marks packets has the rule and the route that bring them to
\* sing-box, but for the commands between nft -f and the end of zakopd apply, and
\* for what an apply that was killed among them leaves.  The next start or stop
\* repairs that, and an apply that fails leaves none: a start that takes dnsmasq
\* over always has its table routed, and a stop has none.
PolicyIsRouted ==
  /\ Unrouted => cut \/ script.step \in {"add_rule", "add_route", "undo_table"}
  /\ script.step \in {"save_server", "save_noresolv", "save_addsubnet", "switch",
                      "commit_switch", "write_cron"} => ~Unrouted
  /\ script.step \in {"restore", "commit_restore", "remove_cron"} => table = Absent

\* "nft/TProxy and the dnsmasq upstream switch are enabled only after an end-to-end
\* real-DNS probe" (docs/ARCHITECTURE.md:263): the address dnsmasq gets is one that
\* has answered in this start, unless the configuration changed meanwhile.
EnabledAfterProbe ==
  [][~At("idle") /\ script.steady =>
       /\ flash'.servers \cap Listen \subseteq flash.servers \cup {script.probed}
       /\ table' \notin {Absent, table} => script.probed = conf.listen]_vars
=============================================================================
