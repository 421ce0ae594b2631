------------------------- MODULE ZakopServiceProofs -------------------------
(***************************************************************************)
(* Proofs about ZakopService, for all addresses, marks, configurations and *)
(* users' settings.                                                        *)
(***************************************************************************)
EXTENDS ZakopService, FiniteSetTheorems, TLAPS

(* The script that Begin starts, and where it goes, are scripts. *)
LEMMA BeginType ==
  ASSUME TypeOK, NEW job \in {"start", "stop", "restart"}, NEW step \in Step,
         Begin(job, step)
  PROVE  script' \in Script
  BY DEF Begin, Script, TypeOK

LEMMA GotoType ==
  ASSUME TypeOK, ~At("idle"), NEW step \in Step, Goto(step)
  PROVE  script' \in Script
  BY DEF Goto, At, Script, Idle, TypeOK

(* What a step learns of the configuration, or of the checks, stays in the script. *)
LEMMA LearnOk ==
  ASSUME NEW s \in Script, NEW step \in Step, NEW ok \in BOOLEAN
  PROVE  [s EXCEPT !.step = step, !.ok = ok] \in Script
<1> DEFINE t == [s EXCEPT !.step = step]
<1>1. t \in Script
  BY DEF Script
<1> HIDE DEF t
<1>2. [t EXCEPT !.ok = ok] \in Script
  BY <1>1 DEF Script
<1> QED BY <1>2 DEF t

LEMMA LearnConf ==
  ASSUME NEW s \in Script, NEW step \in Step, NEW c \in Confs
  PROVE  [s EXCEPT !.conf = c, !.step = step] \in Script
<1> DEFINE d == [s EXCEPT !.conf = c]
<1>1. d \in Script
  BY DEF Script
<1> HIDE DEF d
<1>2. [d EXCEPT !.step = step] \in Script
  BY <1>1 DEF Script
<1> QED BY <1>2 DEF d

LEMMA LearnProbed ==
  ASSUME NEW s \in Script, NEW step \in Step, NEW address \in Listen
  PROVE  [s EXCEPT !.step = step, !.probed = address] \in Script
<1> DEFINE t == [s EXCEPT !.step = step]
<1>1. t \in Script
  BY DEF Script
<1> HIDE DEF t
<1>2. [t EXCEPT !.probed = address] \in Script
  BY <1>1 DEF Script
<1> QED BY <1>2 DEF t

LEMMA LearnMark ==
  ASSUME NEW s \in Script, NEW step \in Step, NEW mark \in Mark \cup {Absent}
  PROVE  [s EXCEPT !.step = step, !.mark = mark] \in Script
<1> DEFINE t == [s EXCEPT !.step = step]
<1>1. t \in Script
  BY DEF Script
<1> HIDE DEF t
<1>2. [t EXCEPT !.mark = mark] \in Script
  BY <1>1 DEF Script
<1> QED BY <1>2 DEF t

LEMMA BusyType == ASSUME TypeOK, ~At("idle") PROVE script \in Script
  BY DEF TypeOK, At, Idle

LEMMA StartServiceType == ASSUME TypeOK, StartService PROVE script' \in Script
  BY BeginType DEF StartService, Step

LEMMA StopServiceType ==
  ASSUME TypeOK, NEW job \in {"stop", "restart"}, StopService(job)
  PROVE  script' \in Script
  BY BeginType DEF StopService, Step

(* The uci commands of a start and of a stop leave a dnsmasq configuration. *)
LEMMA ValueToKeepType ==
  ASSUME TypeOK, NEW o \in Option PROVE ValueToKeep(o) \in Value
  BY DEF ValueToKeep, TypeOK, Dhcp, Value

LEMMA RestoredType ==
  ASSUME TypeOK, NEW servers \in SUBSET (UserServer \cup Listen)
  PROVE  Restored(servers) \in Dhcp
<1> DEFINE back(o) == IF saved.option[o] = Absent THEN uci.option[o] ELSE saved.option[o]
<1>1. \A o \in Option : back(o) \in Value /\ "none" \in Value
  BY DEF TypeOK, Saved, Dhcp, Value
<1> HIDE DEF back
<1>2. \A alone \in BOOLEAN :
        [o \in Option |-> IF back(o) = "zakop" /\ alone THEN "none" ELSE back(o)]
          \in [Option -> Value]
  BY <1>1
<1>3. (servers \ {script.conf.listen, saved.server, Default} = {}) \in BOOLEAN
  OBVIOUS
<1> QED BY <1>2, <1>3 DEF Restored, Dhcp, back

(* zakopd apply and stop_service's commands: what they make of the script. *)
KernelStep == \/ Apply \/ Compile \/ LoadTable \/ AddRule \/ AddRoute
              \/ UndoTable \/ UndoRule \/ UndoRoute
              \/ DeleteTable \/ DeleteRule \/ DeleteRoute

Moved(step) == /\ script' \in Script /\ script'.step = step
               /\ script'.conf = script.conf /\ script'.steady = script.steady
               /\ script'.probed = script.probed

LEMMA GotoMoves ==
  ASSUME TypeOK, ~At("idle"), NEW step \in Step, Goto(step)
  PROVE  Moved(step) /\ script'.mark = script.mark /\ script'.ok = script.ok
  BY DEF TypeOK, At, Goto, Script, Idle, Moved

LEMMA MarkMoves ==
  ASSUME TypeOK, ~At("idle"), NEW step \in Step, NEW mark \in Mark \cup {Absent},
         script' = [script EXCEPT !.step = step, !.mark = mark]
  PROVE  Moved(step) /\ script'.mark = mark /\ script'.ok = script.ok
<1> DEFINE t == [script EXCEPT !.step = step]
<1>1. script \in Script
  BY BusyType
<1>2. /\ t \in Script /\ t.step = step /\ t.conf = script.conf /\ t.ok = script.ok
      /\ t.steady = script.steady /\ t.probed = script.probed
  BY <1>1 DEF Script
<1>3. script' = [t EXCEPT !.mark = mark]
  OBVIOUS
<1> HIDE DEF t
<1>4. /\ script' \in Script /\ script'.step = t.step /\ script'.conf = t.conf
      /\ script'.steady = t.steady /\ script'.probed = t.probed
      /\ script'.mark = mark /\ script'.ok = t.ok
  BY <1>2, <1>3 DEF Script
<1> QED BY <1>2, <1>4 DEF Moved

LEMMA OkMoves ==
  ASSUME TypeOK, ~At("idle"), NEW step \in Step, NEW ok \in BOOLEAN,
         script' = [script EXCEPT !.step = step, !.ok = ok]
  PROVE  Moved(step) /\ script'.mark = script.mark /\ script'.ok = ok
<1> DEFINE t == [script EXCEPT !.step = step]
<1>1. script \in Script
  BY BusyType
<1>2. /\ t \in Script /\ t.step = step /\ t.conf = script.conf /\ t.mark = script.mark
      /\ t.steady = script.steady /\ t.probed = script.probed
  BY <1>1 DEF Script
<1>3. script' = [t EXCEPT !.ok = ok]
  OBVIOUS
<1> HIDE DEF t
<1>4. /\ script' \in Script /\ script'.step = t.step /\ script'.conf = t.conf
      /\ script'.steady = t.steady /\ script'.probed = t.probed
      /\ script'.mark = t.mark /\ script'.ok = ok
  BY <1>2, <1>3 DEF Script
<1> QED BY <1>2, <1>4 DEF Moved

LEMMA EndsMove ==
  ASSUME TypeOK, ~At("idle"), NEW ok \in BOOLEAN, ApplyEnds(ok)
  PROVE  IF ok THEN Moved("save_server") ELSE script' = Idle
<1>1. CASE ok
  <2>1. script' = [script EXCEPT !.step = "save_server", !.mark = Absent]
    BY <1>1 DEF ApplyEnds
  <2>2. "save_server" \in Step /\ Absent \in Mark \cup {Absent}
    BY DEF Step
  <2>3. Moved("save_server")
    BY <2>1, <2>2, MarkMoves
  <2> QED BY <1>1, <2>3
<1>2. CASE ~ok
  BY <1>2 DEF ApplyEnds, End
<1> QED BY <1>1, <1>2

LEMMA ApplyMoves ==
  ASSUME TypeOK, Apply
  PROVE  \/ script' = Idle
         \/ conf.enabled /\ Moved("compile")
         \/ /\ ~conf.enabled /\ Moved("undo_table")
            /\ script'.mark = conf.mark /\ script'.ok = script.ok
<1>1. conf.mark \in Mark \cup {Absent} /\ ~At("idle")
  BY ConfsAssumption DEF TypeOK, Conf, Apply, At
<1>2. "compile" \in Step /\ "undo_table" \in Step
  BY DEF Step
<1>3. CASE End
  BY <1>3 DEF End
<1>4. CASE conf.enabled /\ Goto("compile")
  BY <1>1, <1>2, <1>4, GotoMoves
<1>5. CASE ~conf.enabled /\ script' = [script EXCEPT !.step = "undo_table", !.mark = conf.mark]
  <2>1. Moved("undo_table") /\ script'.mark = conf.mark /\ script'.ok = script.ok
    BY <1>1, <1>2, <1>5, MarkMoves
  <2> QED BY <1>5, <2>1
<1> QED BY <1>3, <1>4, <1>5 DEF Apply

LEMMA CompileMoves ==
  ASSUME TypeOK, Compile
  PROVE  script' = Idle \/ (Moved("load_table") /\ script'.mark = conf.mark)
<1>1. conf.mark \in Mark \cup {Absent} /\ ~At("idle") /\ "load_table" \in Step
  BY ConfsAssumption DEF TypeOK, Conf, Compile, At, Step
<1>2. CASE End
  <2>1. script' = Idle
    BY <1>2 DEF End
  <2> QED BY <2>1
<1>3. CASE script' = [script EXCEPT !.step = "load_table", !.mark = conf.mark]
  <2>1. Moved("load_table") /\ script'.mark = conf.mark
    BY <1>1, <1>3, MarkMoves
  <2> QED BY <2>1
<1> QED BY <1>2, <1>3 DEF Compile

LEMMA LoadTableMoves ==
  ASSUME TypeOK, LoadTable
  PROVE  script' = Idle \/ (Moved("add_rule") /\ script'.mark = script.mark)
<1>1. ~At("idle") /\ "add_rule" \in Step /\ (End \/ Goto("add_rule"))
  BY DEF LoadTable, At, Step
<1> QED BY <1>1, GotoMoves DEF End

LEMMA FailMoves ==
  ASSUME TypeOK, ~At("idle"), Fail PROVE Moved("undo_table") /\ ~script'.ok
<1>1. "undo_table" \in Step /\ FALSE \in BOOLEAN
  BY DEF Step
<1>2. script' = [script EXCEPT !.step = "undo_table", !.ok = FALSE]
  BY DEF Fail
<1> QED BY <1>1, <1>2, OkMoves

LEMMA AddRuleMoves ==
  ASSUME TypeOK, AddRule
  PROVE  \/ Moved("undo_table") /\ ~script'.ok
         \/ Moved("add_route") /\ script'.mark = script.mark
  BY GotoMoves, FailMoves DEF AddRule, At, Step

LEMMA AddRouteMoves ==
  ASSUME TypeOK, AddRoute
  PROVE  \/ Moved("undo_table") /\ ~script'.ok
         \/ Moved("save_server")
  BY EndsMove, FailMoves DEF AddRoute, At

LEMMA UndoMoves ==
  ASSUME TypeOK, UndoTable \/ UndoRule \/ UndoRoute
  PROVE  \/ ~script.ok /\ script' = Idle
         \/ script'.ok = script.ok /\ Moved("undo_rule")
         \/ script'.ok = script.ok /\ Moved("undo_route")
         \/ script.ok /\ Moved("save_server")
<1>1. script.ok \in BOOLEAN /\ ~At("idle")
  BY DEF UndoTable, UndoRule, UndoRoute, At, TypeOK, Script, Idle
<1>2. ApplyEnds(script.ok) \/ Goto("undo_rule") \/ Goto("undo_route")
  BY DEF UndoTable, UndoRule, UndoRoute
<1> QED BY <1>1, <1>2, EndsMove, GotoMoves DEF Step

LEMMA DeleteMoves ==
  ASSUME TypeOK, DeleteTable \/ DeleteRule \/ DeleteRoute
  PROVE  Moved("delete_rule") \/ Moved("delete_route") \/ Moved("restore")
  BY GotoMoves DEF DeleteTable, DeleteRule, DeleteRoute, At, Step

LEMMA KernelEffect ==
  ASSUME TypeOK, KernelStep
  PROVE  /\ ~At("idle") /\ UNCHANGED <<conf, user, flash, uci, saved, instances, zakopd, torn>>
         /\ \/ script' = Idle
            \/ \E step \in {"compile", "load_table", "add_rule", "add_route", "undo_table",
                            "undo_rule", "undo_route", "save_server", "delete_rule",
                            "delete_route", "restore"} : Moved(step)
<1>1. ~At("idle") /\ UNCHANGED <<conf, user, flash, uci, saved, instances, zakopd, torn>>
  BY DEF KernelStep, Apply, Compile, LoadTable, AddRule, AddRoute, UndoTable, UndoRule,
         UndoRoute, DeleteTable, DeleteRule, DeleteRoute, At, dhcp, daemons
<1> QED BY <1>1, ApplyMoves, CompileMoves, LoadTableMoves, AddRuleMoves, AddRouteMoves,
           UndoMoves, DeleteMoves
        DEF KernelStep

Switching == {"save_noresolv", "save_addsubnet", "switch", "commit_switch"}
Restoring == {"forget_server", "forget_noresolv", "forget_addsubnet", "commit_restore"}

(* All other steps, as far as zakopd apply and the kernel are concerned. *)
Stays == /\ script'.step = script.step /\ script'.mark = script.mark
         /\ script'.ok = script.ok /\ script'.steady => script.steady

LEMMA OtherStep ==
  ASSUME TypeOK, [Next]_vars, ~KernelStep
  PROVE  /\ \/ Stays
            \/ script'.step \in {"idle", "check", "submit", "load", "ready", "apply",
                                 "delete_table"}
            \/ /\ script'.step \in Switching \cup {"write_cron"}
               /\ script.step \in Switching \cup {"save_server"}
            \/ /\ script'.step \in Restoring \cup {"remove_cron"}
               /\ script.step \in Restoring \cup {"restore"}
         /\ \/ /\ UNCHANGED kernel
               /\ Stays \/ script.step \notin {"add_rule", "add_route", "undo_table"}
            \/ table' = Absent /\ script'.step \in {"check", "delete_table"}
            \/ UNCHANGED table /\ cut' = Unrouted' /\ script' = Idle
<1> USE DEF kernel, daemons
<1> DEFINE Elsewhere == script.step \notin {"add_rule", "add_route", "undo_table"}
<1>1. ASSUME NEW job \in {"start", "stop", "restart"}, Call(job)
      PROVE  script'.step \in {"check", "delete_table"} /\ UNCHANGED kernel /\ Elsewhere
  BY <1>1 DEF Call, StartService, StopService, Begin, At
<1>2. Check => script'.step = "submit" /\ UNCHANGED kernel
  BY BusyType DEF Check, At, Script
<1>3. Submit => script'.step = "load" /\ UNCHANGED kernel
  BY GotoMoves DEF Submit, At, Step, Moved
<1>4. Load => script'.step \in {"ready", "idle"} /\ UNCHANGED kernel
  <2>1. SUFFICES ASSUME Load PROVE script'.step \in {"ready", "idle"}
    BY DEF Load
  <2>2. script \in Script
    BY <2>1, BusyType DEF Load, At
  <2>3. CASE script' = [script EXCEPT !.conf = conf, !.step = "ready"]
    BY <2>2, <2>3 DEF Script
  <2> QED BY <2>1, <2>3 DEF Load, End, Idle
<1>5. Ready => script'.step \in {"apply", "idle"} /\ UNCHANGED kernel
  <2>1. SUFFICES ASSUME Ready PROVE script'.step \in {"apply", "idle"}
    BY DEF Ready
  <2>2. script \in Script
    BY <2>1, BusyType DEF Ready, At
  <2>3. CASE script' = [script EXCEPT !.step = "apply", !.probed = conf.listen]
    BY <2>2, <2>3 DEF Script
  <2> QED BY <2>1, <2>3 DEF Ready, End, Idle
<1>13. Check \/ Submit \/ Load \/ Ready \/ WriteCron \/ RemoveCron => Elsewhere
  BY DEF Check, Submit, Load, Ready, WriteCron, RemoveCron, At
<1>14. script.step \in Switching \cup Restoring \cup {"save_server", "restore"} => Elsewhere
  BY DEF Switching, Restoring
<1>6. (SaveServer \/ SaveNoresolv \/ SaveAddsubnet \/ Switch \/ CommitSwitch) =>
        /\ script'.step \in Switching \cup {"write_cron"}
        /\ script.step \in Switching \cup {"save_server"}
        /\ UNCHANGED kernel
  BY GotoMoves
  DEF SaveServer, SaveNoresolv, SaveAddsubnet, SaveOption, Switch, CommitSwitch, Commit, At,
      Step, Moved, Switching
<1>7. (WriteCron \/ RemoveCron) =>
        script'.step \in {"idle", "submit", "check", "delete_table"} /\ UNCHANGED kernel
  BY GotoMoves
  DEF WriteCron, RemoveCron, End, Idle, StartService, Begin, At, Step, Moved
<1>8. (Restore \/ ForgetServer \/ ForgetNoresolv \/ ForgetAddsubnet \/ CommitRestore) =>
        /\ script'.step \in Restoring \cup {"remove_cron"}
        /\ script.step \in Restoring \cup {"restore"}
        /\ UNCHANGED kernel
  BY GotoMoves
  DEF Restore, ForgetServer, ForgetNoresolv, ForgetAddsubnet, Forget, CommitRestore, Commit,
      At, Step, Moved, Restoring
<1>9. ConfChanges => Stays /\ UNCHANGED kernel
  BY BusyType DEF ConfChanges, At, Script, Stays
<1>10. (UserEdits \/ ZakopdStarts \/ ZakopdDies \/ UNCHANGED vars) => Stays /\ UNCHANGED kernel
  BY DEF UserEdits, ZakopdStarts, ZakopdDies, vars, Stays
<1>11. Kill => UNCHANGED table /\ cut' = Unrouted' /\ script' = Idle
  BY DEF Kill, Unrouted, End
<1>12. PowerLoss => table' = Absent /\ script'.step \in {"check", "delete_table"}
  BY DEF PowerLoss, StartService, Begin
<1> HIDE DEF kernel, daemons, Elsewhere
<1>15. Elsewhere => script.step \notin {"add_rule", "add_route", "undo_table"}
  BY DEF Elsewhere
<1> QED BY <1>1, <1>2, <1>3, <1>4, <1>5, <1>6, <1>7, <1>8, <1>9, <1>10, <1>11, <1>12, <1>13,
           <1>14, <1>15
        DEF Next, ScriptStep, KernelStep, Idle

LEMMA InitTypeOK == Init => TypeOK
<1> SUFFICES ASSUME Init PROVE TypeOK
  OBVIOUS
<1>1. user \in Dhcp
  BY UserAssumption DEF Init
<1>2. saved \in Saved
  BY DEF Init, NothingSaved, Saved
<1> QED BY <1>1, <1>2 DEF Init, TypeOK

-----------------------------------------------------------------------------
(* zakopd apply has read the mark before it uses it. *)
MarkRead == script.step \in {"load_table", "add_rule", "add_route"} => script.mark # Absent

LEMMA MarkReadStep == TypeOK /\ MarkRead /\ [Next]_vars => MarkRead'
<1> SUFFICES ASSUME TypeOK, MarkRead, [Next]_vars PROVE MarkRead'
  OBVIOUS
<1>1. CASE ~KernelStep
  BY <1>1, OtherStep DEF MarkRead, Stays, Switching, Restoring
<1>2. CASE Compile
  <2>1. conf.mark \in Mark
    BY ConfsAssumption DEF TypeOK, Conf
  <2> QED BY <1>2, <2>1, CompileMoves, AddressAssumption DEF MarkRead, Moved, Idle
<1>3. CASE LoadTable
  BY <1>3, LoadTableMoves DEF LoadTable, At, MarkRead, Moved, Idle
<1>5. CASE AddRule
  BY <1>5, AddRuleMoves DEF AddRule, At, MarkRead, Moved, Idle
<1>6. CASE AddRoute
  BY <1>6, AddRouteMoves DEF MarkRead, Moved, Idle
<1>4. CASE Apply \/ UndoTable \/ UndoRule \/ UndoRoute \/ DeleteTable \/ DeleteRule \/ DeleteRoute
  BY <1>4, ApplyMoves, UndoMoves, DeleteMoves DEF MarkRead, Moved, Idle
<1> QED BY <1>1, <1>2, <1>3, <1>4, <1>5, <1>6 DEF KernelStep

(* Every step keeps the types: first the script's own, then what it writes. *)
LEMMA TypeOKStep == TypeOK /\ MarkRead /\ [Next]_vars => TypeOK'
<1> SUFFICES ASSUME TypeOK, MarkRead, [Next]_vars PROVE TypeOK'
  OBVIOUS
<1> USE DEF dhcp, kernel, daemons
<1>1. ASSUME NEW job \in {"start", "stop", "restart"}, Call(job) PROVE TypeOK'
  <2>1. script' \in Script
    BY <1>1, StartServiceType, StopServiceType DEF Call
  <2> QED BY <1>1, <2>1 DEF Call, TypeOK
<1>2. CASE Check
  <2>1. script \in Script /\ "submit" \in Step
    BY <1>2, BusyType DEF Check, At, Step
  <2>2. \A ok \in BOOLEAN : [script EXCEPT !.step = "submit", !.ok = ok] \in Script
    BY <2>1, LearnOk
  <2>3. PICK ok \in BOOLEAN : script' = [script EXCEPT !.step = "submit", !.ok = ok]
    BY <1>2 DEF Check
  <2>4. script' \in Script
    BY <2>2, <2>3, Zenon
  <2> QED BY <1>2, <2>4 DEF Check, TypeOK
<1>3. CASE Submit
  <2>1. script' \in Script /\ script.ok \in BOOLEAN
    BY <1>3, GotoType DEF Submit, At, Step, TypeOK, Script, Idle
  <2> QED BY <1>3, <2>1 DEF Submit, TypeOK
<1>4. CASE Load
  <2>1. script \in Script /\ "ready" \in Step /\ conf \in Confs
    BY <1>4, BusyType DEF Load, At, Step, TypeOK
  <2>2. [script EXCEPT !.conf = conf, !.step = "ready"] \in Script
    BY <2>1, LearnConf
  <2>3. \/ script' = [script EXCEPT !.conf = conf, !.step = "ready"]
        \/ script' = Idle
    BY <1>4 DEF Load, End
  <2>4. script' \in Script \cup {Idle}
    BY <2>2, <2>3, Zenon
  <2> QED BY <1>4, <2>4 DEF Load, TypeOK
<1>5. CASE Ready
  <2>1. script \in Script /\ "apply" \in Step
    BY <1>5, BusyType DEF Ready, At, Step
  <2>2. conf.listen \in Listen
    BY ConfsAssumption DEF TypeOK, Conf
  <2>3. [script EXCEPT !.step = "apply", !.probed = conf.listen] \in Script
    BY <2>1, <2>2, LearnProbed
  <2>4. \/ script' = [script EXCEPT !.step = "apply", !.probed = conf.listen]
        \/ script' = Idle
    BY <1>5 DEF Ready, End
  <2>5. script' \in Script \cup {Idle}
    BY <2>3, <2>4, Zenon
  <2> QED BY <1>5, <2>5 DEF Ready, TypeOK
<1>6. CASE KernelStep
  <2>1. script' \in Script \cup {Idle}
    BY <1>6, KernelEffect DEF Moved
  <2>2. UNCHANGED <<conf, user, flash, uci, saved, instances, zakopd, torn>>
    BY <1>6, KernelEffect
  <2>3. script.step \in {"load_table", "add_rule", "add_route"} => script.mark \in Mark
    BY DEF MarkRead, TypeOK, Script, Idle
  <2>4. /\ table' \in {table, Absent, script.mark}
        /\ table' = script.mark => script.step = "load_table" \/ table' \in {table, Absent}
        /\ \/ rules' \subseteq rules
           \/ script.step = "add_rule" /\ rules' \subseteq rules \cup {script.mark}
        /\ \/ routes' \subseteq routes
           \/ script.step = "add_route" /\ routes' \subseteq routes \cup {script.mark}
        /\ cut' \in {cut, FALSE}
    BY <1>6
    DEF KernelStep, Apply, Compile, LoadTable, AddRule, AddRoute, UndoTable, UndoRule, UndoRoute,
        DeleteTable, DeleteRule, DeleteRoute, At
  <2>5. /\ table' \in Mark \cup {Absent} /\ rules' \subseteq Mark /\ routes' \subseteq Mark
        /\ cut' \in BOOLEAN
    BY <2>3, <2>4 DEF TypeOK
  <2> QED BY <2>1, <2>2, <2>5 DEF TypeOK
<1>7. CASE SaveServer
  <2>1. script' \in Script
    BY <1>7, GotoType DEF SaveServer, At, Step
  <2>2. script.conf.listen \in Listen
    BY <1>7, ConfsAssumption DEF SaveServer, At, TypeOK, Script, Idle, Conf
  <2>3. saved' \in Saved
    BY <1>7, <2>2 DEF SaveServer, TypeOK, Saved
  <2>4. uci' \in Dhcp
    BY <1>7 DEF SaveServer, TypeOK, Dhcp
  <2> QED BY <1>7, <2>1, <2>3, <2>4 DEF SaveServer, TypeOK
<1>8. ASSUME NEW o \in Option, NEW step \in Step, NEW next \in Step,
             SaveOption(o, step, next)
      PROVE  TypeOK'
  <2>1. script' \in Script
    BY <1>8, GotoType DEF SaveOption, At, Step
  <2>2. saved' \in Saved
    BY <1>8, ValueToKeepType DEF SaveOption, TypeOK, Saved
  <2> QED BY <1>8, <2>1, <2>2 DEF SaveOption, TypeOK
<1>9. CASE Switch
  <2>1. script' \in Script
    BY <1>9, GotoType DEF Switch, At, Step
  <2>2. script.conf.listen \in Listen
    BY <1>9, ConfsAssumption DEF Switch, At, TypeOK, Script, Idle, Conf
  <2>3. uci' \in Dhcp
    BY <1>9, <2>2 DEF Switch, TypeOK, Dhcp, Value
  <2> QED BY <1>9, <2>1, <2>3 DEF Switch, TypeOK
<1>10. ASSUME NEW step \in Step, NEW next \in Step, Commit(step, next) PROVE TypeOK'
  <2>1. script' \in Script
    BY <1>10, GotoType DEF Commit, At, Step
  <2> QED BY <1>10, <2>1 DEF Commit, TypeOK
<1>11. CASE WriteCron
  BY <1>11 DEF WriteCron, End, TypeOK
<1>13. CASE Restore
  <2>1. script' \in Script
    BY <1>13, GotoType DEF Restore, At, Step
  <2>2. uci' \in Dhcp
    BY <1>13, RestoredType DEF Restore, TypeOK, Dhcp
  <2> QED BY <1>13, <2>1, <2>2 DEF Restore, TypeOK
<1>14. CASE ForgetServer \/ ForgetNoresolv \/ ForgetAddsubnet
  <2>1. script' \in Script
    BY <1>14, GotoType DEF ForgetServer, ForgetNoresolv, ForgetAddsubnet, Forget, At, Step
  <2>2. saved' \in Saved
    BY <1>14 DEF ForgetServer, ForgetNoresolv, ForgetAddsubnet, Forget, TypeOK, Saved
  <2> QED BY <1>14, <2>1, <2>2
          DEF ForgetServer, ForgetNoresolv, ForgetAddsubnet, Forget, TypeOK
<1>15. CASE RemoveCron
  <2>1. script' \in Script \cup {Idle}
    BY <1>15, GotoType, StartServiceType DEF RemoveCron, End, At, Step
  <2> QED BY <1>15, <2>1 DEF RemoveCron, TypeOK
<1>16. CASE ConfChanges
  <2>1. script' \in Script \cup {Idle}
    BY <1>16 DEF ConfChanges, At, TypeOK, Script, Idle
  <2> QED BY <1>16, <2>1 DEF ConfChanges, TypeOK
<1>17. CASE UserEdits
  BY <1>17, UserAssumption DEF UserEdits, TypeOK
<1>18. CASE ZakopdStarts
  BY <1>18, ConfsAssumption DEF ZakopdStarts, TypeOK, Conf
<1>19. CASE ZakopdDies
  BY <1>19 DEF ZakopdDies, TypeOK
<1>20. CASE Kill
  BY <1>20 DEF Kill, End, Unrouted, TypeOK
<1>21. CASE PowerLoss
  <2>1. script' \in Script
    BY <1>21, StartServiceType DEF PowerLoss
  <2>2. torn' \in BOOLEAN
    BY <1>21 DEF PowerLoss, Covered
  <2> QED BY <1>21, <2>1, <2>2 DEF PowerLoss, TypeOK
<1>22. CASE UNCHANGED vars
  BY <1>22 DEF vars, TypeOK
<1>23. (SaveNoresolv \/ SaveAddsubnet) => TypeOK'
  BY <1>8 DEF SaveNoresolv, SaveAddsubnet, Option, Step
<1>24. (CommitSwitch \/ CommitRestore) => TypeOK'
  BY <1>10 DEF CommitSwitch, CommitRestore, Step
<1> QED BY <1>1, <1>2, <1>3, <1>4, <1>5, <1>6, <1>7, <1>9, <1>11, <1>13, <1>14,
           <1>15, <1>16, <1>17, <1>18, <1>19, <1>20, <1>21, <1>22, <1>23, <1>24
        DEF Next, ScriptStep, KernelStep

(* Types, for every configuration and all users' settings: an address dnsmasq is    *)
(* given, a mark a rule is made for, always come from a configuration that was read *)
(* (zakop_write_dnsmasq and commandApply).                                          *)
THEOREM TypeCorrect == Spec => []TypeOK
<1>1. Init => MarkRead
  BY DEF Init, Idle, MarkRead
<1> QED BY <1>1, InitTypeOK, TypeOKStep, MarkReadStep, PTL DEF Spec

-----------------------------------------------------------------------------
(* How far zakopd apply has come with the table and its routing, and that whoever    *)
(* takes a table away goes on without one.                                          *)
TableProgress ==
  /\ At("add_rule") => table = script.mark
  /\ At("add_route") => table = script.mark /\ script.mark \in rules
  /\ script.step \in {"undo_rule", "undo_route", "delete_rule", "delete_route", "restore",
                      "remove_cron"} \cup Restoring => table = Absent

LEMMA PolicyIsRoutedStep ==
  TypeOK /\ PolicyIsRouted /\ TableProgress /\ [Next]_vars => PolicyIsRouted' /\ TableProgress'
<1> SUFFICES ASSUME TypeOK, PolicyIsRouted, TableProgress, [Next]_vars
             PROVE  PolicyIsRouted' /\ TableProgress'
  OBVIOUS
<1> DEFINE Deleted == {"undo_rule", "undo_route", "delete_rule", "delete_route", "restore",
                       "remove_cron"} \cup Restoring
           Enabling == {"save_server", "save_noresolv", "save_addsubnet", "switch",
                        "commit_switch", "write_cron"}
<1>0. SUFFICES /\ Unrouted' => cut' \/ script'.step \in {"add_rule", "add_route", "undo_table"}
               /\ script'.step \in Enabling => ~Unrouted'
               /\ script'.step \in Deleted => table' = Absent
               /\ script'.step \in {"add_rule", "add_route"} => table' = script'.mark
               /\ script'.step = "add_route" => script'.mark \in rules'
  BY DEF PolicyIsRouted, TableProgress, At, Restoring
<1>00. /\ Unrouted => cut \/ script.step \in {"add_rule", "add_route", "undo_table"}
       /\ script.step \in Enabling => ~Unrouted
       /\ script.step \in Deleted => table = Absent
       /\ script.step \in {"add_rule", "add_route"} => table = script.mark
       /\ script.step = "add_route" => script.mark \in rules
  BY DEF PolicyIsRouted, TableProgress, At, Restoring
<1>000. table' = Absent => ~Unrouted'
  BY DEF Unrouted
<1>1. CASE ~KernelStep
  <2>1. CASE table' = Absent /\ script'.step \in {"check", "delete_table"}
    BY <1>000, <2>1 DEF Restoring
  <2>2. CASE UNCHANGED table /\ cut' = Unrouted' /\ script' = Idle
    BY <2>2 DEF Idle, Restoring
  <2>3. CASE UNCHANGED kernel /\ (Stays \/ script.step \notin {"add_rule", "add_route", "undo_table"})
    <3>1. UNCHANGED <<table, rules, cut>> /\ (Unrouted' <=> Unrouted)
      BY <2>3 DEF kernel, Unrouted
    <3>2. CASE Stays
      BY <1>00, <3>1, <3>2 DEF Stays
    <3>3. CASE script'.step \in {"idle", "check", "submit", "load", "ready", "apply",
                                "delete_table"}
      <4>1. CASE Stays
        BY <4>1, <3>2
      <4> QED BY <1>00, <2>3, <3>1, <3>3, <4>1 DEF Restoring
    <3>4. CASE /\ script'.step \in Switching \cup {"write_cron"}
               /\ script.step \in Switching \cup {"save_server"}
      BY <1>00, <3>1, <3>4 DEF Switching, Restoring
    <3>5. CASE /\ script'.step \in Restoring \cup {"remove_cron"}
               /\ script.step \in Restoring \cup {"restore"}
      BY <1>00, <3>1, <3>5 DEF Restoring
    <3> QED BY <1>1, <3>2, <3>3, <3>4, <3>5, OtherStep
  <2> QED BY <1>1, <2>1, <2>2, <2>3, OtherStep
<1>2. CASE Apply
  <2>1. /\ script.step = "apply" /\ UNCHANGED <<table, rules, cut>> /\ (Unrouted' <=> Unrouted)
    BY <1>2 DEF Apply, At, kernel, Unrouted
  <2>2. script'.step \in {"idle", "compile", "undo_table"}
    BY <1>2, ApplyMoves DEF Moved, Idle
  <2> QED BY <1>00, <2>1, <2>2 DEF Restoring
<1>3. CASE Compile
  <2>0. script'.step \in {"idle", "load_table"}
    BY <1>3, CompileMoves DEF Moved, Idle
  <2>1. script'.step \in {"idle", "load_table"} /\ script.step = "compile"
    BY <1>3, <2>0 DEF Compile, At
  <2>2. \/ UNCHANGED <<table, rules, cut>> /\ (Unrouted' <=> Unrouted)
        \/ table' = Absent
    BY <1>3 DEF Compile, Unrouted
  <2> QED BY <1>00, <1>000, <2>1, <2>2 DEF Restoring
<1>4. CASE LoadTable
  <2>1. script.step = "load_table" /\ UNCHANGED <<rules, routes, cut>>
    BY <1>4 DEF LoadTable, At
  <2>2. CASE script' = Idle
    <3>1. script'.step = "idle" /\ ~Goto("add_rule")
      BY <1>4, <2>1, <2>2, GotoMoves DEF Idle, Moved, At, Step
    <3>2. UNCHANGED table /\ (Unrouted' <=> Unrouted)
      BY <1>4, <3>1 DEF LoadTable, Unrouted
    <3> QED BY <1>00, <2>1, <3>1, <3>2 DEF Restoring
  <2>3. CASE Moved("add_rule") /\ script'.mark = script.mark
    <3>1. script'.step = "add_rule" /\ table' = script.mark
      BY <1>4, <2>3 DEF LoadTable, Moved, End, Idle
    <3> QED BY <2>3, <3>1 DEF Restoring
  <2> QED BY <1>4, <2>2, <2>3, LoadTableMoves
<1>5. CASE AddRule
  <2>1. script.step = "add_rule" /\ table = script.mark /\ UNCHANGED table
    BY <1>5, <1>00 DEF AddRule, At
  <2>2. CASE Moved("undo_table")
    BY <2>2 DEF Moved, Restoring
  <2>3. CASE Moved("add_route") /\ script'.mark = script.mark
    <3>1. script'.step = "add_route" /\ ~Fail
      BY <2>1, <2>3, FailMoves DEF Moved, At
    <3>2. script.mark \in rules'
      BY <1>5, <3>1 DEF AddRule
    <3> QED BY <2>1, <2>3, <3>1, <3>2 DEF Restoring
  <2> QED BY <1>5, <2>2, <2>3, AddRuleMoves
<1>6. CASE AddRoute
  <2>1. /\ script.step = "add_route" /\ table = script.mark /\ script.mark \in rules
        /\ UNCHANGED <<table, rules>>
    BY <1>6, <1>00 DEF AddRoute, At
  <2>2. CASE Moved("undo_table")
    BY <2>2 DEF Moved, Restoring
  <2>3. CASE Moved("save_server")
    <3>1. script'.step = "save_server" /\ ~Fail
      BY <2>1, <2>3, FailMoves DEF Moved, At
    <3>2. script.mark \in routes'
      BY <1>6, <3>1 DEF AddRoute
    <3>3. ~Unrouted'
      BY <2>1, <3>2 DEF Unrouted
    <3> QED BY <3>1, <3>3 DEF Restoring
  <2> QED BY <1>6, <2>2, <2>3, AddRouteMoves
<1>7. CASE UndoTable \/ UndoRule \/ UndoRoute
  <2>1. table' = Absent
    BY <1>7, <1>00 DEF UndoTable, UndoRule, UndoRoute, At
  <2>2. script'.step \in {"idle", "undo_rule", "undo_route", "save_server"}
    BY <1>7, UndoMoves DEF Moved, Idle
  <2> QED BY <1>000, <2>1, <2>2
<1>8. CASE DeleteTable \/ DeleteRule \/ DeleteRoute
  <2>1. table' = Absent
    BY <1>8, <1>00 DEF DeleteTable, DeleteRule, DeleteRoute, At
  <2>2. script'.step \in {"delete_rule", "delete_route", "restore"}
    BY <1>8, DeleteMoves DEF Moved
  <2> QED BY <1>000, <2>1, <2>2
<1> QED BY <1>1, <1>2, <1>3, <1>4, <1>5, <1>6, <1>7, <1>8 DEF KernelStep

(* A table that marks packets has the rule and the route of its mark, but while       *)
(* commandApply is between its commands and where it was killed there; whatever of    *)
(* it fails, whatever conf changes to between its readings, and whatever mark, the    *)
(* script never takes dnsmasq over without them, and a stop leaves no table.          *)
THEOREM PolicyAlwaysRouted == Spec => []PolicyIsRouted
<1>1. Init => PolicyIsRouted /\ TableProgress
  BY DEF Init, PolicyIsRouted, TableProgress, Unrouted, At, Idle, Restoring
<1> QED BY <1>1, TypeCorrect, PolicyIsRoutedStep, PTL DEF Spec

-----------------------------------------------------------------------------
(* The user's own servers are never touched. *)
OwnServersKept ==
  /\ user.servers \subseteq UserServer
  /\ flash.servers \ Listen = user.servers
  /\ uci.servers \ Listen = user.servers

(* The only address of zakop is the one of which there is a state file, and flash  *)
(* has at most one.                                                                *)
OneAddress ==
  ~torn => /\ uci.servers \cap Listen \subseteq {saved.server}
           /\ \E a \in Listen : flash.servers \cap Listen \subseteq {a}

(* The state file has the user's option, or uci has. *)
OptionsKnown ==
  ~torn /\ Recognisable(user) =>
    \A o \in Option :
      user.option[o] = IF saved.option[o] = Absent THEN uci.option[o] ELSE saved.option[o]

(* How far zakop_write_dnsmasq has come. *)
SwitchProgress ==
  /\ script.step \in Switching => saved.server = script.conf.listen
  /\ script.step \in {"save_addsubnet", "switch"} => saved.option["noresolv"] # Absent
  /\ At("switch") => saved.option["addsubnet"] # Absent

(* How far zakop_remove_dnsmasq has come. *)
RestoreProgress ==
  /\ script.step \in Restoring \cup {"remove_cron"} /\ ~torn => uci.servers \cap Listen = {}
  /\ script.step \in Restoring \cup {"remove_cron"} /\ ~torn /\ Recognisable(user) => uci = user
  /\ At("remove_cron") => flash = uci
  /\ script.step \in {"forget_noresolv", "forget_addsubnet", "commit_restore", "remove_cron"}
       => saved.server = Absent
  /\ script.step \in {"forget_addsubnet", "commit_restore", "remove_cron"}
       => saved.option["noresolv"] = Absent
  /\ script.step \in {"commit_restore", "remove_cron"} => saved.option["addsubnet"] = Absent

(* StopRestores speaks of one step; inductive is that at every step the user's     *)
(* settings can be told from uci and the state files together.                     *)
IInv == /\ TypeOK
        /\ OwnServersKept
        /\ OneAddress
        /\ OptionsKnown
        /\ SwitchProgress
        /\ RestoreProgress

-----------------------------------------------------------------------------
LEMMA InitIInv == Init => IInv
<1> SUFFICES ASSUME Init PROVE IInv
  OBVIOUS
<1>1. user.servers \subseteq UserServer
  BY UserAssumption DEF Init
<1>2. OwnServersKept /\ uci.servers \cap Listen = {}
  BY <1>1, AddressAssumption DEF Init, OwnServersKept
<1>3. OneAddress
  BY <1>2, AddressAssumption DEF Init, OneAddress
<1>4. OptionsKnown
  BY DEF Init, OptionsKnown, NothingSaved
<1>5. SwitchProgress /\ RestoreProgress
  BY DEF Init, SwitchProgress, RestoreProgress, Switching, Restoring, At, Idle
<1> QED BY <1>2, <1>3, <1>4, <1>5, InitTypeOK DEF IInv

(* What Load and Ready store, field by field. *)
LEMMA LearnConfFields ==
  ASSUME NEW s \in Script, NEW step \in Step, NEW c \in Confs
  PROVE  /\ [s EXCEPT !.conf = c, !.step = step].step = step
         /\ [s EXCEPT !.conf = c, !.step = step].conf = c
         /\ [s EXCEPT !.conf = c, !.step = step].steady = s.steady
<1> DEFINE d == [s EXCEPT !.conf = c]
<1>1. d \in Script /\ d.conf = c /\ d.steady = s.steady
  BY DEF Script
<1> HIDE DEF d
<1>2. /\ [d EXCEPT !.step = step].step = step
      /\ [d EXCEPT !.step = step].conf = c
      /\ [d EXCEPT !.step = step].steady = s.steady
  BY <1>1 DEF Script
<1> QED BY <1>2 DEF d

LEMMA LearnProbedFields ==
  ASSUME NEW s \in Script, NEW step \in Step, NEW address \in Listen
  PROVE  /\ [s EXCEPT !.step = step, !.probed = address].step = step
         /\ [s EXCEPT !.step = step, !.probed = address].probed = address
         /\ [s EXCEPT !.step = step, !.probed = address].conf = s.conf
         /\ [s EXCEPT !.step = step, !.probed = address].steady = s.steady
<1> DEFINE d == [s EXCEPT !.step = step]
<1>1. d \in Script /\ d.step = step /\ d.conf = s.conf /\ d.steady = s.steady
  BY DEF Script
<1> HIDE DEF d
<1>2. /\ [d EXCEPT !.probed = address].step = step
      /\ [d EXCEPT !.probed = address].probed = address
      /\ [d EXCEPT !.probed = address].conf = s.conf
      /\ [d EXCEPT !.probed = address].steady = s.steady
  BY <1>1 DEF Script
<1> QED BY <1>2 DEF d

(* The steps in which dnsmasq's configuration and the state files have no part. *)
LEMMA QuietStep ==
  ASSUME IInv, TypeOK', UNCHANGED <<user, flash, uci, saved, torn>>,
         \/ script'.step = script.step /\ script'.conf = script.conf
         \/ script'.step \notin Switching \cup Restoring \cup {"remove_cron"}
  PROVE  IInv'
<1>1. OwnServersKept' /\ OneAddress'
  BY DEF IInv, OwnServersKept, OneAddress
<1>2. OptionsKnown'
  BY DEF IInv, OptionsKnown, Recognisable
<1>3. SwitchProgress' /\ RestoreProgress'
  BY DEF IInv, SwitchProgress, RestoreProgress, Switching, Restoring, At, Recognisable
<1> QED BY <1>1, <1>2, <1>3 DEF IInv

LEMMA BeginsQuietly ==
  ASSUME NEW job, StartService \/ StopService(job)
  PROVE  script'.step \in {"check", "delete_table"}
  BY DEF StartService, StopService, Begin

(* Goto changes nothing but the step. *)
LEMMA GotoStep ==
  ASSUME TypeOK, ~At("idle"), NEW step \in Step, Goto(step)
  PROVE  /\ script'.step = step /\ script'.conf = script.conf
         /\ script'.steady = script.steady /\ script'.probed = script.probed
  BY GotoMoves DEF Moved

LEMMA QuietNext ==
  ASSUME IInv, TypeOK',
         \/ \E job \in {"start", "stop", "restart"} : Call(job)
         \/ Check \/ Submit \/ Load \/ Ready \/ KernelStep \/ WriteCron \/ RemoveCron
         \/ ConfChanges \/ ZakopdStarts \/ ZakopdDies \/ Kill
         \/ UNCHANGED vars
  PROVE  IInv'
<1> USE DEF dhcp, kernel, daemons
<1> DEFINE Frame == UNCHANGED <<user, flash, uci, saved, torn>>
           Quiet == \/ script'.step = script.step /\ script'.conf = script.conf
                    \/ script'.step \notin Switching \cup Restoring \cup {"remove_cron"}
<1>0. TypeOK
  BY DEF IInv
<1>1. ASSUME NEW job \in {"start", "stop", "restart"}, Call(job) PROVE Frame /\ Quiet
  BY <1>1, BeginsQuietly DEF Call, Switching, Restoring
<1>2. Check => Frame /\ Quiet
  BY <1>0, BusyType DEF Check, At, Script, Switching, Restoring
<1>3. Submit => Frame /\ Quiet
  BY <1>0, GotoStep DEF Submit, At, Step, Switching, Restoring
<1>4. ASSUME Load PROVE Frame /\ Quiet
  <2>1. script \in Script /\ conf \in Confs /\ "ready" \in Step
    BY <1>0, <1>4, BusyType DEF Load, At, TypeOK, Step
  <2>2. CASE script' = [script EXCEPT !.conf = conf, !.step = "ready"]
    <3>0. [script EXCEPT !.conf = conf, !.step = "ready"].step = "ready"
      BY <2>1, LearnConfFields
    <3>1. script'.step = "ready"
      BY <2>2, <3>0, Zenon
    <3> QED BY <1>4, <3>1 DEF Load, Switching, Restoring
  <2>3. CASE script' = Idle
    BY <1>4, <2>3 DEF Load, Idle, Switching, Restoring
  <2> QED BY <1>4, <2>2, <2>3 DEF End, Load, Switching, Restoring
<1>5. ASSUME Ready PROVE Frame /\ Quiet
  <2>1. script \in Script /\ conf.listen \in Listen /\ "apply" \in Step
    BY <1>0, <1>5, BusyType, ConfsAssumption DEF Ready, At, TypeOK, Step, Conf
  <2>2. CASE script' = [script EXCEPT !.step = "apply", !.probed = conf.listen]
    <3>0. [script EXCEPT !.step = "apply", !.probed = conf.listen].step = "apply"
      BY <2>1, LearnProbedFields
    <3>1. script'.step = "apply"
      BY <2>2, <3>0, Zenon
    <3> QED BY <1>5, <3>1 DEF Ready, Switching, Restoring
  <2>3. CASE script' = Idle
    BY <1>5, <2>3 DEF Ready, Idle, Switching, Restoring
  <2> QED BY <1>5, <2>2, <2>3 DEF End, Ready, Switching, Restoring
<1>6. KernelStep => Frame /\ Quiet
  BY <1>0, KernelEffect DEF Moved, Idle, Switching, Restoring
<1>7. WriteCron => Frame /\ Quiet
  BY DEF WriteCron, End, Idle, Switching, Restoring
<1>9. RemoveCron => Frame /\ Quiet
  BY <1>0, GotoStep, BeginsQuietly
  DEF RemoveCron, End, Idle, At, Step, Switching, Restoring
<1>10. ConfChanges => Frame /\ Quiet
  BY <1>0, BusyType DEF ConfChanges, At, Script
<1>11. (ZakopdStarts \/ ZakopdDies) => Frame /\ Quiet
  BY DEF ZakopdStarts, ZakopdDies
<1>12. Kill => Frame /\ Quiet
  BY DEF Kill, End, Idle, Switching, Restoring
<1>13. UNCHANGED vars => Frame /\ Quiet
  BY DEF vars
<1>14. Frame /\ Quiet
  BY <1>1, <1>2, <1>3, <1>4, <1>5, <1>6, <1>7, <1>9, <1>10, <1>11, <1>12, <1>13
<1> QED BY <1>14, QuietStep

-----------------------------------------------------------------------------
(* zakop_write_dnsmasq.  The server's state file is written when the old address *)
(* is out of uci. *)
LEMMA SaveServerIInv == ASSUME IInv, TypeOK', SaveServer PROVE IInv'
<1> USE DEF kernel, daemons
<1>0. TypeOK /\ script \in Script /\ script.conf.listen \in Listen
  BY BusyType, ConfsAssumption DEF IInv, SaveServer, At, Script, Conf
<1>1. CASE ~script.conf.manage
  <2>1. script'.step = "write_cron"
    BY <1>0, <1>1, GotoStep DEF SaveServer, At, Step
  <2> QED BY <1>1, <2>1, QuietStep DEF SaveServer, Switching, Restoring
<1>2. CASE script.conf.manage
  <2> DEFINE listen == script.conf.listen
  <2>1. script'.step = "save_noresolv" /\ script'.conf = script.conf
    BY <1>0, <1>2, GotoStep DEF SaveServer, At, Step
  <2>2. /\ uci'.servers = uci.servers \ ({saved.server} \ {listen})
        /\ uci'.option = uci.option
        /\ saved'.server = listen /\ saved'.option = saved.option
        /\ UNCHANGED <<user, flash, torn>>
    BY <1>0, <1>2 DEF SaveServer, TypeOK, Dhcp, Saved
  <2>3. saved.server \in Listen \cup {Absent}
    BY <1>0 DEF TypeOK, Saved
  <2>4. OwnServersKept'
    BY <2>2, <2>3, AddressAssumption DEF IInv, OwnServersKept
  <2>5. OneAddress'
    BY <2>2, <1>0 DEF IInv, OneAddress
  <2>6. OptionsKnown'
    BY <2>2 DEF IInv, OptionsKnown, Recognisable
  <2>7. SwitchProgress' /\ RestoreProgress'
    BY <2>1, <2>2 DEF SwitchProgress, RestoreProgress, Switching, Restoring, At
  <2> QED BY <2>4, <2>5, <2>6, <2>7 DEF IInv
<1> QED BY <1>1, <1>2

(* An option's state file.  A value of zakop's is the user's own if there is a       *)
(* server beside zakop's, and the user's own servers are there.                      *)
LEMMA KeptIsTheUsers ==
  ASSUME IInv, ~torn, Recognisable(user), script.conf.listen \in Listen,
         NEW o \in Option, saved.option[o] = Absent
  PROVE  ValueToKeep(o) = user.option[o]
<1>1. uci.option[o] = user.option[o]
  BY DEF IInv, OptionsKnown
<1>2. saved.server \in Listen \cup {Absent}
  BY DEF IInv, TypeOK, Saved
<1>3. ASSUME user.option[o] = "zakop" PROVE HasNonZakopServer(script.conf.listen, saved.server)
  <2>1. PICK s \in user.servers : TRUE
    BY <1>3 DEF Recognisable
  <2>2. s \in uci.servers /\ s \notin Listen /\ s \in UserServer
    BY DEF IInv, OwnServersKept
  <2>3. CASE saved.server \in Listen
    BY <2>2, <2>3, AddressAssumption DEF HasNonZakopServer
  <2>4. CASE saved.server = Absent
    BY <2>2, <2>4, AddressAssumption DEF HasNonZakopServer
  <2> QED BY <1>2, <2>3, <2>4
<1> QED BY <1>1, <1>3 DEF ValueToKeep

LEMMA SaveOptionEffect ==
  ASSUME IInv, NEW o \in Option, NEW step \in Switching, NEW next \in Switching,
         SaveOption(o, step, next)
  PROVE  /\ OwnServersKept' /\ OneAddress' /\ OptionsKnown'
         /\ script'.step = next
         /\ saved'.server = script'.conf.listen
         /\ saved'.option[o] # Absent
         /\ \A r \in Option \ {o} : saved'.option[r] = saved.option[r]
<1> USE DEF kernel, daemons
<1>0. TypeOK /\ script \in Script /\ script.conf.listen \in Listen
  BY BusyType, ConfsAssumption DEF IInv, SaveOption, At, Script, Conf, Switching
<1>1. script'.step = next /\ script'.conf = script.conf
  BY <1>0, GotoStep DEF SaveOption, At, Step, Switching
<1>2. /\ saved'.server = saved.server
      /\ saved'.option[o] = IF saved.option[o] = Absent THEN ValueToKeep(o) ELSE saved.option[o]
      /\ \A r \in Option \ {o} : saved'.option[r] = saved.option[r]
      /\ UNCHANGED <<user, flash, uci, torn>>
  BY <1>0 DEF SaveOption, TypeOK, Saved
<1>3. saved'.option[o] # Absent
  BY <1>0, <1>2, ValueToKeepType DEF Value, Absent
<1>4. OwnServersKept' /\ OneAddress'
  BY <1>2 DEF IInv, OwnServersKept, OneAddress
<1>5. OptionsKnown'
  <2> SUFFICES ASSUME ~torn, Recognisable(user), NEW r \in Option
               PROVE  user.option[r] = IF saved'.option[r] = Absent THEN uci.option[r]
                                       ELSE saved'.option[r]
    BY <1>2 DEF OptionsKnown, Recognisable
  <2>1. user.option[r] = IF saved.option[r] = Absent THEN uci.option[r] ELSE saved.option[r]
    BY DEF IInv, OptionsKnown
  <2>2. CASE r # o
    BY <1>2, <2>1, <2>2
  <2>3. CASE r = o /\ saved.option[o] = Absent
    BY <1>0, <1>2, <1>3, <2>3, KeptIsTheUsers
  <2>4. CASE r = o /\ saved.option[o] # Absent
    BY <1>2, <2>1, <2>4
  <2> QED BY <2>2, <2>3, <2>4
<1>6. saved.server = script.conf.listen
  BY DEF IInv, SwitchProgress, SaveOption, At
<1> QED BY <1>1, <1>2, <1>3, <1>4, <1>5, <1>6

LEMMA SaveOptionsIInv == ASSUME IInv, TypeOK', SaveNoresolv \/ SaveAddsubnet PROVE IInv'
<1>1. CASE SaveNoresolv
  <2>1. SaveOption("noresolv", "save_noresolv", "save_addsubnet")
    BY <1>1 DEF SaveNoresolv
  <2>2. /\ OwnServersKept' /\ OneAddress' /\ OptionsKnown'
        /\ script'.step = "save_addsubnet" /\ saved'.server = script'.conf.listen
        /\ saved'.option["noresolv"] # Absent
    BY <2>1, SaveOptionEffect DEF Option, Switching
  <2>3. SwitchProgress' /\ RestoreProgress'
    BY <2>2 DEF SwitchProgress, RestoreProgress, Switching, Restoring, At
  <2> QED BY <2>2, <2>3 DEF IInv
<1>2. CASE SaveAddsubnet
  <2>1. SaveOption("addsubnet", "save_addsubnet", "switch")
    BY <1>2 DEF SaveAddsubnet
  <2>2. /\ OwnServersKept' /\ OneAddress' /\ OptionsKnown'
        /\ script'.step = "switch" /\ saved'.server = script'.conf.listen
        /\ saved'.option["addsubnet"] # Absent
        /\ saved'.option["noresolv"] = saved.option["noresolv"]
    BY <2>1, SaveOptionEffect DEF Option, Switching
  <2>3. saved.option["noresolv"] # Absent
    BY <2>1 DEF IInv, SwitchProgress, SaveOption, At
  <2>4. SwitchProgress' /\ RestoreProgress'
    BY <2>2, <2>3 DEF SwitchProgress, RestoreProgress, Switching, Restoring, At
  <2> QED BY <2>2, <2>4 DEF IInv
<1> QED BY <1>1, <1>2

(* The switch itself: every option has its state file by now. *)
LEMMA SwitchIInv == ASSUME IInv, TypeOK', Switch PROVE IInv'
<1> USE DEF kernel, daemons
<1>0. TypeOK /\ script \in Script /\ script.conf.listen \in Listen
  BY BusyType, ConfsAssumption DEF IInv, Switch, At, Script, Conf
<1>1. script'.step = "commit_switch" /\ script'.conf = script.conf
  BY <1>0, GotoStep DEF Switch, At, Step
<1>2. /\ uci'.servers = uci.servers \cup {script.conf.listen}
      /\ UNCHANGED <<user, flash, saved, torn>>
  BY DEF Switch
<1>3. saved.server = script.conf.listen /\ \A o \in Option : saved.option[o] # Absent
  BY DEF IInv, SwitchProgress, Switching, Switch, At, Option
<1>4. OwnServersKept'
  BY <1>0, <1>2 DEF IInv, OwnServersKept
<1>5. OneAddress'
  BY <1>2, <1>3 DEF IInv, OneAddress
<1>6. OptionsKnown'
  BY <1>2, <1>3 DEF IInv, OptionsKnown, Recognisable
<1>7. SwitchProgress' /\ RestoreProgress'
  BY <1>1, <1>2, <1>3 DEF SwitchProgress, RestoreProgress, Switching, Restoring, At
<1> QED BY <1>4, <1>5, <1>6, <1>7 DEF IInv

(* uci commit, of a switch and of a restore. *)
LEMMA CommitIInv == ASSUME IInv, TypeOK', CommitSwitch \/ CommitRestore PROVE IInv'
<1> USE DEF kernel, daemons
<1>0. TypeOK
  BY DEF IInv
<1>1. flash' = uci /\ UNCHANGED <<user, uci, saved, torn>>
  BY DEF CommitSwitch, CommitRestore, Commit
<1>2. OwnServersKept'
  BY <1>1 DEF IInv, OwnServersKept
<1>3. OneAddress'
  <2>1. saved.server \in Listen \/ saved.server = Absent
    BY <1>0 DEF TypeOK, Saved
  <2>2. ~torn => \E a \in Listen : uci.servers \cap Listen \subseteq {a}
    BY <2>1, AddressAssumption DEF IInv, OneAddress
  <2> QED BY <1>1, <2>2 DEF IInv, OneAddress
<1>4. OptionsKnown'
  BY <1>1 DEF IInv, OptionsKnown, Recognisable
<1>5. CASE CommitSwitch
  <2>1. script'.step = "write_cron"
    BY <1>0, <1>5, GotoStep DEF CommitSwitch, Commit, At, Step
  <2>2. SwitchProgress' /\ RestoreProgress'
    BY <2>1 DEF SwitchProgress, RestoreProgress, Switching, Restoring, At
  <2> QED BY <1>2, <1>3, <1>4, <2>2 DEF IInv
<1>6. CASE CommitRestore
  <2>1. script'.step = "remove_cron" /\ script.step = "commit_restore"
    BY <1>0, <1>6, GotoStep DEF CommitRestore, Commit, At, Step
  <2>2. SwitchProgress' /\ RestoreProgress'
    BY <1>1, <2>1
    DEF IInv, SwitchProgress, RestoreProgress, Switching, Restoring, At, Recognisable
  <2> QED BY <1>2, <1>3, <1>4, <2>2 DEF IInv
<1> QED BY <1>5, <1>6

-----------------------------------------------------------------------------
(* zakop_remove_dnsmasq.  What the uci commands make of the user's settings is    *)
(* the user's settings: a value of zakop's goes only if no server is left.        *)
LEMMA RestoredIsTheUsers ==
  ASSUME IInv, ~torn, Recognisable(user), NEW servers, servers = user.servers,
         script.conf.listen \in Listen
  PROVE  Restored(servers) = user
<1> DEFINE back(o) == IF saved.option[o] = Absent THEN uci.option[o] ELSE saved.option[o]
           alone == servers \ {script.conf.listen, saved.server, Default} = {}
<1>1. \A o \in Option : back(o) = user.option[o]
  BY DEF IInv, OptionsKnown
<1>2. saved.server \in Listen \cup {Absent}
  BY DEF IInv, TypeOK, Saved
<1>3. servers \ {script.conf.listen, saved.server, Default} = servers
  BY <1>2, AddressAssumption DEF IInv, OwnServersKept
<1>4. \A o \in Option : ~(back(o) = "zakop" /\ alone)
  BY <1>1, <1>3 DEF Recognisable
<1>5. [o \in Option |-> IF back(o) = "zakop" /\ alone THEN "none" ELSE back(o)]
        = [o \in Option |-> user.option[o]]
  BY <1>1, <1>4
<1>6. Restored(servers) = [servers |-> servers, option |-> [o \in Option |-> user.option[o]]]
  BY <1>5 DEF Restored
<1>7. user \in Dhcp
  BY DEF IInv, TypeOK
<1> QED BY <1>6, <1>7 DEF Dhcp

LEMMA RestoreIInv == ASSUME IInv, TypeOK', Restore PROVE IInv'
<1> USE DEF kernel, daemons
<1> DEFINE left == uci.servers \ {script.conf.listen, saved.server, Default}
<1>0. TypeOK /\ script \in Script /\ script.conf.listen \in Listen
  BY BusyType, ConfsAssumption DEF IInv, Restore, At, Script, Conf
<1>1. script'.step = "forget_server"
  BY <1>0, GotoStep DEF Restore, At, Step
<1>2. uci' = Restored(left) /\ uci'.servers = left /\ UNCHANGED <<user, flash, saved, torn>>
  BY DEF Restore, Restored
<1>3. saved.server \in Listen \cup {Absent}
  BY <1>0 DEF TypeOK, Saved
<1>4. left \ Listen = user.servers
  BY <1>0, <1>3, AddressAssumption DEF IInv, OwnServersKept
<1>5. ~torn => left \cap Listen = {}
  BY DEF IInv, OneAddress
<1>6. OwnServersKept'
  BY <1>2, <1>4 DEF IInv, OwnServersKept
<1>7. OneAddress'
  BY <1>2, <1>5 DEF IInv, OneAddress
<1>8. ~torn /\ Recognisable(user) => uci' = user
  BY <1>0, <1>2, <1>4, <1>5, RestoredIsTheUsers
<1>9. OptionsKnown'
  BY <1>2, <1>8 DEF IInv, OptionsKnown, Recognisable
<1>10. SwitchProgress' /\ RestoreProgress'
  BY <1>1, <1>2, <1>5, <1>8
  DEF SwitchProgress, RestoreProgress, Switching, Restoring, At, Recognisable
<1> QED BY <1>6, <1>7, <1>9, <1>10 DEF IInv

(* The state files are removed one by one, when uci has the user's settings. *)
LEMMA ForgetIInv ==
  ASSUME IInv, TypeOK', ForgetServer \/ ForgetNoresolv \/ ForgetAddsubnet
  PROVE  IInv'
<1> USE DEF kernel, daemons
<1>0. TypeOK /\ script.step \in Restoring
  BY DEF IInv, ForgetServer, ForgetNoresolv, ForgetAddsubnet, Forget, At, Restoring
<1>1. UNCHANGED <<user, flash, uci, torn>>
  BY DEF ForgetServer, ForgetNoresolv, ForgetAddsubnet, Forget
<1>2. /\ ~torn => uci.servers \cap Listen = {}
      /\ ~torn /\ Recognisable(user) => uci = user
  BY <1>0 DEF IInv, RestoreProgress
<1>3. /\ saved'.server \in {saved.server, Absent}
      /\ \A o \in Option : saved'.option[o] \in {saved.option[o], Absent}
  BY <1>0 DEF ForgetServer, ForgetNoresolv, ForgetAddsubnet, Forget, TypeOK, Saved
<1>4. OwnServersKept' /\ OneAddress'
  BY <1>1, <1>2 DEF IInv, OwnServersKept, OneAddress
<1>5. OptionsKnown'
  BY <1>1, <1>2, <1>3 DEF IInv, OptionsKnown, Recognisable
<1>6. /\ script'.step \in Restoring \ {"forget_server"}
      /\ saved'.server = Absent
      /\ script'.step \in {"forget_addsubnet", "commit_restore"}
           => saved'.option["noresolv"] = Absent
      /\ script'.step = "commit_restore" => saved'.option["addsubnet"] = Absent
  <2>1. CASE ForgetServer
    <3>1. script'.step = "forget_noresolv" /\ saved'.server = Absent
      BY <1>0, <2>1, GotoStep DEF ForgetServer, Forget, At, Step, TypeOK, Saved
    <3> QED BY <3>1 DEF Restoring
  <2>2. CASE ForgetNoresolv
    <3>1. script'.step = "forget_addsubnet" /\ script.step = "forget_noresolv"
      BY <1>0, <2>2, GotoStep DEF ForgetNoresolv, Forget, At, Step
    <3>2. saved'.server = saved.server /\ saved'.option["noresolv"] = Absent
      BY <1>0, <2>2 DEF ForgetNoresolv, Forget, TypeOK, Saved, Option
    <3> QED BY <3>1, <3>2 DEF IInv, RestoreProgress, Restoring
  <2>3. CASE ForgetAddsubnet
    <3>1. script'.step = "commit_restore" /\ script.step = "forget_addsubnet"
      BY <1>0, <2>3, GotoStep DEF ForgetAddsubnet, Forget, At, Step
    <3>2. /\ saved'.server = saved.server /\ saved'.option["addsubnet"] = Absent
          /\ saved'.option["noresolv"] = saved.option["noresolv"]
      BY <1>0, <2>3 DEF ForgetAddsubnet, Forget, TypeOK, Saved, Option
    <3> QED BY <3>1, <3>2 DEF IInv, RestoreProgress, Restoring
  <2> QED BY <2>1, <2>2, <2>3
<1>7. SwitchProgress' /\ RestoreProgress'
  BY <1>1, <1>2, <1>6
  DEF SwitchProgress, RestoreProgress, Switching, Restoring, At, Recognisable
<1> QED BY <1>4, <1>5, <1>7 DEF IInv

-----------------------------------------------------------------------------
(* The user edits what zakop has no part in. *)
LEMMA UserEditsIInv == ASSUME IInv, TypeOK', UserEdits PROVE IInv'
<1>1. user'.servers \subseteq UserServer /\ flash' = user' /\ uci' = user'
  BY UserAssumption DEF UserEdits
<1>2. saved' = NothingSaved /\ script'.step = "idle"
  BY DEF UserEdits, At, dhcp
<1>3. OwnServersKept' /\ uci'.servers \cap Listen = {}
  BY <1>1, AddressAssumption DEF OwnServersKept
<1>4. OneAddress' /\ OptionsKnown'
  BY <1>1, <1>2, <1>3, AddressAssumption DEF OneAddress, OptionsKnown, NothingSaved
<1>5. SwitchProgress' /\ RestoreProgress'
  BY <1>2 DEF SwitchProgress, RestoreProgress, Switching, Restoring, At
<1> QED BY <1>3, <1>4, <1>5 DEF IInv

(* A loss of power: what it leaves on flash is covered by the state files, or torn. *)
LEMMA PowerLossIInv == ASSUME IInv, TypeOK', PowerLoss PROVE IInv'
<1>1. uci' = flash /\ torn' = ~Covered /\ UNCHANGED <<user, flash, saved>> /\ ~torn
  BY DEF PowerLoss
<1>2. script'.step \in {"check", "delete_table"}
  BY BeginsQuietly DEF PowerLoss
<1>3. OwnServersKept'
  BY <1>1 DEF IInv, OwnServersKept
<1>4. OneAddress'
  BY <1>1 DEF IInv, OneAddress, Covered
<1>5. OptionsKnown'
  BY <1>1 DEF IInv, OptionsKnown, Covered, Recognisable
<1>6. SwitchProgress' /\ RestoreProgress'
  BY <1>2 DEF SwitchProgress, RestoreProgress, Switching, Restoring, At
<1> QED BY <1>3, <1>4, <1>5, <1>6 DEF IInv

LEMMA IInvStep == IInv /\ MarkRead /\ [Next]_vars => IInv'
<1> SUFFICES ASSUME IInv, MarkRead, [Next]_vars PROVE IInv'
  OBVIOUS
<1>1. TypeOK'
  BY TypeOKStep DEF IInv
<1> QED BY <1>1, QuietNext, SaveServerIInv, SaveOptionsIInv, SwitchIInv, CommitIInv,
           RestoreIInv, ForgetIInv, UserEditsIInv, PowerLossIInv
        DEF Next, ScriptStep, KernelStep

LEMMA IInvAlways == Spec => [](IInv /\ MarkRead)
<1>1. Init => MarkRead
  BY DEF Init, Idle, MarkRead
<1>2. IInv => TypeOK
  BY DEF IInv
<1> QED BY <1>1, <1>2, InitIInv, IInvStep, MarkReadStep, PTL DEF Spec

(* "Stopping zakop should restore previous dnsmasq state"                          *)
(* (docs/ROUTER_TESTING.md:337), for every user, all configurations and any number *)
(* of starts, kills and losses of power before.                                    *)
THEOREM StopAlwaysRestores == Spec => []StopRestores
<1>1. IInv => StopRestores
  <2> SUFFICES ASSUME IInv, At("remove_cron"), ~torn, Recognisable(user)
               PROVE  flash = user /\ saved = NothingSaved
    BY DEF StopRestores
  <2>1. flash = user /\ saved.server = Absent
    BY DEF IInv, RestoreProgress, At
  <2>2. saved.option["noresolv"] = Absent /\ saved.option["addsubnet"] = Absent
    BY DEF IInv, RestoreProgress, At
  <2>3. saved \in Saved /\ saved.option = [o \in Option |-> Absent]
    BY <2>2 DEF IInv, TypeOK, Saved, Option
  <2> QED BY <2>1, <2>3 DEF Saved, NothingSaved
<1> QED BY <1>1, IInvAlways, PTL

(* dnsmasq has at most one address of zakop, however often dns_listen changed and    *)
(* zakop_write_dnsmasq was killed, for all addresses; not after a loss of power that *)
(* found a change of dns_listen uncommitted (torn), which may leave the old one, too. *)
THEOREM AtMostOneServer == Spec => []OneZakopServer
<1>1. IInv => OneZakopServer
  <2> SUFFICES ASSUME IInv, ~torn PROVE Cardinality(flash.servers \cap Listen) <= 1
    BY DEF OneZakopServer
  <2>1. PICK a \in Listen : flash.servers \cap Listen \subseteq {a}
    BY DEF IInv, OneAddress
  <2>2. IsFiniteSet({a}) /\ Cardinality({a}) = 1
    BY FS_Singleton
  <2>3. Cardinality(flash.servers \cap Listen) \in Nat
    BY <2>1, <2>2, FS_Subset, FS_CardinalityType
  <2> QED BY <2>1, <2>2, <2>3, FS_Subset
<1> QED BY <1>1, IInvAlways, PTL

(* No start, stop, kill or loss of power ever costs the user a server of their own,   *)
(* and none is made up: zakop_write_dnsmasq and zakop_remove_dnsmasq touch nothing    *)
(* but zakop's addresses, whatever the state files say at the time.                   *)
THEOREM OwnServersAlwaysStay == Spec => []OwnServersStay
<1>1. IInv => OwnServersStay
  BY DEF IInv, OwnServersKept, OwnServersStay
<1> QED BY <1>1, IInvAlways, PTL

-----------------------------------------------------------------------------
Applying == {"apply", "compile", "load_table", "add_rule", "add_route",
             "undo_table", "undo_rule", "undo_route"}
Probed == Applying \cup {"save_server"} \cup Switching

LEMMA WhileApplying ==
  ASSUME TypeOK, KernelStep
  PROVE  \/ script' = Idle
         \/ script.step \in Applying /\ \E step \in Applying \cup {"save_server"} : Moved(step)
         \/ Moved("delete_rule") \/ Moved("delete_route") \/ Moved("restore")
<1>1. script.step \in Applying \/ DeleteTable \/ DeleteRule \/ DeleteRoute
  BY DEF KernelStep, Apply, Compile, LoadTable, AddRule, AddRoute, UndoTable, UndoRule,
         UndoRoute, At, Applying
<1> QED BY <1>1, DeleteMoves, KernelEffect DEF Applying, Moved

(* While conf does not change, the script works for conf, and the steps after Ready *)
(* have probed its address.                                                         *)
ProbeProgress ==
  /\ ~At("idle") /\ script.steady => script.conf = conf
  /\ script.step \in Probed /\ script.steady => script.probed = conf.listen

(* Uncommitted changes add at most the address of the state file, and those of a    *)
(* stop none.  (This holds when flash is torn, too.)                                *)
Additions ==
  /\ uci.servers \cap Listen \subseteq flash.servers \cup {saved.server}
  /\ script.step \in Restoring => uci.servers \cap Listen \subseteq flash.servers

LEMMA BeginProbes ==
  ASSUME NEW job, StartService \/ StopService(job), UNCHANGED conf
  PROVE  ProbeProgress'
  BY DEF StartService, StopService, Begin, ProbeProgress, Probed, Applying, Switching, At

LEMMA GotoProbes ==
  ASSUME TypeOK, ProbeProgress, ~At("idle"), NEW step \in Step, Goto(step), UNCHANGED conf,
         step \in Probed => script.step \in Probed
  PROVE  ProbeProgress'
  BY GotoStep DEF ProbeProgress, Probed, Applying, Switching, At, Step

LEMMA EndProbes == ASSUME End PROVE ProbeProgress'
  BY DEF End, Idle, ProbeProgress, Probed, Applying, Switching, At

LEMMA ProbeProgressStep == TypeOK /\ ProbeProgress /\ [Next]_vars => ProbeProgress'
<1> SUFFICES ASSUME TypeOK, ProbeProgress, [Next]_vars PROVE ProbeProgress'
  OBVIOUS
<1>1. ASSUME NEW job \in {"start", "stop", "restart"}, Call(job) PROVE ProbeProgress'
  BY <1>1, BeginProbes DEF Call
<1>2. CASE Check
  <2>1. script \in Script /\ "submit" \in Step
    BY <1>2, BusyType DEF Check, At, Step
  <2>2. PICK ok \in BOOLEAN : script' = [script EXCEPT !.step = "submit", !.ok = ok]
    BY <1>2 DEF Check
  <2>3. script'.step = "submit" /\ script'.conf = script.conf /\ script'.steady = script.steady
    BY <2>1, <2>2 DEF Script
  <2> QED BY <1>2, <2>3 DEF Check, ProbeProgress, Probed, Applying, Switching, At
<1>3. CASE Load
  <2>1. script \in Script /\ "ready" \in Step /\ conf \in Confs
    BY <1>3, BusyType DEF Load, At, Step, TypeOK
  <2>2. CASE script' = [script EXCEPT !.conf = conf, !.step = "ready"]
    <3>1. /\ [script EXCEPT !.conf = conf, !.step = "ready"].step = "ready"
          /\ [script EXCEPT !.conf = conf, !.step = "ready"].conf = conf
      BY <2>1, LearnConfFields
    <3>2. script'.step = "ready" /\ script'.conf = conf
      BY <2>2, <3>1, Zenon
    <3> QED BY <1>3, <3>2 DEF Load, ProbeProgress, Probed, Applying, Switching, At
  <2>3. CASE End
    BY <2>3, EndProbes
  <2> QED BY <1>3, <2>2, <2>3 DEF Load
<1>4. CASE Ready
  <2>1. script \in Script /\ "apply" \in Step /\ ~At("idle")
    BY <1>4, BusyType DEF Ready, At, Step
  <2>2. conf.listen \in Listen
    BY ConfsAssumption DEF TypeOK, Conf
  <2>3. CASE script' = [script EXCEPT !.step = "apply", !.probed = conf.listen]
    <3> DEFINE t == [script EXCEPT !.step = "apply", !.probed = conf.listen]
    <3>1. /\ t.step = "apply" /\ t.probed = conf.listen
          /\ t.conf = script.conf /\ t.steady = script.steady
      BY <2>1, <2>2, LearnProbedFields
    <3>2. /\ script'.step = "apply" /\ script'.probed = conf.listen
          /\ script'.conf = script.conf /\ script'.steady = script.steady
      BY <2>3, <3>1, Zenon
    <3> QED BY <1>4, <2>1, <3>2 DEF Ready, ProbeProgress, Probed, Applying, Switching, At
  <2>4. CASE End
    BY <2>4, EndProbes
  <2> QED BY <1>4, <2>3, <2>4 DEF Ready
<1>5. CASE Submit \/ Restore \/ SaveServer \/ Switch
  BY <1>5, GotoProbes, EndProbes
  DEF Submit, Restore, SaveServer, Switch, Probed, Applying, Switching, At, Step
<1>13. CASE KernelStep
  BY <1>13, WhileApplying, KernelEffect
  DEF ProbeProgress, Probed, Applying, Switching, Moved, At, Idle
<1>6. CASE SaveNoresolv \/ SaveAddsubnet \/ CommitSwitch \/ CommitRestore
  BY <1>6, GotoProbes
  DEF SaveNoresolv, SaveAddsubnet, SaveOption, CommitSwitch, CommitRestore, Commit,
      Probed, Applying, Switching, At, Step
<1>7. CASE ForgetServer \/ ForgetNoresolv \/ ForgetAddsubnet
  BY <1>7, GotoProbes
  DEF ForgetServer, ForgetNoresolv, ForgetAddsubnet, Forget, Probed, Applying, Switching, At, Step
<1>8. CASE WriteCron \/ Kill
  BY <1>8, EndProbes DEF WriteCron, Kill
<1>9. CASE RemoveCron
  BY <1>9, GotoProbes, EndProbes, BeginProbes DEF RemoveCron, Probed, Applying, Switching, At, Step
<1>10. CASE ConfChanges
  <2>1. CASE At("idle")
    BY <1>10, <2>1 DEF ConfChanges, ProbeProgress, Probed, Applying, Switching, At
  <2>2. CASE ~At("idle")
    <3>1. script \in Script
      BY <2>2, BusyType
    <3>2. ~script'.steady
      BY <1>10, <2>2, <3>1 DEF ConfChanges, Script
    <3> QED BY <3>2 DEF ProbeProgress
  <2> QED BY <2>1, <2>2
<1>11. CASE UserEdits \/ ZakopdStarts \/ ZakopdDies \/ UNCHANGED vars
  BY <1>11 DEF UserEdits, ZakopdStarts, ZakopdDies, vars, ProbeProgress, At
<1>12. CASE PowerLoss
  BY <1>12, BeginProbes DEF PowerLoss
<1> QED BY <1>1, <1>2, <1>3, <1>4, <1>5, <1>6, <1>7, <1>8, <1>9, <1>10, <1>11, <1>12,
           <1>13
        DEF Next, ScriptStep, KernelStep

LEMMA QuietAdditions ==
  ASSUME Additions, UNCHANGED <<flash, uci, saved>>,
         script'.step \in Restoring => script.step \in Restoring
  PROVE  Additions'
  BY DEF Additions

LEMMA AdditionsStep == IInv /\ Additions /\ [Next]_vars => Additions'
<1> SUFFICES ASSUME IInv, Additions, [Next]_vars PROVE Additions'
  OBVIOUS
<1> USE DEF dhcp, kernel, daemons
<1>0. TypeOK /\ saved.server \in Listen \cup {Absent}
  BY DEF IInv, TypeOK, Saved
<1>1. ASSUME NEW job \in {"start", "stop", "restart"}, Call(job) PROVE Additions'
  BY <1>1, BeginsQuietly, QuietAdditions DEF Call, Restoring
<1>2. CASE Check \/ Load \/ Ready
  <2>1. script \in Script /\ conf \in Confs /\ conf.listen \in Listen
    BY <1>0, <1>2, BusyType, ConfsAssumption DEF Check, Load, Ready, At, TypeOK, Conf
  <2>2. CASE Check
    BY <2>1, <2>2, QuietAdditions DEF Check, Script, Restoring
  <2>3. CASE script' = [script EXCEPT !.conf = conf, !.step = "ready"]
    <3>1. [script EXCEPT !.conf = conf, !.step = "ready"].step = "ready"
      BY <2>1, LearnConfFields DEF Step
    <3>2. script'.step = "ready"
      BY <2>3, <3>1, Zenon
    <3> QED BY <1>2, <3>2, QuietAdditions DEF Check, Load, Ready, Restoring
  <2>4. CASE script' = [script EXCEPT !.step = "apply", !.probed = conf.listen]
    <3>1. [script EXCEPT !.step = "apply", !.probed = conf.listen].step = "apply"
      BY <2>1, LearnProbedFields DEF Step
    <3>2. script'.step = "apply"
      BY <2>4, <3>1, Zenon
    <3> QED BY <1>2, <3>2, QuietAdditions DEF Check, Load, Ready, Restoring
  <2>5. CASE script' = Idle
    BY <1>2, <2>5, QuietAdditions DEF Check, Load, Ready, Restoring, Idle
  <2> QED BY <1>2, <2>2, <2>3, <2>4, <2>5 DEF Load, Ready, End
<1>3. CASE Submit
  BY <1>0, <1>3, GotoStep, QuietAdditions DEF Submit, At, Step, Restoring
<1>14. CASE KernelStep
  BY <1>0, <1>14, KernelEffect, QuietAdditions DEF Moved, Idle, Restoring
<1>4. CASE SaveServer
  <2>1. script'.step \in {"write_cron", "save_noresolv"} /\ script.conf.listen \in Listen
    BY <1>0, <1>4, GotoStep, BusyType, ConfsAssumption DEF SaveServer, At, Step, Script, Conf
  <2>2. CASE script.conf.manage
    <3>1. /\ uci'.servers = uci.servers \ ({saved.server} \ {script.conf.listen})
          /\ saved'.server = script.conf.listen
          /\ flash' = flash
      BY <1>0, <1>4, <2>2 DEF SaveServer, TypeOK, Dhcp, Saved
    <3> QED BY <2>1, <3>1 DEF Additions, Restoring
  <2>3. CASE ~script.conf.manage
    BY <1>4, <2>1, <2>3, QuietAdditions DEF SaveServer, Restoring
  <2> QED BY <2>2, <2>3
<1>5. CASE SaveNoresolv \/ SaveAddsubnet
  <2>1. script'.step \in {"save_addsubnet", "switch"}
    BY <1>0, <1>5, GotoStep DEF SaveNoresolv, SaveAddsubnet, SaveOption, At, Step
  <2>2. saved'.server = saved.server /\ UNCHANGED <<flash, uci>>
    BY <1>0, <1>5 DEF SaveNoresolv, SaveAddsubnet, SaveOption, TypeOK, Saved
  <2> QED BY <2>1, <2>2 DEF Additions, Restoring
<1>6. CASE Switch
  <2>1. script'.step = "commit_switch" /\ saved.server = script.conf.listen
    BY <1>0, <1>6, GotoStep DEF Switch, At, Step, IInv, SwitchProgress, Switching
  <2>2. uci'.servers = uci.servers \cup {script.conf.listen} /\ UNCHANGED <<flash, saved>>
    BY <1>6 DEF Switch
  <2> QED BY <2>1, <2>2 DEF Additions, Restoring
<1>7. CASE CommitSwitch \/ CommitRestore \/ UserEdits \/ PowerLoss
  BY <1>7 DEF CommitSwitch, CommitRestore, Commit, UserEdits, PowerLoss, Additions
<1>8. CASE WriteCron \/ Kill
  BY <1>8, QuietAdditions DEF WriteCron, Kill, End, Idle, Restoring
<1>9. CASE Restore
  <2>1. /\ uci'.servers = uci.servers \ {script.conf.listen, saved.server, Default}
        /\ UNCHANGED <<flash, saved>>
    BY <1>9 DEF Restore, Restored
  <2> QED BY <2>1 DEF Additions
<1>10. CASE ForgetServer \/ ForgetNoresolv \/ ForgetAddsubnet
  <2>1. script.step \in Restoring /\ UNCHANGED <<flash, uci>>
    BY <1>10 DEF ForgetServer, ForgetNoresolv, ForgetAddsubnet, Forget, At, Restoring
  <2> QED BY <2>1 DEF Additions
<1>11. CASE RemoveCron
  BY <1>0, <1>11, GotoStep, BeginsQuietly, QuietAdditions
  DEF RemoveCron, End, Idle, At, Step, Restoring
<1>12. CASE ConfChanges
  BY <1>0, <1>12, BusyType, QuietAdditions DEF ConfChanges, At, Script
<1>13. CASE ZakopdStarts \/ ZakopdDies \/ UNCHANGED vars
  BY <1>13, QuietAdditions DEF ZakopdStarts, ZakopdDies, vars
<1> QED BY <1>1, <1>2, <1>3, <1>4, <1>5, <1>6, <1>7, <1>8, <1>9, <1>10, <1>11, <1>12, <1>13,
           <1>14
        DEF Next, ScriptStep, KernelStep

(* A step of the script that takes dnsmasq or the table into use works for an address *)
(* that has answered.                                                                 *)
LEMMA StepAfterProbe ==
  ASSUME IInv, ProbeProgress, Additions, [Next]_vars, ~At("idle"), script.steady
  PROVE  /\ flash'.servers \cap Listen \subseteq flash.servers \cup {script.probed}
         /\ table' \notin {Absent, table} => script.probed = conf.listen
<1>0. TypeOK
  BY DEF IInv
<1>1. \/ UNCHANGED flash
      \/ flash' = uci /\ script.step \in {"commit_switch", "commit_restore"}
  BY <1>0, KernelEffect
  DEF Next, ScriptStep, KernelStep, Call, Check, Submit, Load, Ready, SaveServer, SaveNoresolv,
      SaveAddsubnet, SaveOption, Switch, CommitSwitch, CommitRestore, Commit, WriteCron,
      Restore, ForgetServer, ForgetNoresolv, ForgetAddsubnet, Forget,
      RemoveCron, ConfChanges, UserEdits, ZakopdStarts, ZakopdDies, Kill, PowerLoss,
      vars, dhcp, At
<1>2. flash'.servers \cap Listen \subseteq flash.servers \cup {script.probed}
  <2>1. CASE script.step = "commit_switch"
    <3>1. saved.server = script.conf.listen /\ script.conf = conf
      BY <2>1 DEF IInv, SwitchProgress, Switching, ProbeProgress
    <3>2. script.probed = conf.listen
      BY <2>1 DEF ProbeProgress, Probed, Applying, Switching
    <3> QED BY <1>1, <3>1, <3>2 DEF Additions
  <2>2. CASE script.step = "commit_restore"
    BY <1>1, <2>2 DEF Additions, Restoring
  <2> QED BY <1>1, <2>1, <2>2
<1>3. table' \in {Absent, table} \/ LoadTable
  <2>1. CASE ~KernelStep
    BY <1>0, <2>1, OtherStep DEF kernel
  <2>2. CASE KernelStep /\ ~LoadTable
    BY <2>2
    DEF KernelStep, Apply, Compile, AddRule, AddRoute, UndoTable, UndoRule, UndoRoute,
        DeleteTable, DeleteRule, DeleteRoute, kernel
  <2> QED BY <2>1, <2>2
<1>4. LoadTable => script.probed = conf.listen
  BY DEF LoadTable, At, ProbeProgress, Probed, Applying
<1> QED BY <1>2, <1>3, <1>4

(* "nft/TProxy and the dnsmasq upstream switch are enabled only after an end-to-end *)
(* real-DNS probe" (docs/ARCHITECTURE.md:263), for every configuration.             *)
THEOREM AlwaysEnabledAfterProbe == Spec => EnabledAfterProbe
<1> DEFINE PInv == IInv /\ MarkRead /\ ProbeProgress /\ Additions
<1>1. Init => PInv
  BY InitIInv
  DEF Init, Idle, At, MarkRead, ProbeProgress, Additions, Probed, Applying, Switching, Restoring
<1>2. PInv /\ [Next]_vars => PInv'
  BY IInvStep, MarkReadStep, ProbeProgressStep, AdditionsStep DEF IInv
<1>3. PInv /\ [Next]_vars =>
        [~At("idle") /\ script.steady =>
           /\ flash'.servers \cap Listen \subseteq flash.servers \cup {script.probed}
           /\ table' \notin {Absent, table} => script.probed = conf.listen]_vars
  BY StepAfterProbe
<1> QED BY <1>1, <1>2, <1>3, PTL DEF Spec, EnabledAfterProbe

-----------------------------------------------------------------------------
(* What a start that has come to a step has done already: it has put up the table of *)
(* a configuration that is enabled, and, from the switch on, has set dnsmasq.         *)
TakingOver == {"save_server", "write_cron"} \cup Switching

Switched == /\ script.conf.listen \in uci.servers
            /\ uci.option = [o \in Option |-> "zakop"]

StartProgress ==
  /\ At("apply") /\ script.steady => conf.enabled
  /\ script.step \in {"load_table", "add_rule", "add_route"} /\ script.steady =>
       script.mark = conf.mark
  /\ script.step \in {"undo_table", "undo_rule", "undo_route"} /\ script.ok => ~script.steady
  /\ script.step \in TakingOver /\ script.steady => table = conf.mark
  /\ At("commit_switch") => Switched
  /\ At("write_cron") /\ script.conf.manage =>
       Switched /\ flash = uci /\ saved.server = script.conf.listen

LEMMA OutsideTakeOver ==
  ASSUME script'.step \notin TakingOver \cup Applying
  PROVE  StartProgress'
  BY DEF StartProgress, TakingOver, Applying, Switching, At

(* A step before the switch that leaves the table alone. *)
LEMMA BeforeSwitch ==
  ASSUME StartProgress, UNCHANGED <<conf, table>>, script'.steady = script.steady,
         script.step \in TakingOver, script'.step \in {"save_noresolv", "save_addsubnet", "switch"}
  PROVE  StartProgress'
  BY DEF StartProgress, TakingOver, Switching, At

LEMMA BeginsOutside ==
  ASSUME NEW job, StartService \/ StopService(job)
  PROVE  StartProgress'
  BY BeginsQuietly, OutsideTakeOver DEF Applying, TakingOver, Switching

LEMMA EndsOutside == ASSUME End PROVE StartProgress'
  BY OutsideTakeOver DEF Applying, End, Idle, TakingOver, Switching

LEMMA KernelStartProgress ==
  ASSUME TypeOK, StartProgress, TableProgress, KernelStep PROVE StartProgress'
<1> USE DEF StartProgress, TakingOver, Applying, Switching, Moved, Idle
<1>1. UNCHANGED conf
  BY KernelEffect
<1>2. CASE Apply
  BY <1>1, <1>2, ApplyMoves DEF Apply, At
<1>3. CASE Compile
  BY <1>1, <1>3, CompileMoves DEF At
<1>4. CASE LoadTable
  BY <1>1, <1>4, LoadTableMoves DEF LoadTable, At
<1>5. CASE AddRule
  BY <1>1, <1>5, AddRuleMoves DEF AddRule, At
<1>6. CASE AddRoute
  BY <1>1, <1>6, AddRouteMoves DEF AddRoute, At, TableProgress
<1>7. CASE UndoTable \/ UndoRule \/ UndoRoute
  <2>1. script.ok => ~script.steady
    BY <1>7 DEF UndoTable, UndoRule, UndoRoute, At
  <2>2. \/ script'.step = "idle"
        \/ /\ script'.step \in {"undo_rule", "undo_route"}
           /\ script'.ok = script.ok /\ script'.steady = script.steady
        \/ script'.step = "save_server" /\ script.ok /\ script'.steady = script.steady
    BY <1>7, UndoMoves
  <2> QED BY <2>1, <2>2 DEF At
<1>8. CASE DeleteTable \/ DeleteRule \/ DeleteRoute
  BY <1>1, <1>8, DeleteMoves DEF At
<1> QED BY <1>2, <1>3, <1>4, <1>5, <1>6, <1>7, <1>8 DEF KernelStep

LEMMA StartProgressStep ==
  IInv /\ StartProgress /\ TableProgress /\ [Next]_vars => StartProgress'
<1> SUFFICES ASSUME IInv, StartProgress, TableProgress, [Next]_vars PROVE StartProgress'
  OBVIOUS
<1> USE DEF dhcp, kernel, daemons
<1>0. TypeOK
  BY DEF IInv
<1>1. ASSUME NEW job \in {"start", "stop", "restart"}, Call(job) PROVE StartProgress'
  BY <1>1, BeginsOutside DEF Call
<1>2. CASE Check
  <2>1. script \in Script
    BY <1>0, <1>2, BusyType DEF Check, At
  <2>2. script'.step = "submit"
    BY <1>2, <2>1 DEF Check, Script
  <2> QED BY <2>2, OutsideTakeOver DEF Applying, TakingOver, Switching
<1>3. CASE Load
  <2>1. script \in Script /\ conf \in Confs
    BY <1>0, <1>3, BusyType DEF Load, At, TypeOK
  <2>2. CASE script' = [script EXCEPT !.conf = conf, !.step = "ready"]
    <3>1. [script EXCEPT !.conf = conf, !.step = "ready"].step = "ready"
      BY <2>1, LearnConfFields DEF Step
    <3>2. script'.step = "ready"
      BY <2>2, <3>1, Zenon
    <3> QED BY <3>2, OutsideTakeOver DEF Applying, TakingOver, Switching
  <2> QED BY <1>3, <2>2, EndsOutside DEF Load
<1>4. CASE Ready
  <2>1. script \in Script /\ conf.listen \in Listen
    BY <1>0, <1>4, BusyType, ConfsAssumption DEF Ready, At, TypeOK, Conf
  <2>2. CASE conf.enabled /\ script' = [script EXCEPT !.step = "apply", !.probed = conf.listen]
    <3>1. [script EXCEPT !.step = "apply", !.probed = conf.listen].step = "apply"
      BY <2>1, LearnProbedFields DEF Step
    <3>2. script'.step = "apply"
      BY <2>2, <3>1, Zenon
    <3>3. conf'.enabled
      BY <1>4, <2>2 DEF Ready
    <3> QED BY <3>2, <3>3 DEF StartProgress, TakingOver, Switching, At
  <2> QED BY <1>4, <2>2, EndsOutside DEF Ready
<1>5. CASE KernelStep
  BY <1>0, <1>5, KernelStartProgress
<1>6. CASE SaveServer
  <2>1. script \in Script /\ script'.steady = script.steady /\ script'.conf = script.conf
    BY <1>0, <1>6, BusyType, GotoStep DEF SaveServer, At, Step
  <2>2. CASE script.conf.manage
    <3>1. script'.step = "save_noresolv"
      BY <1>0, <1>6, <2>2, GotoStep DEF SaveServer, At, Step
    <3> QED BY <1>6, <2>1, <3>1, BeforeSwitch DEF SaveServer, At, TakingOver
  <2>3. CASE ~script.conf.manage
    <3>1. script'.step = "write_cron"
      BY <1>0, <1>6, <2>3, GotoStep DEF SaveServer, At, Step
    <3>2. script.step \in TakingOver /\ UNCHANGED <<conf, table>>
      BY <1>6 DEF SaveServer, At, TakingOver
    <3> QED BY <2>1, <2>3, <3>1, <3>2 DEF StartProgress, At
  <2> QED BY <2>2, <2>3
<1>7. CASE SaveNoresolv \/ SaveAddsubnet
  <2>1. script'.step \in {"save_addsubnet", "switch"} /\ script'.steady = script.steady
    BY <1>0, <1>7, GotoStep DEF SaveNoresolv, SaveAddsubnet, SaveOption, At, Step
  <2>2. script.step \in TakingOver /\ UNCHANGED <<conf, table>>
    BY <1>7 DEF SaveNoresolv, SaveAddsubnet, SaveOption, At, TakingOver, Switching
  <2> QED BY <2>1, <2>2, BeforeSwitch
<1>8. CASE Switch
  <2>1. /\ script'.step = "commit_switch" /\ script'.steady = script.steady
        /\ script'.conf = script.conf
    BY <1>0, <1>8, GotoStep DEF Switch, At, Step
  <2>2. script.step \in TakingOver /\ UNCHANGED <<conf, table>>
    BY <1>8 DEF Switch, At, TakingOver, Switching
  <2>3. Switched'
    BY <1>8, <2>1 DEF Switch, Switched
  <2> QED BY <2>1, <2>2, <2>3 DEF StartProgress, At
<1>9. CASE CommitSwitch
  <2>1. /\ script'.step = "write_cron" /\ script'.steady = script.steady
        /\ script'.conf = script.conf
    BY <1>0, <1>9, GotoStep DEF CommitSwitch, Commit, At, Step
  <2>2. /\ script.step \in TakingOver /\ Switched /\ saved.server = script.conf.listen
        /\ flash' = uci /\ UNCHANGED <<conf, table, uci, saved>>
    BY <1>9
    DEF CommitSwitch, Commit, At, TakingOver, Switching, StartProgress, IInv, SwitchProgress
  <2> QED BY <2>1, <2>2 DEF StartProgress, Switched, At
<1>10. CASE WriteCron \/ Kill
  BY <1>10, EndsOutside DEF WriteCron, Kill
<1>11. CASE Submit \/ Restore \/ CommitRestore
            \/ ForgetServer \/ ForgetNoresolv \/ ForgetAddsubnet
  <2>1. script'.step \in {"load", "forget_server", "remove_cron", "forget_noresolv",
                          "forget_addsubnet", "commit_restore"}
    BY <1>0, <1>11, GotoStep
    DEF Submit, Restore, CommitRestore, Commit, ForgetServer, ForgetNoresolv,
        ForgetAddsubnet, Forget, At, Step
  <2> QED BY <2>1, OutsideTakeOver DEF Applying, TakingOver, Switching
<1>12. CASE RemoveCron
  <2>1. CASE Goto("submit")
    <3>1. script'.step = "submit"
      BY <1>0, <1>12, <2>1, GotoStep DEF RemoveCron, At, Step
    <3> QED BY <3>1, OutsideTakeOver DEF Applying, TakingOver, Switching
  <2> QED BY <1>12, <2>1, EndsOutside, BeginsOutside DEF RemoveCron
<1>13. CASE ConfChanges
  <2>1. CASE At("idle")
    BY <1>13, <2>1, OutsideTakeOver DEF ConfChanges, Applying, At, TakingOver, Switching
  <2>2. CASE ~At("idle")
    <3>1. script \in Script
      BY <1>0, <2>2, BusyType
    <3>2. /\ ~script'.steady /\ script'.step = script.step /\ script'.conf = script.conf
          /\ UNCHANGED <<flash, uci, saved>>
      BY <1>13, <2>2, <3>1 DEF ConfChanges, Script
    <3> QED BY <3>2 DEF StartProgress, Switched, At
  <2> QED BY <2>1, <2>2
<1>14. CASE UserEdits
  BY <1>14, OutsideTakeOver DEF Applying, UserEdits, At, TakingOver, Switching
<1>15. CASE ZakopdStarts \/ ZakopdDies \/ UNCHANGED vars
  BY <1>15 DEF ZakopdStarts, ZakopdDies, vars, StartProgress, Switched, At
<1>16. CASE PowerLoss
  BY <1>16, BeginsOutside DEF PowerLoss
<1> QED BY <1>1, <1>2, <1>3, <1>4, <1>5, <1>6, <1>7, <1>8, <1>9, <1>10, <1>11, <1>12,
           <1>13, <1>14, <1>15, <1>16
        DEF Next, ScriptStep, KernelStep

(* "When manage_dnsmasq=1, zakop configures dnsmasq to forward DNS to zakopd"        *)
(* (docs/ROUTER_TESTING.md:308), whatever was left behind before, for every user and *)
(* all configurations.                                                               *)
THEOREM StartAlwaysTakesOver == Spec => []StartTakesOver
<1> DEFINE SInv == /\ IInv /\ MarkRead /\ ProbeProgress /\ StartProgress
                   /\ PolicyIsRouted /\ TableProgress
<1>1. Init => SInv
  BY InitIInv
  DEF Init, Idle, At, MarkRead, ProbeProgress, Probed, StartProgress, TakingOver, Applying,
      Switching, Restoring, PolicyIsRouted, TableProgress, Unrouted
<1>2. SInv /\ [Next]_vars => SInv'
  BY IInvStep, MarkReadStep, ProbeProgressStep, StartProgressStep, PolicyIsRoutedStep DEF IInv
<1>3. SInv => StartTakesOver
  <2> SUFFICES ASSUME SInv, At("write_cron"), ~torn, script.conf.manage
               PROVE  /\ flash = [servers |-> user.servers \cup {script.conf.listen},
                                  option |-> [o \in Option |-> "zakop"]]
                      /\ script.steady => table = conf.mark
    BY DEF StartTakesOver
  <2>1. Switched /\ flash = uci /\ saved.server = script.conf.listen
    BY DEF StartProgress
  <2>2. script \in Script /\ script.conf.listen \in Listen
    BY BusyType, ConfsAssumption DEF IInv, At, Script, Conf
  <2>3. flash.servers = user.servers \cup {script.conf.listen}
    BY <2>1, <2>2 DEF IInv, OwnServersKept, OneAddress, Switched
  <2>4. flash = [servers |-> flash.servers, option |-> flash.option]
    BY DEF IInv, TypeOK, Dhcp
  <2>5. script.steady => table = conf.mark
    BY DEF StartProgress, TakingOver, At
  <2> QED BY <2>1, <2>3, <2>4, <2>5 DEF Switched
<1> QED BY <1>1, <1>2, <1>3, PTL DEF Spec
=============================================================================
