----------------------------- MODULE ServiceUnits -----------------------------
(***************************************************************************)
(* `hydra service install` and `uninstall` on Linux: each is a program of  *)
(* steps that stops at the first failure it does not ignore, may be killed *)
(* at any step, and is followed by restarts, timers and reboots.           *)
(*                                                                         *)
(* One service name, which either role may be given (--name).  The text of *)
(* a unit file is the role and the options it was rendered from.  systemd  *)
(* is not in the repository; its actions say what the code relies on.      *)
(***************************************************************************)
EXTENDS Integers, Sequences

CONSTANT Specs  \* the options: what a unit text depends on besides the role

VARIABLES
  disk,      \* the unit files
  loaded,    \* systemd: the definitions it read at the last reload
  enabled,   \* systemd: the units that start at boot
  active,    \* systemd: the definition each unit was started with, if it runs
  command,   \* the last command: [verb, role, spec]
  todo,      \* the steps it has left
  done,      \* how it ended: "installed", "removed", "stopped", or "busy"
  past       \* history since nothing was left of the service: the roles
             \* commands were given, and whether a failure was ignored

serviceVars == <<disk, loaded, enabled, active, command, todo, done, past>>

Roles == {"client", "server"}
Files == {"service", "timer"}
NoFile == <<"absent">>
HalfWritten == <<"torn">>
NotRunning == <<"notRunning">>
IsText(content) == content \notin {NoFile, HalfWritten, NotRunning}
Nowhere == [f \in Files |-> NoFile]
NoPast == [roles |-> {}, unlucky |-> FALSE]

ServiceInit ==
  /\ disk = Nowhere /\ loaded = Nowhere
  /\ enabled = {}
  /\ active = [f \in Files |-> NotRunning]
  /\ command = [verb |-> "none"]
  /\ todo = <<>>
  /\ done = "stopped"
  /\ past = NoPast

-----------------------------------------------------------------------------
(* The programs.                                                           *)

UnitOf(role) == IF role = "server" THEN "timer" ELSE "service"

(* systemd_service and systemd_timer.                                      *)
Text(cmd) == <<cmd.role, cmd.spec>>
FilesOf(role) == IF role = "server" THEN <<"service", "timer">> ELSE <<"service">>

Write(f) == [do |-> "write", file |-> f]
Remove(f) == [do |-> "remove", file |-> f]
DaemonReload == [do |-> "reload"]
EnableNow(f) == [do |-> "enable", file |-> f]
DisableNow(f) == [do |-> "disable", file |-> f]

Writes(role) == [i \in DOMAIN FilesOf(role) |-> Write(FilesOf(role)[i])]

(* Faulty: systemd is not told of the new definitions.                     *)
InstallUnloaded(role) == Writes(role) \o <<EnableNow(UnitOf(role))>>

Install(role) == Writes(role) \o <<DaemonReload, EnableNow(UnitOf(role))>>

(* Faulty: the files go first.                                             *)
UninstallFilesFirst(role) ==
  <<Remove("service"), Remove("timer"), DisableNow(UnitOf(role)), DaemonReload>>

Uninstall(role) ==
  <<DisableNow(UnitOf(role)), Remove("service"), Remove("timer"), DaemonReload>>

NothingLeft ==
  /\ disk = Nowhere /\ enabled = {}
  /\ \A f \in Files : active[f] = NotRunning

Begin(verb, role, spec) ==
  /\ todo = <<>>
  /\ command' = [verb |-> verb, role |-> role, spec |-> spec]
  /\ todo' = IF verb = "install" THEN Install(role) ELSE Uninstall(role)
  /\ done' = "busy"
  /\ past' = IF NothingLeft THEN [NoPast EXCEPT !.roles = {role}]
             ELSE [past EXCEPT !.roles = @ \cup {role}]
  /\ UNCHANGED <<disk, loaded, enabled, active>>

-----------------------------------------------------------------------------
(* The steps, when they succeed.                                           *)

At(do) == todo # <<>> /\ Head(todo).do = do
File == Head(todo).file

(* The next step, or the end.                                              *)
Go ==
  /\ todo' = Tail(todo)
  /\ done' = IF Tail(todo) # <<>> THEN "busy"
             ELSE IF command.verb = "install" THEN "installed" ELSE "removed"
  /\ UNCHANGED command

WriteUnit ==
  /\ At("write")
  /\ disk' = [disk EXCEPT ![File] = Text(command)]
  /\ Go
  /\ UNCHANGED <<loaded, enabled, active, past>>

RemoveUnit ==
  /\ At("remove") /\ disk[File] # NoFile
  /\ disk' = [disk EXCEPT ![File] = NoFile]
  /\ Go
  /\ UNCHANGED <<loaded, enabled, active, past>>

Reload ==
  /\ At("reload")
  /\ loaded' = disk
  /\ Go
  /\ UNCHANGED <<disk, enabled, active, past>>

(* A unit that runs already is not started again.                          *)
Enable ==
  /\ At("enable") /\ IsText(disk[File])
  /\ enabled' = enabled \cup {File}
  /\ active' = [active EXCEPT ![File] = IF @ = NotRunning THEN loaded[File] ELSE @]
  /\ Go
  /\ UNCHANGED <<disk, loaded, past>>

Disable ==
  /\ At("disable") /\ disk[File] # NoFile
  /\ enabled' = enabled \ {File}
  /\ active' = [active EXCEPT ![File] = NotRunning]
  /\ Go
  /\ UNCHANGED <<disk, loaded, past>>

-----------------------------------------------------------------------------
(* The steps, when they do not.                                            *)

(* There is nothing to disable or to remove: systemctl and remove_file     *)
(* fail, and the failure is ignored.                                       *)
NothingThere ==
  /\ At("disable") \/ At("remove")
  /\ disk[File] = NoFile
  /\ Go
  /\ UNCHANGED <<disk, loaded, enabled, active, past>>

(* They fail for another reason, and it is ignored just the same.          *)
FailureIgnored ==
  /\ At("disable") \/ At("remove")
  /\ disk[File] # NoFile
  /\ past' = [past EXCEPT !.unlucky = TRUE]
  /\ Go
  /\ UNCHANGED <<disk, loaded, enabled, active>>

(* A write that fails or is cut short leaves the file as it was or torn.   *)
Cut == IF At("write") THEN { disk, [disk EXCEPT ![File] = HalfWritten] } ELSE {disk}

(* The step fails, or the command is killed: what comes after is not done. *)
Stop ==
  /\ todo # <<>>
  /\ disk' \in Cut
  /\ enabled' \in IF At("enable") THEN {enabled, enabled \cup {File}} ELSE {enabled}
  /\ todo' = <<>> /\ done' = "stopped"
  /\ UNCHANGED <<loaded, active, command, past>>

-----------------------------------------------------------------------------
(* What goes on meanwhile and after.                                       *)

(* Restart=on-failure, with the definition systemd has by then; or it is   *)
(* given up.                                                               *)
ServiceEnds ==
  /\ active["service"] # NotRunning
  /\ \/ active' = [active EXCEPT !["service"] = NotRunning]
     \/ /\ IsText(loaded["service"])
        /\ active' = [active EXCEPT !["service"] = loaded["service"]]
  /\ UNCHANGED <<disk, loaded, enabled, command, todo, done, past>>

(* The timer starts the service of its name.  The server's is over at once *)
(* (Type=oneshot); a client's runs.                                        *)
TimerFires ==
  /\ active["timer"] # NotRunning
  /\ active["service"] = NotRunning
  /\ IsText(loaded["service"]) /\ loaded["service"][1] = "client"
  /\ active' = [active EXCEPT !["service"] = loaded["service"]]
  /\ UNCHANGED <<disk, loaded, enabled, command, todo, done, past>>

(* What is enabled and there starts.                                       *)
Reboot ==
  /\ disk' \in Cut
  /\ loaded' = disk'
  /\ active' = [f \in Files |-> IF f \in enabled /\ IsText(disk'[f])
                                THEN disk'[f] ELSE NotRunning]
  /\ todo' = <<>>
  /\ done' = IF todo = <<>> THEN done ELSE "stopped"
  /\ UNCHANGED <<enabled, command, past>>

ServiceNext ==
  \/ \E verb \in {"install", "uninstall"}, role \in Roles, spec \in Specs :
       Begin(verb, role, spec)
  \/ WriteUnit \/ RemoveUnit \/ Reload \/ Enable \/ Disable
  \/ NothingThere \/ FailureIgnored \/ Stop
  \/ ServiceEnds \/ TimerFires \/ Reboot

ServiceSpec == ServiceInit /\ [][ServiceNext]_serviceVars

-----------------------------------------------------------------------------
(* Properties.                                                             *)

(* Whatever earlier commands left half done, a successful install has its  *)
(* own files on disk, loaded, and starting at boot, until the next command.*)
InstalledMeans ==
  done = "installed" =>
    /\ \A i \in DOMAIN FilesOf(command.role) :
         LET f == FilesOf(command.role)[i]
         IN  disk[f] = Text(command) /\ loaded[f] = Text(command)
    /\ UnitOf(command.role) \in enabled

(* From then on no other definition of the unit is started: not by a       *)
(* restart, a timer or a reboot (the one that ran before may run on).      *)
StartsWhatWasInstalled ==
  [][ done = "installed" /\ done' = "installed" =>
        LET u == UnitOf(command.role)
        IN  active'[u] \in {active[u], NotRunning, Text(command)} ]_serviceVars

(* A successful uninstall leaves nothing on disk, nothing enabled and      *)
(* nothing running, whichever commands were killed half way before it: as  *)
(* long as they were all given one role, and no failure was ignored.       *)
RemovedMeans ==
  done = "removed" /\ ~past.unlucky /\ past.roles = {command.role} => NothingLeft

(* "Stop and remove the service": when uninstall says it is removed, and   *)
(* no failure was ignored, nothing of it runs or starts at boot.           *)
UninstallStopsTheService ==
  done = "removed" /\ ~past.unlucky =>
    enabled = {} /\ \A f \in Files : active[f] = NotRunning
=============================================================================
