------------------------------- MODULE Installer -------------------------------
(***************************************************************************)
(* xtask (build, install, config, uninstall, all) and `hydra init`, each a *)
(* sequence of steps that stops at the first failure and may be killed at  *)
(* any step.  The operator runs xtask and, from another shell, `hydra      *)
(* init`; a file is its version, and each configuration is a new one, for  *)
(* its keys are fresh: they are numbered as they are written.  cargo and   *)
(* the kernel are not in the repository.                                   *)
(***************************************************************************)
EXTENDS Integers, Sequences

CONSTANTS
  Bins,        \* BINS: the shipped binaries, in order; the first is `hydra`
  MaxVersion,  \* bound on the versions of the source
  MaxConfig    \* bound on the configurations generated

VARIABLES
  source,    \* the version checked out
  built,     \* target/release: the version of each binary, or Missing
  binaries,  \* the install dir, likewise, or Partial
  configFile, \* hydra.toml: which configuration, Missing, Partial or Emptied
  opened,    \* the shells that have this hydra.toml open, to write it
  drawn,     \* configurations generated so far
  steps,     \* what each of the two commands has left to do
  run,       \* what each of the two commands is: [name, found]
  ended      \* how the last xtask command ended: its name, or "failed"

installerVars == <<source, built, binaries, configFile, opened, drawn, steps, run, ended>>

Missing == 0
Partial == -1  \* cut short, or a mixture of two
Emptied == -2  \* by one who is about to write it
Bin == { Bins[i] : i \in DOMAIN Bins }
Hydra == Bins[1]

(* xtask ships at least one binary, the first of which is `hydra`.         *)
ASSUME InstallerAssumption == Bins \in Seq(Bin) \ {<<>>}

Shells == {"xtask", "shell"}
NoCommand == [name |-> "none", found |-> Missing]

InstallerInit ==
  /\ source = 1
  /\ built = [b \in Bin |-> Missing]
  /\ binaries = [b \in Bin |-> Missing]
  /\ configFile = Missing
  /\ opened = {}
  /\ drawn = 0
  /\ steps = [s \in Shells |-> <<>>]
  /\ run = [s \in Shells |-> NoCommand]
  /\ ended = "none"

-----------------------------------------------------------------------------
(* The commands.                                                           *)

Step(do) == <<[do |-> do, bin |-> Hydra]>>
PerBin(do) == [i \in DOMAIN Bins |-> [do |-> do, bin |-> Bins[i]]]

(* --skip-tests leaves out a step that changes nothing.                    *)
Steps(name) ==
  CASE name = "check" -> Step("check")
    [] name = "build" -> Step("build")
    [] name = "test" -> Step("test")
    [] name = "install" -> PerBin("copy")
    [] name = "config" -> Step("config")
    [] name = "uninstall" -> PerBin("remove") \o Step("removeConfig")
    [] name = "all" ->
         Step("check") \o Step("build") \o Step("test") \o PerBin("copy") \o Step("config")
    [] name = "all, skip build" ->
         Step("check") \o Step("test") \o PerBin("copy") \o Step("config")
    [] name = "init" -> Step("init")
    [] name = "init --force" -> Step("open")

XtaskCommands ==
  {"check", "build", "test", "install", "config", "uninstall", "all", "all, skip build"}

StartCommand(s, name) ==
  /\ steps[s] = <<>>
  /\ name \in IF s = "xtask" THEN XtaskCommands ELSE {"init", "init --force"}
  /\ steps' = [steps EXCEPT ![s] = Steps(name)]
  /\ run' = [run EXCEPT ![s] = [name |-> name, found |-> configFile]]
  /\ ended' = IF s = "xtask" THEN "running" ELSE ended
  /\ UNCHANGED <<source, built, binaries, configFile, opened, drawn>>

Doing(s, do) == steps[s] # <<>> /\ Head(steps[s]).do = do
ThisBin(s) == Head(steps[s]).bin

(* The step is done; these are the next ones.                              *)
Continue(s, more) ==
  /\ steps' = [steps EXCEPT ![s] = more \o Tail(@)]
  /\ ended' = IF s = "xtask" /\ more \o Tail(steps[s]) = <<>> THEN run[s].name ELSE ended
  /\ UNCHANGED run

Fail(s) ==
  /\ steps' = [steps EXCEPT ![s] = <<>>]
  /\ ended' = IF s = "xtask" THEN "failed" ELSE ended
  /\ UNCHANGED run

-----------------------------------------------------------------------------
(* The steps.                                                              *)

(* check and test change nothing.                                          *)
Look(s, do) ==
  /\ Doing(s, do)
  /\ Continue(s, <<>>) \/ Fail(s)
  /\ UNCHANGED <<source, built, binaries, configFile, opened, drawn>>

Check(s) == Look(s, "check")
Test(s) == Look(s, "test")

(* Faulty: the exit status of cargo is not looked at.                      *)
AfterBuildAnyway(s, ok) == Continue(s, <<>>)

AfterBuild(s, ok) == IF ok THEN Continue(s, <<>>) ELSE Fail(s)

(* A build that fails may have made some of the binaries anew.             *)
Build(s) ==
  /\ Doing(s, "build")
  /\ \E new \in SUBSET Bin :
       /\ built' = [b \in Bin |-> IF b \in new THEN source ELSE built[b]]
       /\ AfterBuild(s, new = Bin)
  /\ UNCHANGED <<source, binaries, configFile, opened, drawn>>

(* A binary that runs cannot be written to: this and every other failure   *)
(* to copy, but the one that leaves half of it, is Stopped.                *)
Copy(s) ==
  /\ Doing(s, "copy")
  /\ IF built[ThisBin(s)] = Missing THEN Fail(s) /\ UNCHANGED binaries
     ELSE /\ binaries' = [binaries EXCEPT ![ThisBin(s)] = built[ThisBin(s)]]
          /\ Continue(s, <<>>)
  /\ UNCHANGED <<source, built, configFile, opened, drawn>>

RemoveBin(s) ==
  /\ Doing(s, "remove")
  /\ binaries' = [binaries EXCEPT ![ThisBin(s)] = Missing]
  /\ Continue(s, <<>>)
  /\ UNCHANGED <<source, built, configFile, opened, drawn>>

(* Who has the file open goes on writing to one that is gone.              *)
RemoveConfig(s) ==
  /\ Doing(s, "removeConfig")
  /\ configFile' = Missing
  /\ opened' = {}
  /\ Continue(s, <<>>)
  /\ UNCHANGED <<source, built, binaries, drawn>>

(* A configuration that is there is kept, whole or not; otherwise the      *)
(* installed `hydra` is asked for one, or the built one.                   *)
Config(s) ==
  /\ Doing(s, "config")
  /\ LET program == IF binaries[Hydra] # Missing THEN binaries[Hydra] ELSE built[Hydra]
     IN  IF configFile # Missing THEN Continue(s, <<>>)
         ELSE IF program \in {Missing, Partial} THEN Fail(s)
         ELSE Continue(s, Step("init"))
  /\ UNCHANGED <<source, built, binaries, configFile, opened, drawn>>

(* Faulty: a whole file is taken for one of its own.                       *)
RefusesPartialOnly(file) == file = Partial

Refuses(file) == file # Missing

(* The check of `hydra init`; with --force it is passed.                   *)
InitChecks(s) ==
  /\ Doing(s, "init")
  /\ IF Refuses(configFile) THEN Fail(s) ELSE Continue(s, Step("open"))
  /\ UNCHANGED <<source, built, binaries, configFile, opened, drawn>>

(* render_config draws new secrets and a new key pair.                     *)
RenderConfig == drawn + 1

(* fs::write makes the file, or empties the one that is there, ...         *)
OpenConfig(s) ==
  /\ Doing(s, "open")
  /\ configFile' = Emptied
  /\ opened' = opened \cup {s}
  /\ Continue(s, Step("write"))
  /\ UNCHANGED <<source, built, binaries, drawn>>

(* ... and fills it.  The other shell may have written to it meanwhile: a  *)
(* shorter text leaves the end of a longer one.                            *)
WriteConfig(s) ==
  /\ Doing(s, "write") /\ drawn < MaxConfig
  /\ drawn' = RenderConfig
  /\ configFile' \in IF s \notin opened THEN {configFile}
                     ELSE IF configFile = Emptied THEN {drawn'} ELSE {drawn', Partial}
  /\ opened' = opened \ {s}
  /\ Continue(s, <<>>)
  /\ UNCHANGED <<source, built, binaries>>

(* The step fails or the command is killed, perhaps half way through a     *)
(* file.                                                                   *)
Stopped(s) ==
  /\ steps[s] # <<>>
  /\ \/ UNCHANGED <<binaries, configFile>>
     \/ /\ Doing(s, "copy") /\ built[ThisBin(s)] # Missing
        /\ binaries' = [binaries EXCEPT ![ThisBin(s)] = Partial]
        /\ UNCHANGED configFile
     \/ /\ Doing(s, "write") /\ s \in opened
        /\ configFile' = Partial
        /\ UNCHANGED binaries
  /\ opened' = opened \ {s}
  /\ Fail(s)
  /\ UNCHANGED <<source, built, drawn>>

(* The operator fetches another version.                                   *)
Fetch ==
  /\ source < MaxVersion
  /\ source' = source + 1
  /\ UNCHANGED <<built, binaries, configFile, opened, drawn, steps, run, ended>>

InstallerNext ==
  \/ \E s \in Shells, name \in XtaskCommands \cup {"init", "init --force"} : StartCommand(s, name)
  \/ \E s \in Shells :
       \/ Check(s) \/ Build(s) \/ Test(s) \/ Copy(s) \/ RemoveBin(s) \/ RemoveConfig(s)
       \/ Config(s) \/ InitChecks(s) \/ OpenConfig(s) \/ WriteConfig(s) \/ Stopped(s)
  \/ Fetch

InstallerSpec == InstallerInit /\ [][InstallerNext]_installerVars

-----------------------------------------------------------------------------
(* Properties.                                                             *)

(* `xtask all` that built and said "installed" leaves binaries of one and  *)
(* the same build, none half written, whatever failed before it, and a     *)
(* configuration.                                                          *)
AllInstallsOneBuild ==
  ended = "all" =>
    /\ configFile # Missing
    /\ \E v \in 1..source : \A b \in Bin : binaries[b] = v

(* The keys of a deployment are not lost: `xtask config`, `xtask all` and  *)
(* `hydra init` replace no configuration that was there when they began,   *)
(* whatever the other shell does at the same time.  (One that appeared     *)
(* between their check and their write they do replace.)                   *)
ConfigKept ==
  [][ \A s \in Shells :
        /\ steps'[s] # steps[s]
        /\ configFile > 0 /\ configFile' \notin {configFile, Missing}
        => run[s].name = "init --force" \/ run[s].found # configFile ]_installerVars
=============================================================================
