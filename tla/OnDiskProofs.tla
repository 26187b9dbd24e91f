----------------------------- MODULE OnDiskProofs -----------------------------
(* What holds of the parts that keep their state on disk: the certificate, *)
(* the timer and the service, the binaries and hydra.toml.                 *)
EXTENDS TlsMaterial, ServiceUnits, Installer, FiniteSetTheorems, SequenceTheorems, TLAPS

(***************************************************************************)
(* The certificate (TlsMaterial).                                          *)
(***************************************************************************)
(* Nothing is written any more once a pin is out, and from the moment the  *)
(* certificate is written or loaded the material is what the files hold.   *)
StableInv(q) ==
  /\ printed # {} => printed = {cert} /\ BothExist
  /\ pc[q] \in Writing => printed = {} /\ mat[q].cert # Absent /\ mat[q].key # Absent
  /\ pc[q] \in {"create_key", "write_key", "load_key"} => cert = mat[q].cert
  /\ pc[q] \in {"load_key", "print", "serve", "serving"} => BothExist
  /\ pc[q] \in {"print", "serve", "serving"} => cert = mat[q].cert /\ key = mat[q].key
  /\ pc[q] \in {"serve", "serving"} => printed = {cert}

(* A generated pair has an identity and is there.                          *)
LEMMA PairContent ==
  ASSUME NEW i \in Nat, i < MaxId
  PROVE  /\ Pair(i + 1) \in [cert : Content, key : Content]
         /\ Pair(i + 1).cert # Absent /\ Pair(i + 1).key # Absent
         /\ Pair(i + 1).cert.id \in Id /\ Pair(i + 1).key.id \in Id
<1>1. i + 1 \in Id
  BY TlsAssumption DEF Id
<1>2. Whole(i + 1) \in Content /\ Whole(i + 1) # Absent
  BY <1>1 DEF Content, Whole, Absent
<1>3. Whole(i + 1).id \in Id
  BY <1>1 DEF Whole
<1> QED
  BY <1>2, <1>3 DEF Pair

LEMMA StableInvStep ==
  ASSUME NEW q, Proc = {q}, TypeOK, StableInv(q), [Next]_vars
  PROVE  StableInv(q)'
<1>0. /\ q \in Proc
      /\ pc \in [Proc -> Down \cup Writing \cup {"check", "load_key", "print", "serve", "serving"}]
      /\ mat \in [Proc -> [cert : Content, key : Content]]
  BY Proc = {q} DEF TypeOK
<1> USE <1>0 DEF StableInv, BothExist, files
<1>1. CASE Start(q)
  BY <1>1 DEF Start, Down, Writing
<1>2. CASE Generate(q)
  <2>1. /\ Pair(ids + 1) \in [cert : Content, key : Content]
        /\ Pair(ids + 1).cert # Absent /\ Pair(ids + 1).key # Absent
    BY <1>2, PairContent, TlsAssumption DEF Generate, TypeOK
  <2> QED
    BY <1>2, <2>1 DEF Generate, Writing, AfterGenerate
<1>3. CASE LoadCert(q)
  BY <1>3 DEF LoadCert, Writing, TypeOK
<1>4. CASE LoadKey(q)
  BY <1>4 DEF LoadKey, Writing, TypeOK
<1>5. CASE CreateCert(q)
  BY <1>5 DEF CreateCert, Writing
<1>6. CASE WriteCert(q)
  BY <1>6 DEF WriteCert, Writing
<1>7. CASE CreateKey(q)
  BY <1>7 DEF CreateKey, Writing
<1>8. CASE WriteKey(q)
  BY <1>8 DEF WriteKey, Writing
<1>9. CASE PrintPin(q)
  BY <1>9 DEF PrintPin, Writing
<1>10. CASE Serve(q)
  BY <1>10 DEF Serve, Writing
<1>11. ASSUME NEW how \in Down, Interrupted(q, how)
       PROVE  StableInv(q)'
  <2>1. pc'[q] = how /\ mat' = mat /\ printed' = printed
    BY <1>11 DEF Interrupted, Down
  <2>2. pc'[q] \notin Writing \cup {"load_key", "print", "serve", "serving"}
    BY <2>1 DEF Writing, Down
  <2>3. printed' # {} => cert' = cert /\ key' = key
    BY <1>11 DEF Interrupted, Writing
  <2>4. printed' # {} => printed' = {cert'} /\ BothExist'
    BY <2>1, <2>3
  <2> QED
    BY <2>1, <2>2, <2>4 DEF Writing
<1>12. CASE WriteFails(q)
  BY <1>11, <1>12 DEF WriteFails, Down
<1>13. CASE Crash(q)
  BY <1>11, <1>13 DEF Crash, Down
<1>14. CASE UNCHANGED vars
  BY <1>14 DEF vars
<1> QED
  BY <1>1, <1>2, <1>3, <1>4, <1>5, <1>6, <1>7, <1>8, <1>9, <1>10, <1>12, <1>13, <1>14,
     Proc = {q} DEF Next

-----------------------------------------------------------------------------
(* Every variable has its type, with any number of processes.              *)
THEOREM TlsTypeCorrect == Spec => []TypeOK
<1>1. Init => TypeOK
  BY TlsAssumption DEF Init, TypeOK, NoMaterial, Content, Down, Writing
<1>2. TypeOK /\ [Next]_vars => TypeOK'
  <2> SUFFICES ASSUME TypeOK, [Next]_vars PROVE TypeOK'
    OBVIOUS
  <2> USE TlsAssumption DEF TypeOK, files
  <2>1. Empty \in Content
    BY DEF Content
  <2>2. ASSUME NEW p \in Proc, Generate(p) PROVE TypeOK'
    <3>1. /\ Pair(ids + 1) \in [cert : Content, key : Content]
          /\ Pair(ids + 1).cert.id \in Id /\ Pair(ids + 1).key.id \in Id
      BY <2>2, PairContent DEF Generate
    <3> QED
      BY <2>2, <3>1 DEF Generate, AfterGenerate, Writing
  <2>3. ASSUME NEW p \in Proc, NEW how \in Down, Interrupted(p, how) PROVE TypeOK'
    <3>1. ASSUME NEW c \in Content, c.id \in Id PROVE Shortened(c) \subseteq Content
      BY <2>1, <3>1 DEF Shortened, Content
    <3>2. cert' \in Content
      BY <2>3, <3>1 DEF Interrupted, Writing
    <3>3. key' \in Content
      BY <2>3, <3>1 DEF Interrupted, Writing
    <3>4. /\ pc' \in [Proc -> Down \cup Writing \cup {"check", "load_key", "print", "serve", "serving"}]
          /\ \A r \in Proc : pc'[r] \in Writing => pc'[r] = pc[r]
      BY <2>3 DEF Interrupted, Down, Writing
    <3> QED
      BY <2>3, <3>2, <3>3, <3>4 DEF Interrupted
  <2>4. ASSUME NEW p \in Proc, \/ Start(p) \/ LoadCert(p) \/ LoadKey(p)
        PROVE  TypeOK'
    BY <2>4 DEF Start, LoadCert, LoadKey, Down, Writing
  <2>5. ASSUME NEW p \in Proc, \/ CreateCert(p) \/ WriteCert(p) \/ CreateKey(p) \/ WriteKey(p)
        PROVE  TypeOK'
    BY <2>1, <2>5 DEF CreateCert, WriteCert, CreateKey, WriteKey, Writing
  <2>6. ASSUME NEW p \in Proc, PrintPin(p) \/ Serve(p) PROVE TypeOK'
    BY <2>6 DEF PrintPin, Serve, Down, Writing
  <2>7. CASE UNCHANGED vars
    BY <2>7 DEF vars
  <2> QED
    BY <2>2, <2>3, <2>4, <2>5, <2>6, <2>7 DEF Next, WriteFails, Crash, Down
<1> QED
  BY <1>1, <1>2, PTL DEF Spec

LEMMA StableInvariant ==
  ASSUME NEW q, Proc = {q}
  PROVE  Spec => [](TypeOK /\ StableInv(q))
<1>1. Init => StableInv(q)
  BY Proc = {q} DEF Init, StableInv, Writing
<1>2. TypeOK /\ StableInv(q) /\ [Next]_vars => StableInv(q)'
  BY StableInvStep, Proc = {q}
<1> QED
  BY <1>1, <1>2, TlsTypeCorrect, PTL DEF Spec

(* One process at a time never prints a second pin, wherever its runs die. *)
THEOREM OnePin ==
  ASSUME NEW q, Proc = {q}
  PROVE  Spec => []PinStable
<1>1. StableInv(q) => PinStable
  <2>1. printed = {} => Cardinality(printed) <= 1
    BY FS_EmptySet
  <2>2. printed = {cert} => Cardinality(printed) <= 1
    BY FS_Singleton
  <2> QED
    BY <2>1, <2>2 DEF StableInv, PinStable
<1> QED
  BY <1>1, StableInvariant, Proc = {q}, PTL

(* It serves the certificate of that pin, and its files hold the pair.     *)
THEOREM ServesThatPin ==
  ASSUME NEW q, Proc = {q}
  PROVE  Spec => []ServesWhatItPrinted
<1>1. StableInv(q) => ServesWhatItPrinted
  BY Proc = {q} DEF StableInv, ServesWhatItPrinted
<1> QED
  BY <1>1, StableInvariant, Proc = {q}, PTL

(***************************************************************************)
(* The service and its timer (ServiceUnits).                               *)
(***************************************************************************)
Svc == "service"
Tmr == "timer"
Texts == Roles \X Specs
UnitContent == {NoFile, HalfWritten} \cup Texts
Ends == {"installed", "removed", "stopped", "busy"}
Commands == [verb : {"install", "uninstall"}, role : Roles, spec : Specs]

UnitsTyped ==
  /\ disk \in [Files -> UnitContent] /\ loaded \in [Files -> UnitContent]
  /\ enabled \subseteq Files
  /\ active \in [Files -> UnitContent \cup {NotRunning}]
  /\ done \in Ends
  /\ past \in [roles : SUBSET Roles, unlucky : BOOLEAN]
  /\ done # "stopped" => command \in Commands
  /\ (todo = <<>>) <=> (done # "busy")

(* The text of the last command's units.                                   *)
FreshFile(f) == disk[f] = Text(command)
ReadFile(f) == loaded[f] = Text(command)

(* What is left of a program, from each of its steps.                      *)
ClientAt == [ write  |-> <<Write(Svc), DaemonReload, EnableNow(Svc)>>,
              reload |-> <<DaemonReload, EnableNow(Svc)>>,
              enable |-> <<EnableNow(Svc)>> ]
ServerAt == [ write  |-> <<Write(Svc), Write(Tmr), DaemonReload, EnableNow(Tmr)>>,
              timer  |-> <<Write(Tmr), DaemonReload, EnableNow(Tmr)>>,
              reload |-> <<DaemonReload, EnableNow(Tmr)>>,
              enable |-> <<EnableNow(Tmr)>> ]
RemovalAt(r) == [ disable |-> <<DisableNow(UnitOf(r)), Remove(Svc), Remove(Tmr), DaemonReload>>,
                  service |-> <<Remove(Svc), Remove(Tmr), DaemonReload>>,
                  timer   |-> <<Remove(Tmr), DaemonReload>>,
                  reload  |-> <<DaemonReload>> ]

(* Where an installation stands, and what it has done by then.             *)
ClientInstallInv ==
  \/ todo = ClientAt.write
  \/ todo = ClientAt.reload /\ FreshFile(Svc)
  \/ todo = ClientAt.enable /\ FreshFile(Svc) /\ ReadFile(Svc)

ServerInstallInv ==
  \/ todo = ServerAt.write
  \/ todo = ServerAt.timer /\ FreshFile(Svc)
  \/ todo = ServerAt.reload /\ FreshFile(Svc) /\ FreshFile(Tmr)
  \/ todo = ServerAt.enable /\ FreshFile(Svc) /\ FreshFile(Tmr) /\ ReadFile(Svc) /\ ReadFile(Tmr)

InstallInv ==
  /\ done = "busy" /\ command.verb = "install" =>
       IF command.role = "client" THEN ClientInstallInv ELSE ServerInstallInv
  /\ done = "installed" =>
       /\ command.verb = "install"
       /\ FreshFile(Svc) /\ ReadFile(Svc)
       /\ command.role = "server" => FreshFile(Tmr) /\ ReadFile(Tmr)
       /\ UnitOf(command.role) \in enabled

(* While one role only was given commands, and no failure was ignored.     *)
Quiet == enabled = {} /\ active[Svc] = NotRunning /\ active[Tmr] = NotRunning

OneRole(r) ==
  /\ \A f \in Files : IsText(disk[f]) => disk[f][1] = r
  /\ disk[UnitOf(r)] = NoFile => UnitOf(r) \notin enabled /\ active[UnitOf(r)] = NotRunning
  /\ enabled \subseteq {UnitOf(r)}
  /\ r = "client" => disk[Tmr] = NoFile /\ active[Tmr] = NotRunning
  /\ r = "server" => /\ active[Svc] = NotRunning
                     /\ active[Tmr] # NotRunning /\ IsText(loaded[Svc]) => loaded[Svc][1] # "client"

UninstallInv ==
  /\ done = "busy" /\ command.verb = "uninstall" =>
       LET at == RemovalAt(command.role)
       IN  todo \in {at.disable, at.service, at.timer, at.reload}
  /\ done = "removed" => command.verb = "uninstall"

Removing(r) ==
  /\ OneRole(r)
  /\ done = "busy" /\ command.verb = "uninstall" =>
       \/ todo = RemovalAt(r).disable
       \/ todo = RemovalAt(r).service /\ Quiet
       \/ todo = RemovalAt(r).timer /\ Quiet /\ disk[Svc] = NoFile
       \/ todo = RemovalAt(r).reload /\ Quiet /\ disk = Nowhere
  /\ done = "removed" => Quiet /\ disk = Nowhere

RemovalInv ==
  \A r \in Roles : past.roles \subseteq {r} /\ ~past.unlucky => Removing(r)

RoleInv == done # "stopped" => command.role \in past.roles

ServiceInv == UnitsTyped /\ InstallInv /\ UninstallInv /\ RemovalInv /\ RoleInv

LEMMA Kinds ==
  /\ \A c \in Texts : IsText(c) /\ c[1] \in Roles
  /\ ~IsText(NoFile) /\ ~IsText(HalfWritten) /\ ~IsText(NotRunning)
  /\ NoFile # HalfWritten /\ NoFile # NotRunning /\ HalfWritten # NotRunning
  /\ \A c \in UnitContent \cup {NotRunning} : IsText(c) => c \in Texts
  BY DEF Texts, UnitContent, IsText, NoFile, HalfWritten, NotRunning, Roles

LEMMA OneAndTwo ==
  ASSUME NEW a, NEW b, NEW c
  PROVE  <<a>> \o <<b, c>> = <<a, b, c>>
<1> DEFINE X == {a, b, c}
           u == <<a>>
           v == <<b, c>>
           w == <<a, b, c>>
<1>1. /\ u \in Seq(X) /\ Len(u) = 1 /\ u[1] = a
      /\ v \in Seq(X) /\ Len(v) = 2 /\ v[1] = b /\ v[2] = c
      /\ w \in Seq(X) /\ Len(w) = 3 /\ w[1] = a /\ w[2] = b /\ w[3] = c
  OBVIOUS
<1> HIDE DEF X, u, v, w
<1>2. /\ u \o v \in Seq(X) /\ Len(u \o v) = Len(u) + Len(v)
      /\ \A i \in 1..Len(u) + Len(v) : (u \o v)[i] = IF i <= Len(u) THEN u[i] ELSE v[i - Len(u)]
  BY <1>1, ConcatProperties
<1>3. Len(u) + Len(v) = 3
  BY <1>1
<1>4. (u \o v)[1] = a /\ (u \o v)[2] = b /\ (u \o v)[3] = c
  BY <1>1, <1>2, <1>3
<1>5. u \o v = w
  BY <1>1, <1>2, <1>3, <1>4, SeqEqual
<1> QED
  BY <1>5 DEF u, v, w

LEMMA TwoAndTwo ==
  ASSUME NEW a, NEW b, NEW c, NEW d
  PROVE  <<a, b>> \o <<c, d>> = <<a, b, c, d>>
<1> DEFINE X == {a, b, c, d}
           u == <<a, b>>
           v == <<c, d>>
           w == <<a, b, c, d>>
<1>1. /\ u \in Seq(X) /\ Len(u) = 2 /\ u[1] = a /\ u[2] = b
      /\ v \in Seq(X) /\ Len(v) = 2 /\ v[1] = c /\ v[2] = d
      /\ w \in Seq(X) /\ Len(w) = 4 /\ w[1] = a /\ w[2] = b /\ w[3] = c /\ w[4] = d
  OBVIOUS
<1> HIDE DEF X, u, v, w
<1>2. /\ u \o v \in Seq(X) /\ Len(u \o v) = Len(u) + Len(v)
      /\ \A i \in 1..Len(u) + Len(v) : (u \o v)[i] = IF i <= Len(u) THEN u[i] ELSE v[i - Len(u)]
  BY <1>1, ConcatProperties
<1>3. Len(u) + Len(v) = 4
  BY <1>1
<1>4. (u \o v)[1] = a /\ (u \o v)[2] = b /\ (u \o v)[3] = c /\ (u \o v)[4] = d
  BY <1>1, <1>2, <1>3
<1>5. u \o v = w
  BY <1>1, <1>2, <1>3, <1>4, SeqEqual
<1> QED
  BY <1>5 DEF u, v, w

(* Each command starts at the first place of its program.                  *)
LEMMA UnitPrograms ==
  /\ Install("client") = ClientAt.write
  /\ Install("server") = ServerAt.write
  /\ \A r \in Roles : Uninstall(r) = RemovalAt(r).disable
<1>1. Writes("client") = <<Write(Svc)>> /\ Writes("server") = <<Write(Svc), Write(Tmr)>>
  BY DEF Writes, FilesOf, Svc, Tmr
<1>2. UnitOf("client") = Svc /\ UnitOf("server") = Tmr
  BY DEF UnitOf, Svc, Tmr
<1>3. Install("client") = <<Write(Svc)>> \o <<DaemonReload, EnableNow(Svc)>>
  BY <1>1, <1>2 DEF Install
<1>4. Install("server") = <<Write(Svc), Write(Tmr)>> \o <<DaemonReload, EnableNow(Tmr)>>
  BY <1>1, <1>2 DEF Install
<1>5. <<Write(Svc)>> \o <<DaemonReload, EnableNow(Svc)>> = ClientAt.write
  BY OneAndTwo DEF ClientAt
<1>6. <<Write(Svc), Write(Tmr)>> \o <<DaemonReload, EnableNow(Tmr)>> = ServerAt.write
  BY TwoAndTwo DEF ServerAt
<1> QED
  BY <1>3, <1>4, <1>5, <1>6 DEF Uninstall, RemovalAt, Svc, Tmr

(* At place p the step `do' of file f is next, and then place q.           *)
Next3(p, do, f, q) == p # <<>> /\ Head(p).do = do /\ Head(p).file = f /\ Tail(p) = q
Next2(p, do, q) == p # <<>> /\ Head(p).do = do /\ Tail(p) = q

LEMMA ClientPlaces ==
  /\ Next3(ClientAt.write, "write", Svc, ClientAt.reload)
  /\ Next2(ClientAt.reload, "reload", ClientAt.enable)
  /\ Next3(ClientAt.enable, "enable", Svc, <<>>)
  BY DEF ClientAt, Next2, Next3, Write, DaemonReload, EnableNow

LEMMA ServerPlaces ==
  /\ Next3(ServerAt.write, "write", Svc, ServerAt.timer)
  /\ Next3(ServerAt.timer, "write", Tmr, ServerAt.reload)
  /\ Next2(ServerAt.reload, "reload", ServerAt.enable)
  /\ Next3(ServerAt.enable, "enable", Tmr, <<>>)
  BY DEF ServerAt, Next2, Next3, Write, DaemonReload, EnableNow

LEMMA RemovalPlaces ==
  ASSUME NEW r
  PROVE  /\ Next3(RemovalAt(r).disable, "disable", UnitOf(r), RemovalAt(r).service)
         /\ Next3(RemovalAt(r).service, "remove", Svc, RemovalAt(r).timer)
         /\ Next3(RemovalAt(r).timer, "remove", Tmr, RemovalAt(r).reload)
         /\ Next2(RemovalAt(r).reload, "reload", <<>>)
  BY DEF RemovalAt, Next2, Next3, Remove, DaemonReload, DisableNow

(* The names, spelt out.                                                   *)
LEMMA UnitsOfRoles ==
  /\ Svc # Tmr /\ Files = {Svc, Tmr} /\ Roles = {"client", "server"}
  /\ UnitOf("client") = Svc /\ UnitOf("server") = Tmr
  BY DEF Svc, Tmr, Files, Roles, UnitOf

(* The step that is next is the one its place says.                        *)
LEMMA NextFile ==
  ASSUME UnitsTyped, InstallInv, UninstallInv, todo # <<>>,
         NEW d \in {"write", "remove", "enable", "disable"}, At(d)
  PROVE  File \in Files
<1>1. done = "busy" /\ command \in Commands
  BY DEF UnitsTyped, Ends
<1>2. CASE command.verb = "install" /\ command.role = "client"
  BY <1>1, <1>2, ClientPlaces, UnitsOfRoles
     DEF InstallInv, ClientInstallInv, At, File, Next2, Next3
<1>3. CASE command.verb = "install" /\ command.role = "server"
  BY <1>1, <1>3, ServerPlaces, UnitsOfRoles
     DEF InstallInv, ServerInstallInv, At, File, Next2, Next3
<1>4. CASE command.verb = "uninstall"
  <2>1. UnitOf(command.role) \in Files
    BY <1>1, UnitsOfRoles DEF Commands
  <2> QED
    BY <1>1, <1>4, <2>1, RemovalPlaces, UnitsOfRoles
       DEF UninstallInv, At, File, Next2, Next3
<1> QED
  BY <1>1, <1>2, <1>3, <1>4 DEF Commands, Roles

LEMMA UnitsTypedStep ==
  ASSUME UnitsTyped, InstallInv, UninstallInv, [ServiceNext]_serviceVars
  PROVE  UnitsTyped'
<1> USE DEF UnitsTyped
<1>0. Text(command) \in UnitContent \/ done = "stopped"
  BY DEF Commands, Text, UnitContent, Texts
<1>1. ASSUME NEW verb \in {"install", "uninstall"}, NEW role \in Roles, NEW spec \in Specs,
             Begin(verb, role, spec)
      PROVE  UnitsTyped'
  <2>1. command' \in Commands /\ done' \in Ends /\ done' = "busy"
    BY <1>1 DEF Begin, Commands, Ends
  <2>2. todo' # <<>>
    <3>1. Install(role) # <<>>
      BY UnitPrograms, ClientPlaces, ServerPlaces DEF Roles, Next2, Next3
    <3>2. Uninstall(role) # <<>>
      BY UnitPrograms, RemovalPlaces DEF Next2, Next3
    <3> QED
      BY <1>1, <3>1, <3>2 DEF Begin
  <2>3. past' \in [roles : SUBSET Roles, unlucky : BOOLEAN]
    BY <1>1 DEF Begin, NoPast
  <2> QED
    BY <1>1, <2>1, <2>2, <2>3 DEF Begin
<1>2. ASSUME Go PROVE /\ done' \in Ends /\ (todo' = <<>>) <=> (done' # "busy")
                      /\ command' = command /\ (done' # "stopped" => command' \in Commands \/ todo = <<>>)
  BY <1>2 DEF Go, Ends
<1>3. CASE WriteUnit
  <2>1. todo # <<>> /\ done # "stopped"
    BY <1>3 DEF WriteUnit, At
  <2>2. File \in Files
    BY <1>3, <2>1, NextFile DEF WriteUnit
  <2>3. disk' \in [Files -> UnitContent]
    BY <1>3, <1>0, <2>1, <2>2 DEF WriteUnit
  <2> QED
    BY <1>2, <1>3, <2>1, <2>3 DEF WriteUnit
<1>4. CASE RemoveUnit
  <2>1. todo # <<>> /\ disk' \in [Files -> UnitContent]
    BY <1>4 DEF RemoveUnit, At, UnitContent
  <2> QED
    BY <1>2, <1>4, <2>1 DEF RemoveUnit
<1>5. CASE Reload
  <2>1. todo # <<>>
    BY <1>5 DEF Reload, At
  <2> QED
    BY <1>2, <1>5, <2>1 DEF Reload
<1>6. CASE Enable
  <2>1. todo # <<>>
    BY <1>6 DEF Enable, At
  <2>2. File \in Files
    BY <1>6, <2>1, NextFile DEF Enable
  <2>3. enabled' \subseteq Files /\ active' \in [Files -> UnitContent \cup {NotRunning}]
    BY <1>6, <2>2 DEF Enable
  <2> QED
    BY <1>2, <1>6, <2>1, <2>3 DEF Enable
<1>7. CASE Disable
  <2>1. todo # <<>>
    BY <1>7 DEF Disable, At
  <2>2. enabled' \subseteq Files /\ active' \in [Files -> UnitContent \cup {NotRunning}]
    BY <1>7 DEF Disable
  <2> QED
    BY <1>2, <1>7, <2>1, <2>2 DEF Disable
<1>8. CASE NothingThere
  <2>1. todo # <<>>
    BY <1>8 DEF NothingThere, At
  <2> QED
    BY <1>2, <1>8, <2>1 DEF NothingThere
<1>9. CASE FailureIgnored
  <2>1. todo # <<>> /\ past' \in [roles : SUBSET Roles, unlucky : BOOLEAN]
    BY <1>9 DEF FailureIgnored, At
  <2> QED
    BY <1>2, <1>9, <2>1 DEF FailureIgnored
<1>10. disk' \in Cut => disk' \in [Files -> UnitContent]
  BY DEF Cut, UnitContent
<1>11. CASE Stop
  <2>1. enabled' \subseteq Files
    BY <1>11, NextFile DEF Stop
  <2> QED
    BY <1>10, <1>11, <2>1 DEF Stop, Ends
<1>12. CASE ServiceEnds
  <2>1. active' \in [Files -> UnitContent \cup {NotRunning}]
    BY <1>12, UnitsOfRoles DEF ServiceEnds, Svc
  <2> QED
    BY <1>12, <2>1 DEF ServiceEnds
<1>13. CASE TimerFires
  <2>1. active' \in [Files -> UnitContent \cup {NotRunning}]
    BY <1>13, UnitsOfRoles DEF TimerFires, Svc
  <2> QED
    BY <1>13, <2>1 DEF TimerFires
<1>14. CASE Reboot
  <2>1. disk' \in [Files -> UnitContent]
    BY <1>10, <1>14 DEF Reboot
  <2>2. active' \in [Files -> UnitContent \cup {NotRunning}]
    BY <1>14, <2>1 DEF Reboot
  <2>3. done' \in Ends /\ (todo' = <<>>) <=> (done' # "busy")
    BY <1>14 DEF Reboot, Ends
  <2>4. done' # "stopped" => command' \in Commands
    BY <1>14 DEF Reboot
  <2> QED
    BY <1>14, <2>1, <2>2, <2>3, <2>4 DEF Reboot
<1>15. CASE UNCHANGED serviceVars
  BY <1>15 DEF serviceVars
<1> QED
  BY <1>1, <1>3, <1>4, <1>5, <1>6, <1>7, <1>8, <1>9, <1>11, <1>12, <1>13, <1>14, <1>15
     DEF ServiceNext

(* An installation takes its own steps only; what it has written stays.    *)
LEMMA InstallStep ==
  ASSUME UnitsTyped, InstallInv, UninstallInv, [ServiceNext]_serviceVars
  PROVE  InstallInv'
<1> DEFINE client == command.verb = "install" /\ command.role = "client"
           server == command.verb = "install" /\ command.role = "server"
           removal == command.verb = "uninstall"
<1>0. /\ done # "stopped" => command.verb \in {"install", "uninstall"} /\ command.role \in Roles
      /\ todo = <<>> <=> done # "busy"
      /\ done \in Ends
      /\ Svc \in DOMAIN disk /\ Tmr \in DOMAIN disk /\ Svc \in DOMAIN loaded /\ Tmr \in DOMAIN loaded
  BY UnitsOfRoles DEF UnitsTyped, Commands
<1>a. todo # <<>> => client \/ server \/ removal
  BY <1>0 DEF Roles, Ends
(* The places of the program that is running.                              *)
<1>b. ASSUME todo # <<>>, client
      PROVE  /\ done = "busy"
             /\ \/ todo = ClientAt.write /\ At("write") /\ File = Svc /\ Tail(todo) = ClientAt.reload
                \/ todo = ClientAt.reload /\ At("reload") /\ Tail(todo) = ClientAt.enable /\ FreshFile(Svc)
                \/ todo = ClientAt.enable /\ At("enable") /\ File = Svc /\ Tail(todo) = <<>>
                     /\ FreshFile(Svc) /\ ReadFile(Svc)
  BY <1>0, <1>b, ClientPlaces DEF InstallInv, ClientInstallInv, At, File, Next2, Next3, Ends
<1>c. ASSUME todo # <<>>, server
      PROVE  /\ done = "busy"
             /\ \/ todo = ServerAt.write /\ At("write") /\ File = Svc /\ Tail(todo) = ServerAt.timer
                \/ todo = ServerAt.timer /\ At("write") /\ File = Tmr /\ Tail(todo) = ServerAt.reload
                     /\ FreshFile(Svc)
                \/ todo = ServerAt.reload /\ At("reload") /\ Tail(todo) = ServerAt.enable
                     /\ FreshFile(Svc) /\ FreshFile(Tmr)
                \/ todo = ServerAt.enable /\ At("enable") /\ File = Tmr /\ Tail(todo) = <<>>
                     /\ FreshFile(Svc) /\ FreshFile(Tmr) /\ ReadFile(Svc) /\ ReadFile(Tmr)
  BY <1>0, <1>c, ServerPlaces DEF InstallInv, ServerInstallInv, At, File, Next2, Next3, Ends
<1>d. \A d, e : At(d) /\ At(e) => d = e
  BY DEF At
<1>1. ASSUME NEW verb \in {"install", "uninstall"}, NEW role \in Roles, NEW spec \in Specs,
             Begin(verb, role, spec)
      PROVE  InstallInv'
  BY <1>1, UnitPrograms DEF Begin, InstallInv, ClientInstallInv, ServerInstallInv, Roles
<1>2. CASE WriteUnit
  <2>1. At("write") /\ todo # <<>> /\ command' = command /\ loaded' = loaded
        /\ disk' = [disk EXCEPT ![File] = Text(command)] /\ todo' = Tail(todo)
        /\ (Tail(todo) # <<>> => done' = "busy")
        /\ (done' = "installed" => command.verb = "install" /\ Tail(todo) = <<>>)
    BY <1>2 DEF WriteUnit, At, Go
  <2>2. CASE client
    <3>1. todo' = ClientAt.reload /\ FreshFile(Svc)'
      BY <1>0, <1>b, <1>d, <2>1, <2>2 DEF FreshFile, Text
    <3> QED
      BY <2>1, <2>2, <3>1, ClientPlaces DEF InstallInv, ClientInstallInv, Next2
  <2>3. CASE server
    <3>1. \/ todo' = ServerAt.timer /\ FreshFile(Svc)'
          \/ todo' = ServerAt.reload /\ FreshFile(Svc)' /\ FreshFile(Tmr)'
      BY <1>0, <1>c, <1>d, <2>1, <2>3 DEF FreshFile, Text
    <3> QED
      BY <2>1, <2>3, <3>1, ServerPlaces DEF InstallInv, ServerInstallInv, Next2, Next3
  <2>4. CASE removal
    BY <2>1, <2>4 DEF InstallInv
  <2> QED
    BY <1>a, <2>1, <2>2, <2>3, <2>4
<1>3. ASSUME command' = command, Go, ~At("write"), ~At("reload"), ~At("enable"), todo # <<>>
      PROVE  InstallInv'
  <2>1. removal
    BY <1>a, <1>b, <1>c, <1>3
  <2> QED
    BY <1>3, <2>1 DEF InstallInv, Go
<1>4. CASE RemoveUnit \/ Disable \/ NothingThere \/ FailureIgnored
  <2>1. Go /\ command' = command /\ todo # <<>> /\ (At("remove") \/ At("disable"))
    BY <1>4 DEF RemoveUnit, Disable, NothingThere, FailureIgnored, Go, At
  <2> QED
    BY <1>3, <1>d, <2>1
<1>5. CASE Reload
  <2>1. At("reload") /\ todo # <<>> /\ command' = command /\ loaded' = disk /\ disk' = disk
        /\ todo' = Tail(todo)
        /\ (Tail(todo) # <<>> => done' = "busy")
        /\ (done' = "installed" => command.verb = "install" /\ Tail(todo) = <<>>)
    BY <1>5 DEF Reload, At, Go
  <2>2. CASE client
    <3>1. todo' = ClientAt.enable /\ FreshFile(Svc)' /\ ReadFile(Svc)'
      BY <1>b, <1>d, <2>1, <2>2 DEF FreshFile, ReadFile, Text
    <3> QED
      BY <2>1, <2>2, <3>1, ClientPlaces DEF InstallInv, ClientInstallInv, Next3
  <2>3. CASE server
    <3>1. todo' = ServerAt.enable /\ FreshFile(Svc)' /\ FreshFile(Tmr)' /\ ReadFile(Svc)' /\ ReadFile(Tmr)'
      BY <1>c, <1>d, <2>1, <2>3 DEF FreshFile, ReadFile, Text
    <3> QED
      BY <2>1, <2>3, <3>1, ServerPlaces DEF InstallInv, ServerInstallInv, Next3
  <2>4. CASE removal
    BY <2>1, <2>4 DEF InstallInv
  <2> QED
    BY <1>a, <2>1, <2>2, <2>3, <2>4
<1>6. CASE Enable
  <2>1. At("enable") /\ todo # <<>> /\ command' = command /\ loaded' = loaded /\ disk' = disk
        /\ enabled' = enabled \cup {File} /\ todo' = Tail(todo)
        /\ (Tail(todo) = <<>> => done' # "busy")
        /\ (done' = "installed" => command.verb = "install" /\ Tail(todo) = <<>>)
    BY <1>6 DEF Enable, At, Go
  <2>2. CASE client
    <3>1. Tail(todo) = <<>> /\ FreshFile(Svc)' /\ ReadFile(Svc)' /\ UnitOf("client") \in enabled'
      BY <1>b, <1>d, <2>1, <2>2, UnitsOfRoles DEF FreshFile, ReadFile, Text
    <3> QED
      BY <2>1, <2>2, <3>1 DEF InstallInv
  <2>3. CASE server
    <3>1. Tail(todo) = <<>> /\ FreshFile(Svc)' /\ FreshFile(Tmr)' /\ ReadFile(Svc)' /\ ReadFile(Tmr)'
          /\ UnitOf("server") \in enabled'
      BY <1>c, <1>d, <2>1, <2>3, UnitsOfRoles DEF FreshFile, ReadFile, Text
    <3> QED
      BY <2>1, <2>3, <3>1 DEF InstallInv
  <2>4. CASE removal
    BY <2>1, <2>4 DEF InstallInv
  <2> QED
    BY <1>a, <2>1, <2>2, <2>3, <2>4
<1>7. CASE Stop
  BY <1>7 DEF Stop, InstallInv
<1>8. CASE ServiceEnds \/ TimerFires
  BY <1>8 DEF ServiceEnds, TimerFires, InstallInv, ClientInstallInv, ServerInstallInv, FreshFile, ReadFile
<1>9. CASE Reboot
  <2>1. CASE done = "installed"
    <3>1. disk' = disk /\ loaded' = disk /\ command' = command /\ enabled' = enabled
          /\ done' = "installed"
      BY <1>0, <1>9, <2>1 DEF Reboot, Cut, At
    <3> QED
      BY <2>1, <3>1 DEF InstallInv, FreshFile, ReadFile
  <2>2. CASE done # "installed"
    <3>1. done' # "installed" /\ done' # "busy"
      BY <1>0, <1>9, <2>2 DEF Reboot
    <3> QED
      BY <3>1 DEF InstallInv
  <2> QED
    BY <2>1, <2>2
<1>10. CASE UNCHANGED serviceVars
  BY <1>10 DEF serviceVars, InstallInv, ClientInstallInv, ServerInstallInv, FreshFile, ReadFile
<1> QED
  BY <1>1, <1>2, <1>4, <1>5, <1>6, <1>7, <1>8, <1>9, <1>10 DEF ServiceNext

(* Where the program stands after a step of it.                            *)
LEMMA UninstallStep ==
  ASSUME UnitsTyped, UninstallInv, [ServiceNext]_serviceVars
  PROVE  UninstallInv'
<1> DEFINE at == RemovalAt(command.role)
<1>0. /\ todo = <<>> <=> done # "busy"
      /\ done # "stopped" => command \in Commands
      /\ done \in Ends
  BY DEF UnitsTyped
<1>1. ASSUME NEW verb \in {"install", "uninstall"}, NEW role \in Roles, NEW spec \in Specs,
             Begin(verb, role, spec)
      PROVE  UninstallInv'
  BY <1>1, UnitPrograms DEF Begin, UninstallInv
<1>2. ASSUME Go, todo # <<>> PROVE UninstallInv'
  <2>1. done = "busy" /\ command.verb \in {"install", "uninstall"} /\ command' = command
        /\ todo' = Tail(todo)
    BY <1>0, <1>2 DEF Go, Commands, Ends
  <2>2. done' = "removed" => command.verb = "uninstall"
    BY <1>2, <2>1 DEF Go
  <2>3. done' = "busy" => Tail(todo) # <<>>
    BY <1>2 DEF Go
  <2>4. CASE command.verb = "uninstall"
    <3>1. todo' \in {at.service, at.timer, at.reload, <<>>}
      BY <2>1, <2>4, RemovalPlaces DEF UninstallInv, Next2, Next3
    <3> QED
      BY <2>1, <2>2, <2>3, <2>4, <3>1 DEF UninstallInv
  <2> QED
    BY <2>1, <2>2, <2>4 DEF UninstallInv
<1>3. CASE WriteUnit \/ RemoveUnit \/ Reload \/ Enable \/ Disable \/ NothingThere \/ FailureIgnored
  <2>1. Go /\ todo # <<>>
    BY <1>3 DEF WriteUnit, RemoveUnit, Reload, Enable, Disable, NothingThere, FailureIgnored, At
  <2> QED
    BY <1>2, <2>1
<1>4. CASE Stop
  BY <1>4 DEF Stop, UninstallInv
<1>5. CASE ServiceEnds \/ TimerFires
  BY <1>5 DEF ServiceEnds, TimerFires, UninstallInv
<1>6. CASE Reboot
  <2>1. done' # "busy" /\ (done' = "removed" => done = "removed") /\ command' = command
    BY <1>0, <1>6 DEF Reboot
  <2> QED
    BY <2>1 DEF UninstallInv
<1>7. CASE UNCHANGED serviceVars
  BY <1>7 DEF serviceVars, UninstallInv
<1> QED
  BY <1>1, <1>3, <1>4, <1>5, <1>6, <1>7 DEF ServiceNext

LEMMA RoleStep ==
  ASSUME UnitsTyped, RoleInv, [ServiceNext]_serviceVars
  PROVE  RoleInv'
<1>0. /\ todo = <<>> <=> done # "busy"
      /\ past \in [roles : SUBSET Roles, unlucky : BOOLEAN]
  BY DEF UnitsTyped
<1>1. ASSUME NEW verb \in {"install", "uninstall"}, NEW role \in Roles, NEW spec \in Specs,
             Begin(verb, role, spec)
      PROVE  RoleInv'
  <2>1. role \in past'.roles
    BY <1>0, <1>1 DEF Begin, NoPast
  <2> QED
    BY <1>1, <2>1 DEF Begin, RoleInv
<1>2. CASE WriteUnit \/ RemoveUnit \/ Reload \/ Enable \/ Disable \/ NothingThere \/ FailureIgnored
  <2>1. command' = command /\ done = "busy"
    BY <1>0, <1>2 DEF WriteUnit, RemoveUnit, Reload, Enable, Disable, NothingThere, FailureIgnored, At, Go
  <2>2. past'.roles = past.roles
    BY <1>0, <1>2 DEF WriteUnit, RemoveUnit, Reload, Enable, Disable, NothingThere, FailureIgnored
  <2> QED
    BY <2>1, <2>2 DEF RoleInv
<1>3. CASE Stop \/ ServiceEnds \/ TimerFires \/ Reboot \/ UNCHANGED serviceVars
  BY <1>3 DEF Stop, ServiceEnds, TimerFires, Reboot, serviceVars, RoleInv
<1> QED
  BY <1>1, <1>2, <1>3 DEF ServiceNext

(* Once nothing is left, a command of either role starts afresh.           *)
LEMMA NothingIsOneRole ==
  ASSUME NothingLeft, NEW r \in Roles PROVE OneRole(r)
  BY UnitsOfRoles, Kinds DEF NothingLeft, OneRole, Nowhere

(* As long as one role only is given commands, a removal step undoes what  *)
(* the place it stands at says.                                            *)
LEMMA RemovalStep ==
  ASSUME UnitsTyped, InstallInv, UninstallInv, RoleInv, RemovalInv, [ServiceNext]_serviceVars
  PROVE  RemovalInv'
<1> SUFFICES ASSUME NEW r \in Roles, past'.roles \subseteq {r}, ~past'.unlucky
             PROVE  Removing(r)'
  BY DEF RemovalInv
<1> USE DEF Removing
<1> DEFINE Old == past.roles \subseteq {r} /\ ~past.unlucky
<1>0. /\ todo = <<>> <=> done # "busy"
      /\ done \in Ends
      /\ disk \in [Files -> UnitContent] /\ loaded \in [Files -> UnitContent]
      /\ active \in [Files -> UnitContent \cup {NotRunning}] /\ enabled \subseteq Files
      /\ past \in [roles : SUBSET Roles, unlucky : BOOLEAN]
      /\ done # "stopped" => command \in Commands /\ command.verb \in {"install", "uninstall"}
      /\ UnitOf(r) \in Files /\ Svc \in Files /\ Tmr \in Files
  BY UnitsOfRoles DEF UnitsTyped, Commands
<1>o. Old => Removing(r)
  BY DEF RemovalInv
<1>1. ASSUME NEW verb \in {"install", "uninstall"}, NEW role \in Roles, NEW spec \in Specs,
             Begin(verb, role, spec)
      PROVE  Removing(r)'
  <2>1. role = r /\ (NothingLeft \/ Old)
    BY <1>0, <1>1 DEF Begin, NoPast
  <2>2. OneRole(r)
    BY <1>o, <2>1, NothingIsOneRole
  <2>3. OneRole(r)'
    BY <1>1, <2>2 DEF Begin, OneRole
  <2>4. verb = "uninstall" => todo' = RemovalAt(r).disable
    BY <1>1, <2>1, UnitPrograms DEF Begin
  <2> QED
    BY <1>1, <2>3, <2>4 DEF Begin
(* The program that is running is r's.                                     *)
<1>2. ASSUME todo # <<>>, Old
      PROVE  /\ done = "busy" /\ command.role = r /\ Text(command)[1] = r /\ IsText(Text(command))
             /\ Text(command) \in Texts
             /\ command.verb \in {"install", "uninstall"}
             /\ OneRole(r)
  <2>1. done = "busy" /\ command.role = r /\ command \in Commands
    BY <1>0, <1>2 DEF RoleInv, Ends
  <2>2. Text(command) \in Texts /\ Text(command)[1] = r
    BY <2>1 DEF Text, Texts, Commands
  <2> QED
    BY <1>0, <1>2, <1>o, <2>1, <2>2, Kinds
<1>d. \A d, e : At(d) /\ At(e) => d = e
  BY DEF At
<1>c. ASSUME todo # <<>>, Old, command.verb = "install", r = "client"
      PROVE  \/ At("write") /\ File = Svc
             \/ At("reload") /\ FreshFile(Svc)
             \/ At("enable") /\ File = Svc /\ FreshFile(Svc) /\ ReadFile(Svc)
  BY <1>2, <1>c, ClientPlaces DEF InstallInv, ClientInstallInv, At, File, Next2, Next3
<1>s. ASSUME todo # <<>>, Old, command.verb = "install", r = "server"
      PROVE  \/ At("write") /\ File \in {Svc, Tmr}
             \/ At("reload") /\ FreshFile(Svc) /\ FreshFile(Tmr)
             \/ At("enable") /\ File = Tmr /\ FreshFile(Svc) /\ FreshFile(Tmr) /\ ReadFile(Svc) /\ ReadFile(Tmr)
  BY <1>2, <1>s, ServerPlaces DEF InstallInv, ServerInstallInv, At, File, Next2, Next3
<1>u. ASSUME todo # <<>>, Old, command.verb = "uninstall"
      PROVE  \/ todo = RemovalAt(r).disable /\ At("disable") /\ File = UnitOf(r) /\ Tail(todo) = RemovalAt(r).service
             \/ todo = RemovalAt(r).service /\ At("remove") /\ File = Svc /\ Tail(todo) = RemovalAt(r).timer /\ Quiet
             \/ todo = RemovalAt(r).timer /\ At("remove") /\ File = Tmr /\ Tail(todo) = RemovalAt(r).reload
                   /\ Quiet /\ disk[Svc] = NoFile
             \/ todo = RemovalAt(r).reload /\ At("reload") /\ Tail(todo) = <<>> /\ Quiet /\ disk = Nowhere
  <2>1. \/ todo = RemovalAt(r).disable
        \/ todo = RemovalAt(r).service /\ Quiet
        \/ todo = RemovalAt(r).timer /\ Quiet /\ disk[Svc] = NoFile
        \/ todo = RemovalAt(r).reload /\ Quiet /\ disk = Nowhere
    BY <1>2, <1>o, <1>u
  <2> QED
    BY <1>u, <2>1, RemovalPlaces DEF At, File, Next2, Next3
(* The steps of an installation.                                           *)
<1>g. ASSUME Go, Old, todo # <<>>, command.verb = "install", OneRole(r)' PROVE Removing(r)'
  BY <1>g DEF Go
<1>3. CASE WriteUnit
  <2>1. Old /\ todo # <<>> /\ At("write") /\ Go /\ command.verb = "install"
    <3>1. Old /\ todo # <<>> /\ At("write") /\ Go
      BY <1>3 DEF WriteUnit, At
    <3> QED
      BY <1>2, <1>u, <1>d, <3>1
  <2>2. /\ disk' = [disk EXCEPT ![File] = Text(command)] /\ loaded' = loaded
        /\ enabled' = enabled /\ active' = active
    BY <1>3 DEF WriteUnit
  <2>3. OneRole(r)'
    <3>1. File \in {Svc, Tmr} /\ (r = "client" => File = Svc)
      BY <1>c, <1>s, <1>d, <2>1, UnitsOfRoles
    <3>2. \A f \in Files : disk'[f] = IF f = File THEN Text(command) ELSE disk[f]
      BY <1>0, <2>2
    <3>3. Text(command) # NoFile /\ Text(command)[1] = r /\ OneRole(r)
      BY <1>2, <2>1, Kinds
    <3>4. \A f \in Files : (IsText(disk'[f]) => disk'[f][1] = r) /\ (disk'[f] = NoFile => disk[f] = NoFile)
      BY <3>2, <3>3 DEF OneRole
    <3>5. r = "client" => disk'[Tmr] = disk[Tmr]
      BY <1>0, <3>1, <3>2, UnitsOfRoles
    <3> QED
      BY <1>0, <2>2, <3>3, <3>4, <3>5 DEF OneRole
  <2> QED
    BY <1>g, <2>1, <2>3
<1>4. CASE Reload
  <2>1. Old /\ todo # <<>> /\ At("reload") /\ Go /\ loaded' = disk /\ disk' = disk
        /\ enabled' = enabled /\ active' = active
    BY <1>4 DEF Reload, At
  <2>2. OneRole(r)'
    BY <1>0, <1>2, <2>1, UnitsOfRoles DEF OneRole
  <2>3. CASE command.verb = "install"
    BY <1>g, <2>1, <2>2, <2>3
  <2>4. CASE command.verb = "uninstall"
    <3>1. Tail(todo) = <<>> /\ Quiet /\ disk = Nowhere
      BY <1>u, <1>d, <2>1, <2>4
    <3> QED
      BY <2>1, <2>2, <3>1 DEF Go, Quiet
  <2> QED
    BY <1>2, <2>1, <2>3, <2>4
<1>5. CASE Enable
  <2>1. Old /\ todo # <<>> /\ At("enable") /\ Go /\ loaded' = loaded /\ disk' = disk
        /\ IsText(disk[File]) /\ enabled' = enabled \cup {File}
        /\ active' = [active EXCEPT ![File] = IF @ = NotRunning THEN loaded[File] ELSE @]
    BY <1>5 DEF Enable, At
  <2>2. command.verb = "install"
    BY <1>2, <1>u, <1>d, <2>1
  <2>3. File = UnitOf(r) /\ ReadFile(Svc)
    BY <1>c, <1>s, <1>d, <2>1, <2>2, UnitsOfRoles
  <2>4. OneRole(r)'
    <3>1. \A f \in Files : f # UnitOf(r) => active'[f] = active[f]
      BY <1>0, <2>1, <2>3
    <3>2. disk[UnitOf(r)] # NoFile
      BY <2>1, <2>3, Kinds
    <3>3. r = "server" => loaded[Svc][1] # "client"
      BY <1>2, <2>1, <2>3 DEF ReadFile
    <3> QED
      BY <1>0, <1>2, <2>1, <2>3, <3>1, <3>2, <3>3, UnitsOfRoles DEF OneRole
  <2> QED
    BY <1>g, <2>1, <2>2, <2>4
(* The steps of a removal.                                                 *)
<1>6. CASE Disable \/ (NothingThere /\ At("disable"))
  <2>1. Old /\ todo # <<>> /\ At("disable") /\ Go /\ disk' = disk /\ loaded' = loaded
    BY <1>6 DEF Disable, NothingThere, At
  <2>2. command.verb = "uninstall"
    BY <1>2, <1>c, <1>s, <1>d, <2>1, UnitsOfRoles
  <2>3. File = UnitOf(r) /\ Tail(todo) = RemovalAt(r).service
    BY <1>u, <1>d, <2>1, <2>2
  <2>4. OneRole(r)
    BY <1>2, <2>1
  <2>5. CASE Disable
    <3>1. enabled' = enabled \ {UnitOf(r)} /\ active' = [active EXCEPT ![UnitOf(r)] = NotRunning]
      BY <2>3, <2>5 DEF Disable
    <3>2. \A f \in Files : active'[f] = IF f = UnitOf(r) THEN NotRunning ELSE active[f]
      BY <1>0, <3>1
    <3>3. Quiet' /\ OneRole(r)'
      BY <1>0, <2>1, <2>4, <3>1, <3>2, UnitsOfRoles DEF Quiet, OneRole
    <3> QED
      BY <2>1, <2>2, <2>3, <3>3, RemovalPlaces DEF Go, Next3
  <2>6. CASE NothingThere
    <3>1. enabled' = enabled /\ active' = active /\ disk[UnitOf(r)] = NoFile
      BY <2>3, <2>6 DEF NothingThere
    <3>2. Quiet' /\ OneRole(r)'
      BY <1>0, <2>1, <2>4, <3>1, UnitsOfRoles DEF Quiet, OneRole
    <3> QED
      BY <2>1, <2>2, <2>3, <3>2, RemovalPlaces DEF Go, Next3
  <2> QED
    BY <1>6, <2>5, <2>6
<1>7. CASE RemoveUnit \/ (NothingThere /\ At("remove"))
  <2>1. Old /\ todo # <<>> /\ At("remove") /\ Go /\ loaded' = loaded
        /\ enabled' = enabled /\ active' = active
    BY <1>7 DEF RemoveUnit, NothingThere, At
  <2>2. command.verb = "uninstall"
    BY <1>2, <1>c, <1>s, <1>d, <2>1, UnitsOfRoles
  <2>3. /\ File \in Files /\ Quiet /\ OneRole(r)
        /\ \/ File = Svc /\ Tail(todo) = RemovalAt(r).timer
           \/ File = Tmr /\ Tail(todo) = RemovalAt(r).reload /\ disk[Svc] = NoFile
    BY <1>0, <1>2, <1>u, <1>d, <2>1, <2>2
  <2>4. disk' \in [Files -> UnitContent] /\ \A f \in Files : disk'[f] = IF f = File THEN NoFile ELSE disk[f]
    BY <1>0, <1>7, <2>3 DEF RemoveUnit, NothingThere, UnitContent
  <2>5. Quiet' /\ OneRole(r)'
    <3>1. Quiet'
      BY <2>1, <2>3 DEF Quiet
    <3>2. \A f \in Files : IsText(disk'[f]) => disk'[f][1] = r
      BY <2>3, <2>4, Kinds DEF OneRole
    <3>3. disk[Tmr] = NoFile => disk'[Tmr] = NoFile
      BY <1>0, <2>4
    <3>4. UnitOf(r) \notin enabled' /\ active'[UnitOf(r)] = NotRunning
      BY <3>1, UnitsOfRoles DEF Quiet
    <3> QED
      BY <2>1, <2>3, <3>1, <3>2, <3>3, <3>4, UnitsOfRoles DEF OneRole, Quiet
  <2>6. CASE File = Svc
    <3>1. disk'[Svc] = NoFile
      BY <1>0, <2>4, <2>6
    <3>2. todo' = RemovalAt(r).timer /\ done' # "removed"
      BY <2>1, <2>3, <2>6, UnitsOfRoles, RemovalPlaces DEF Go, Next3
    <3> QED
      BY <2>5, <3>1, <3>2
  <2>7. CASE File = Tmr
    <3>1. disk'[Svc] = NoFile /\ disk'[Tmr] = NoFile
      BY <1>0, <2>3, <2>4, <2>7, UnitsOfRoles
    <3>2. disk' = Nowhere
      BY <2>4, <3>1, UnitsOfRoles DEF Nowhere
    <3>3. todo' = RemovalAt(r).reload /\ done' # "removed"
      BY <2>1, <2>3, <2>7, UnitsOfRoles, RemovalPlaces DEF Go, Next2
    <3> QED
      BY <2>5, <3>2, <3>3
  <2> QED
    BY <2>3, <2>6, <2>7
<1>8. CASE FailureIgnored
  BY <1>0, <1>8 DEF FailureIgnored
(* A program that is cut short, and what goes on after.                    *)
<1>9. ASSUME disk' \in Cut, Old
      PROVE  \A f \in Files : /\ IsText(disk'[f]) => disk'[f] = disk[f]
                              /\ disk'[f] = NoFile => disk[f] = NoFile
                              /\ disk[f] = NoFile => ~IsText(disk'[f])
  BY <1>0, <1>9, Kinds DEF Cut
<1>10. ASSUME disk' \in Cut, Old, r = "client"
       PROVE  disk[Tmr] = NoFile => disk'[Tmr] = NoFile
  <2>1. CASE At("write")
    <3>1. todo # <<>> /\ File = Svc
      <4>1. todo # <<>>
        BY <2>1 DEF At
      <4> QED
        BY <1>2, <1>10, <1>c, <1>u, <1>d, <2>1, <4>1
    <3> QED
      BY <1>0, <1>10, <3>1, UnitsOfRoles DEF Cut
  <2>2. CASE ~At("write")
    BY <1>10, <2>2 DEF Cut
  <2> QED
    BY <2>1, <2>2
<1>11. CASE Stop
  <2>1. Old /\ todo # <<>> /\ loaded' = loaded /\ active' = active /\ disk' \in Cut
        /\ done' = "stopped" /\ OneRole(r)
    BY <1>2, <1>11 DEF Stop
  <2>2. \/ enabled' = enabled
        \/ enabled' = enabled \cup {UnitOf(r)} /\ disk[UnitOf(r)] # NoFile
    <3>1. CASE At("enable")
      <4>1. command.verb = "install"
        BY <1>2, <1>u, <1>d, <2>1, <3>1
      <4>2. File = UnitOf(r) /\ FreshFile(UnitOf(r))
        BY <1>c, <1>s, <1>d, <2>1, <3>1, <4>1, UnitsOfRoles
      <4> QED
        BY <1>2, <1>11, <2>1, <3>1, <4>2, Kinds DEF Stop, FreshFile
    <3>2. CASE ~At("enable")
      BY <1>11, <3>2 DEF Stop
    <3> QED
      BY <3>1, <3>2
  <2>3. OneRole(r)'
    BY <1>0, <1>9, <1>10, <2>1, <2>2, UnitsOfRoles DEF OneRole
  <2> QED
    BY <2>1, <2>3
<1>12. CASE ServiceEnds
  <2>1. Old /\ active[Svc] # NotRunning /\ OneRole(r)
    BY <1>o, <1>12 DEF ServiceEnds, Svc
  <2>2. r = "client" /\ ~Quiet /\ done # "removed" /\ disk[Svc] # NoFile
    BY <1>o, <2>1, UnitsOfRoles DEF OneRole, Quiet
  <2>3. OneRole(r)'
    BY <1>0, <1>12, <2>1, <2>2, UnitsOfRoles DEF ServiceEnds, OneRole, Svc
  <2>4. done' # "removed" /\ (done' = "busy" /\ command'.verb = "uninstall" => todo' = RemovalAt(r).disable)
    BY <1>o, <1>12, <2>1, <2>2 DEF ServiceEnds
  <2> QED
    BY <2>3, <2>4
<1>13. CASE TimerFires
  <2>1. Old /\ active[Tmr] # NotRunning /\ IsText(loaded[Svc]) /\ loaded[Svc][1] = "client"
    BY <1>13 DEF TimerFires, Svc, Tmr
  <2> QED
    BY <1>o, <2>1, UnitsOfRoles DEF OneRole
<1>14. CASE Reboot
  <2>1. Old /\ disk' \in Cut /\ loaded' = disk' /\ enabled' = enabled /\ command' = command
        /\ active' = [f \in Files |-> IF f \in enabled /\ IsText(disk'[f]) THEN disk'[f] ELSE NotRunning]
        /\ todo' = <<>> /\ done' # "busy" /\ (done' = "removed" => done = "removed" /\ todo = <<>>)
    BY <1>0, <1>14 DEF Reboot
  <2>2. OneRole(r)
    BY <1>o, <2>1
  <2>3. \A f \in Files : active'[f] = NotRunning \/ (f \in enabled /\ IsText(disk'[f]))
    BY <2>1
  <2>4. /\ \A f \in Files : IsText(disk'[f]) => disk'[f][1] = r
        /\ \A f \in Files : disk'[f] = NoFile => disk[f] = NoFile
        /\ r = "client" => disk'[Tmr] = NoFile
    BY <1>9, <1>10, <2>1, <2>2 DEF OneRole
  <2>5. \A f \in Files : f # UnitOf(r) => active'[f] = NotRunning
    BY <2>2, <2>3 DEF OneRole
  <2>6. r = "server" /\ IsText(loaded'[Svc]) => loaded'[Svc][1] # "client"
    BY <1>0, <2>1, <2>4
  <2>7. disk'[UnitOf(r)] = NoFile => UnitOf(r) \notin enabled' /\ active'[UnitOf(r)] = NotRunning
    BY <1>0, <2>1, <2>2, <2>3, <2>4 DEF OneRole
  <2>8. OneRole(r)'
    BY <1>0, <2>1, <2>2, <2>4, <2>5, <2>6, <2>7, UnitsOfRoles DEF OneRole
  <2>9. done' = "removed" => Quiet' /\ disk' = Nowhere
    <3>1. SUFFICES ASSUME done = "removed", todo = <<>> PROVE Quiet' /\ disk' = Nowhere
      BY <2>1
    <3>2. disk' = disk /\ disk = Nowhere /\ Quiet
      BY <1>o, <2>1, <3>1 DEF Cut, At
    <3>3. active'[Svc] = NotRunning /\ active'[Tmr] = NotRunning
      BY <1>0, <2>1, <2>3, <3>2 DEF Quiet
    <3> QED
      BY <2>1, <3>2, <3>3 DEF Quiet
  <2> QED
    BY <2>1, <2>8, <2>9
<1>15. CASE UNCHANGED serviceVars
  BY <1>o, <1>15 DEF serviceVars, OneRole, Quiet
<1>16. NothingThere => At("disable") \/ At("remove")
  BY DEF NothingThere
<1> QED
  BY <1>1, <1>3, <1>4, <1>5, <1>6, <1>7, <1>8, <1>11, <1>12, <1>13, <1>14, <1>15, <1>16 DEF ServiceNext

LEMMA ServiceInvInit == ServiceInit => ServiceInv
<1> SUFFICES ASSUME ServiceInit PROVE ServiceInv
  OBVIOUS
<1>1. UnitsTyped
  BY DEF ServiceInit, UnitsTyped, Nowhere, UnitContent, Ends, NoPast
<1>2. InstallInv /\ UninstallInv /\ RoleInv
  BY DEF ServiceInit, InstallInv, UninstallInv, RoleInv
<1>3. NothingLeft /\ done = "stopped"
  BY DEF ServiceInit, NothingLeft
<1>4. RemovalInv
  BY <1>3, NothingIsOneRole DEF RemovalInv, Removing
<1> QED
  BY <1>1, <1>2, <1>4 DEF ServiceInv

LEMMA ServiceInvStep ==
  ServiceInv /\ [ServiceNext]_serviceVars => ServiceInv'
  BY UnitsTypedStep, InstallStep, UninstallStep, RoleStep, RemovalStep DEF ServiceInv

LEMMA ServiceInvHolds == ServiceSpec => []ServiceInv
  BY ServiceInvInit, ServiceInvStep, PTL DEF ServiceSpec

(* A successful install has its own files on disk, loaded by systemd and   *)
(* starting at boot, whatever the commands, failures and reboots before it *)
(* left half done: install in service.rs.                                  *)
THEOREM InstallIsComplete == ServiceSpec => []InstalledMeans
<1>1. ServiceInv => InstalledMeans
  <2> SUFFICES ASSUME ServiceInv, done = "installed",
                      NEW i \in DOMAIN FilesOf(command.role)
               PROVE  LET f == FilesOf(command.role)[i]
                      IN  disk[f] = Text(command) /\ loaded[f] = Text(command)
    BY DEF ServiceInv, InstallInv, InstalledMeans
  <2>1. command.role \in Roles
    BY DEF ServiceInv, UnitsTyped, Commands
  <2>2. CASE command.role = "client"
    <3>1. FilesOf(command.role)[i] = Svc
      BY <2>2 DEF FilesOf, Svc
    <3> QED
      BY <3>1 DEF ServiceInv, InstallInv, FreshFile, ReadFile
  <2>3. CASE command.role = "server"
    <3>1. FilesOf(command.role)[i] \in {Svc, Tmr}
      BY <2>3 DEF FilesOf, Svc, Tmr
    <3> QED
      BY <2>3, <3>1 DEF ServiceInv, InstallInv, FreshFile, ReadFile
  <2> QED
    BY <2>1, <2>2, <2>3, UnitsOfRoles
<1> QED
  BY <1>1, ServiceInvHolds, PTL

(* A successful uninstall leaves nothing on disk, enabled or running, as   *)
(* long as one role was ever given and no failure was ignored: uninstall   *)
(* in service.rs.                                                          *)
THEOREM UninstallIsComplete == ServiceSpec => []RemovedMeans
<1>1. ServiceInv => RemovedMeans
  <2> SUFFICES ASSUME ServiceInv, done = "removed", ~past.unlucky, past.roles = {command.role}
               PROVE  NothingLeft
    BY DEF RemovedMeans
  <2>1. command.role \in Roles
    BY DEF ServiceInv, UnitsTyped, Commands
  <2>2. Quiet /\ disk = Nowhere
    BY <2>1 DEF ServiceInv, RemovalInv, Removing
  <2> QED
    BY <2>2, UnitsOfRoles DEF Quiet, NothingLeft
<1> QED
  BY <1>1, ServiceInvHolds, PTL

(* Once installed, neither a restart, a timer nor a reboot starts the unit *)
(* from another definition.                                                *)
THEOREM OnlyWhatWasInstalledStarts == ServiceSpec => StartsWhatWasInstalled
<1> DEFINE Kept == done = "installed" /\ done' = "installed" =>
                     active'[UnitOf(command.role)] \in
                       {active[UnitOf(command.role)], NotRunning, Text(command)}
<1>1. ServiceInv /\ [ServiceNext]_serviceVars => [Kept]_serviceVars
  <2> SUFFICES ASSUME ServiceInv, ServiceNext, done = "installed", done' = "installed"
               PROVE  active'[UnitOf(command.role)] \in
                       {active[UnitOf(command.role)], NotRunning, Text(command)}
    BY DEF serviceVars
  <2>1. /\ todo = <<>> /\ command.role \in Roles
        /\ FreshFile(Svc) /\ ReadFile(Svc) /\ (command.role = "server" => FreshFile(Tmr))
        /\ active \in [Files -> UnitContent \cup {NotRunning}]
    BY DEF ServiceInv, UnitsTyped, InstallInv, Commands
  <2>2. /\ UnitOf(command.role) \in {Svc, Tmr}
        /\ disk[UnitOf(command.role)] = Text(command)
    BY <2>1, UnitsOfRoles DEF FreshFile
  <2>3. \/ ServiceEnds \/ TimerFires \/ Reboot
    BY <2>1 DEF ServiceNext, Begin, WriteUnit, RemoveUnit, Reload, Enable, Disable,
                NothingThere, FailureIgnored, Stop, At
  <2>4. CASE ServiceEnds \/ TimerFires
    <3>1. \/ active' = [active EXCEPT ![Svc] = NotRunning]
          \/ active' = [active EXCEPT ![Svc] = Text(command)]
      BY <2>1, <2>4 DEF ServiceEnds, TimerFires, ReadFile, Svc
    <3> QED
      BY <2>1, <2>2, <3>1, UnitsOfRoles
  <2>5. CASE Reboot
    <3>1. disk' = disk
      BY <2>1, <2>5 DEF Reboot, Cut, At
    <3>2. UnitOf(command.role) \in Files
      BY <2>2, UnitsOfRoles
    <3> QED
      BY <2>2, <2>5, <3>1, <3>2 DEF Reboot
  <2> QED
    BY <2>3, <2>4, <2>5
<1>2. ServiceSpec => [][Kept]_serviceVars
  BY <1>1, ServiceInvHolds, PTL DEF ServiceSpec
<1> QED
  BY <1>2 DEF StartsWhatWasInstalled

(***************************************************************************)
(* The installer (Installer).                                              *)
(***************************************************************************)
Command == XtaskCommands \cup {"init", "init --force"}
Deed == {"check", "build", "test", "copy", "remove", "removeConfig", "config", "init", "open",
         "write"}
AStep == [do : Deed, bin : Bin]

(* The two fields of a step, as operators the provers leave folded.        *)
Does(step) == step.do
For(step) == step.bin

InstallerTyped ==
  /\ source \in Nat \ {0}
  /\ built \in [Bin -> 0..source]
  /\ binaries \in [Bin -> Nat \cup {Partial}]
  /\ drawn \in Nat
  /\ configFile \in Emptied..drawn
  /\ steps \in [Shells -> Seq(AStep)]
  /\ run \in [Shells -> [name : Command \cup {"none"}, found : Int]]

(* What is left of `xtask all`: the last steps of its program, the last of *)
(* all of which may have become one of `hydra init`.                       *)
LeftOfAll(left) ==
  /\ Len(left) <= Len(Bins) + 4
  /\ \A i \in 1..Len(left) :
       \/ left[i] = Steps("all")[Len(Bins) + 4 - Len(left) + i]
       \/ Len(left) = 1 /\ Does(left[i]) \in {"init", "open", "write"}

(* From the end of the build on, all binaries are of one build, and those  *)
(* whose turn has been are installed.                                      *)
OneBuild(upTo, latest, made, installed) ==
  \E v \in 1..latest :
    /\ \A b \in Bin : made[b] = v
    /\ \A i \in 1..upTo : installed[Bins[i]] = v

AllInv ==
  LET left == steps["xtask"]
  IN  run["xtask"].name = "all" /\ left # <<>> =>
        /\ LeftOfAll(left)
        /\ Len(left) <= Len(Bins) + 2 => OneBuild(Len(Bins) + 1 - Len(left), source, built, binaries)

EndedInv ==
  /\ steps["xtask"] # <<>> => ended = "running"
  /\ AllInstallsOneBuild

(* The steps of `hydra init` come first in every program, and the other    *)
(* shell has no others.                                                    *)
ShapeInv ==
  /\ \A s \in Shells : \A i \in 2..Len(steps[s]) : Does(steps[s][i]) \notin {"init", "open", "write"}
  /\ \A i \in 1..Len(steps["shell"]) : Does(steps["shell"][i]) \in {"init", "open", "write"}

(* A write that was decided on a check waits for a file that is still not  *)
(* there, is being written, or is newer than the command.                  *)
Unwritten == {Missing, Partial, Emptied}

PendingInv ==
  \A s \in Shells :
    /\ run[s].found <= drawn
    /\ Doing(s, "open") \/ Doing(s, "write") =>
         run[s].name = "init --force" \/ configFile \in Unwritten \/ run[s].found < configFile

(* Only xtask removes a file, so the one it makes is there until it has    *)
(* written it.                                                             *)
OpenInv == Doing("xtask", "write") => configFile # Missing

InstallerInv == InstallerTyped /\ ShapeInv /\ PendingInv /\ OpenInv /\ AllInv /\ EndedInv

-----------------------------------------------------------------------------
LEMMA BinsFacts ==
  /\ Len(Bins) \in Nat \ {0} /\ Bins \in Seq(Bin) /\ DOMAIN Bins = 1..Len(Bins)
  /\ \A i \in 1..Len(Bins) : Bins[i] \in Bin
  /\ Hydra \in Bin
BY InstallerAssumption DEF Bin, Hydra

(* Sequences of one element, and those with a first one.                   *)
LEMMA Alone ==
  ASSUME NEW A, NEW p \in Seq(A), Len(p) = 1
  PROVE  p # <<>> /\ (\A i \in 2..Len(p) : FALSE) /\ \A i \in 1..Len(p) : i = 1
OBVIOUS

LEMMA NotEmpty ==
  ASSUME NEW A, NEW p \in Seq(A), p # <<>>
  PROVE  /\ Len(p) \in Nat \ {0} /\ 1 \in 1..Len(p) /\ \A i \in 2..Len(p) : i \in 1..Len(p)
         /\ Head(p) = p[1] /\ p[1] \in A
         /\ Tail(p) \in Seq(A) /\ Len(Tail(p)) = Len(p) - 1
         /\ \A i \in 1..Len(p) - 1 : Tail(p)[i] = p[i + 1]
         /\ Tail(p) = <<>> <=> Len(p) = 1
<1>1. Len(p) \in Nat \ {0}
  BY EmptySeq, LenProperties
<1>2. /\ Head(p) = p[1] /\ p[1] \in A
      /\ Tail(p) \in Seq(A) /\ Len(Tail(p)) = Len(p) - 1
      /\ \A i \in 1..Len(p) - 1 : Tail(p)[i] = p[i + 1]
  BY <1>1, HeadTailProperties
<1>3. Tail(p) = <<>> <=> Len(Tail(p)) = 0
  BY <1>2, EmptySeq
<1> QED
  BY <1>1, <1>2, <1>3

LEMMA OneStep ==
  ASSUME NEW do \in Deed
  PROVE  Step(do) \in Seq(AStep) /\ Len(Step(do)) = 1 /\ Does(Step(do)[1]) = do
BY BinsFacts DEF Step, AStep, Does

LEMMA OnePerBin ==
  ASSUME NEW do \in Deed
  PROVE  /\ PerBin(do) \in Seq(AStep) /\ Len(PerBin(do)) = Len(Bins)
         /\ \A i \in 1..Len(Bins) : Does(PerBin(do)[i]) = do /\ For(PerBin(do)[i]) = Bins[i]
<1>1. PerBin(do) = [i \in 1..Len(Bins) |-> [do |-> do, bin |-> Bins[i]]]
  BY BinsFacts DEF PerBin
<1> DEFINE at(i) == [do |-> do, bin |-> Bins[i]]
<1>2. \A i \in 1..Len(Bins) : at(i) \in AStep /\ Does(at(i)) = do /\ For(at(i)) = Bins[i]
  BY BinsFacts DEF AStep, Does, For
<1>3. PerBin(do) = [i \in 1..Len(Bins) |-> at(i)]
  BY <1>1
<1> HIDE DEF at
<1> QED
  BY <1>2, <1>3, BinsFacts

LEMMA Deeds ==
  /\ "check" \in Deed /\ "build" \in Deed /\ "test" \in Deed /\ "copy" \in Deed /\ "remove" \in Deed
  /\ "removeConfig" \in Deed /\ "config" \in Deed /\ "init" \in Deed
  /\ "open" \in Deed /\ "write" \in Deed
BY DEF Deed

(* A sequence put before another, read place by place.                     *)
Joined(p, a, b) ==
  /\ p \in Seq(AStep) /\ Len(p) = Len(a) + Len(b)
  /\ \A i \in 1..Len(a) + Len(b) : p[i] = IF i <= Len(a) THEN a[i] ELSE b[i - Len(a)]

LEMMA Concatenated ==
  ASSUME NEW a \in Seq(AStep), NEW b \in Seq(AStep)
  PROVE  Joined(a \o b, a, b)
BY ConcatProperties DEF Joined

(* None of the steps of `hydra init`.                                      *)
Plain(p) == \A i \in 1..Len(p) : Does(p[i]) \notin {"init", "open", "write"}

LEMMA PlainStep ==
  ASSUME NEW do \in Deed \ {"init", "open", "write"}
  PROVE  Plain(Step(do))
<1>1. Len(Step(do)) = 1 /\ Does(Step(do)[1]) = do
  BY OneStep
<1>2. \A i \in 1..1 : i = 1
  OBVIOUS
<1> QED
  BY <1>1, <1>2, Zenon DEF Plain

LEMMA PlainJoined ==
  ASSUME NEW a \in Seq(AStep), NEW b \in Seq(AStep), NEW p, Joined(p, a, b), Plain(a), Plain(b)
  PROVE  Plain(p)
<1> SUFFICES ASSUME NEW i \in 1..Len(p) PROVE Does(p[i]) \notin {"init", "open", "write"}
  BY DEF Plain
<1>1. \/ i \in 1..Len(a) /\ p[i] = a[i]
      \/ i - Len(a) \in 1..Len(b) /\ p[i] = b[i - Len(a)]
  BY DEF Joined
<1> QED
  BY <1>1, Zenon DEF Plain

LEMMA AllProgram ==
  /\ Steps("all") \in Seq(AStep) /\ Len(Steps("all")) = Len(Bins) + 4
  /\ Does(Steps("all")[1]) = "check" /\ Does(Steps("all")[2]) = "build" /\ Does(Steps("all")[3]) = "test"
  /\ \A i \in 4..Len(Bins)+3 : Does(Steps("all")[i]) = "copy" /\ For(Steps("all")[i]) = Bins[i - 3]
  /\ Does(Steps("all")[Len(Bins) + 4]) = "config"
<1> DEFINE a == Step("check")
           b == Step("build")
           c == Step("test")
           d == PerBin("copy")
           e == Step("config")
           p == a \o b
           q == p \o c
           r == q \o d
           all == Steps("all")
<1>1. a \in Seq(AStep) /\ Len(a) = 1 /\ Does(a[1]) = "check"
  BY Deeds, OneStep
<1>2. b \in Seq(AStep) /\ Len(b) = 1 /\ Does(b[1]) = "build"
  BY Deeds, OneStep
<1>3. c \in Seq(AStep) /\ Len(c) = 1 /\ Does(c[1]) = "test"
  BY Deeds, OneStep
<1>4. /\ d \in Seq(AStep) /\ Len(d) = Len(Bins)
      /\ \A i \in 1..Len(Bins) : Does(d[i]) = "copy" /\ For(d[i]) = Bins[i]
  BY Deeds, OnePerBin
<1>5. e \in Seq(AStep) /\ Len(e) = 1 /\ Does(e[1]) = "config"
  BY Deeds, OneStep
<1>6. all = r \o e
  BY DEF Steps
<1> HIDE DEF a, b, c, d, e
<1>7. Joined(p, a, b)
  BY <1>1, <1>2, Concatenated
<1> HIDE DEF p
<1>8. Joined(q, p, c)
  BY <1>3, <1>7, Concatenated DEF Joined
<1> HIDE DEF q
<1>9. Joined(r, q, d)
  BY <1>4, <1>8, Concatenated DEF Joined
<1> HIDE DEF r
<1>10. Joined(all, r, e)
  <2>1. r \in Seq(AStep)
    BY <1>9 DEF Joined
  <2> QED
    BY <1>5, <1>6, <2>1, Concatenated
<1> HIDE DEF all
<1>11. p \in Seq(AStep) /\ Len(p) = 2 /\ p[1] = a[1] /\ p[2] = b[1]
  BY <1>1, <1>2, <1>7 DEF Joined
<1>12. q \in Seq(AStep) /\ Len(q) = 3 /\ q[1] = a[1] /\ q[2] = b[1] /\ q[3] = c[1]
  <2>0. Len(p) = 2 /\ Len(c) = 1
    BY <1>11, <1>3
  <2>1. q \in Seq(AStep) /\ Len(q) = 3
    BY <2>0, <1>8 DEF Joined
  <2>2. \A i \in 1..3 : q[i] = IF i <= 2 THEN p[i] ELSE c[i - 2]
    BY <2>0, <1>8 DEF Joined
  <2> QED
    BY <1>11, <2>1, <2>2
<1>13. /\ r \in Seq(AStep) /\ Len(r) = Len(Bins) + 3
       /\ r[1] = a[1] /\ r[2] = b[1] /\ r[3] = c[1]
       /\ \A i \in 4..Len(Bins)+3 : r[i] = d[i - 3]
  BY <1>12, <1>4, <1>9, BinsFacts DEF Joined
<1>14. /\ all \in Seq(AStep) /\ Len(all) = Len(Bins) + 4
       /\ all[1] = a[1] /\ all[2] = b[1] /\ all[3] = c[1] /\ all[Len(Bins) + 4] = e[1]
       /\ \A i \in 4..Len(Bins)+3 : i - 3 \in 1..Len(Bins) /\ all[i] = d[i - 3]
  BY <1>13, <1>5, <1>10, BinsFacts DEF Joined
<1>15. \A i \in 4..Len(Bins)+3 : Does(all[i]) = "copy" /\ For(all[i]) = Bins[i - 3]
  BY <1>4, <1>14
<1> QED
  BY <1>1, <1>2, <1>3, <1>5, <1>14, <1>15 DEF all

(* What the programs of all commands have in common: the steps of          *)
(* `hydra init` come first, and a write with no check before it is one of  *)
(* `init --force` only.                                                    *)
Proper(name, p) ==
  /\ p \in Seq(AStep) /\ p # <<>>
  /\ \A i \in 2..Len(p) : Does(p[i]) \notin {"init", "open", "write"}
  /\ Does(p[1]) \in {"open", "write"} => name = "init --force"
  /\ name \in {"init", "init --force"} =>
       \A i \in 1..Len(p) : Does(p[i]) \in {"init", "open", "write"}

LEMMA ProperStep ==
  ASSUME NEW name, NEW do \in Deed, do \in {"open", "write"} => name = "init --force",
         name \in {"init", "init --force"} => do \in {"init", "open", "write"}
  PROVE  Proper(name, Step(do))
<1> DEFINE p == Step(do)
<1>1. p \in Seq(AStep) /\ Len(p) = 1 /\ Does(p[1]) = do
  BY OneStep
<1> HIDE DEF p
<1>2. p \in Seq(AStep) /\ Len(p) = 1
  BY <1>1
<1>3. /\ p # <<>> /\ \A i \in 2..Len(p) : FALSE
      /\ \A i \in 1..Len(p) : i = 1
  BY <1>2, Alone, Zenon
<1>4. Does(p[1]) = do
  BY <1>1
<1>5. \A i \in 2..Len(p) : Does(p[i]) \notin {"init", "open", "write"}
  BY <1>3
<1>6. name \in {"init", "init --force"} => \A i \in 1..Len(p) : Does(p[i]) \in {"init", "open", "write"}
  BY <1>3, <1>4, Zenon
<1>7. Does(p[1]) \in {"open", "write"} => name = "init --force"
  BY <1>4
<1> QED
  BY <1>2, <1>3, <1>5, <1>6, <1>7, Zenon DEF Proper, p

LEMMA ProperLong ==
  ASSUME NEW name, name \notin {"init", "init --force"}, NEW p \in Seq(AStep), p # <<>>,
         \A i \in 1..Len(p) : Does(p[i]) \notin {"init", "open", "write"}
  PROVE  Proper(name, p)
<1>1. p # <<>> => 1 \in 1..Len(p) /\ \A i \in 2..Len(p) : i \in 1..Len(p)
  BY NotEmpty, Zenon
<1>2. Does(p[1]) \notin {"open", "write"} /\ \A i \in 2..Len(p) : Does(p[i]) \notin {"init", "open", "write"}
  BY <1>1, Zenon
<1> QED
  BY <1>2, Zenon DEF Proper

LEMMA ProperFacts ==
  ASSUME NEW name, NEW p, Proper(name, p)
  PROVE  /\ p \in Seq(AStep) /\ p # <<>>
         /\ \A i \in 2..Len(p) : Does(p[i]) \notin {"init", "open", "write"}
         /\ Does(p[1]) \in {"open", "write"} => name = "init --force"
         /\ name \in {"init", "init --force"} =>
              \A i \in 1..Len(p) : Does(p[i]) \in {"init", "open", "write"}
BY Zenon DEF Proper

LEMMA Programs ==
  ASSUME NEW name \in Command
  PROVE  Proper(name, Steps(name))
<1>1. CASE name \in {"check", "build", "test", "config"}
  <2>1. name \in Deed /\ Steps(name) = Step(name)
    BY <1>1 DEF Steps, Deed
  <2> QED
    BY <1>1, <2>1, ProperStep
<1>2. CASE name = "init"
  <2>1. "init" \in Deed /\ Steps(name) = Step("init")
    BY <1>2 DEF Steps, Deed
  <2> QED
    BY <1>2, <2>1, ProperStep
<1>3. CASE name = "init --force"
  <2>1. "open" \in Deed /\ Steps(name) = Step("open")
    BY <1>3 DEF Steps, Deed
  <2> QED
    BY <1>3, <2>1, ProperStep
<1>4. CASE name = "install"
  <2> DEFINE p == PerBin("copy")
  <2>1. /\ p \in Seq(AStep) /\ Len(p) = Len(Bins)
        /\ \A i \in 1..Len(Bins) : Does(p[i]) = "copy"
    BY Deeds, OnePerBin
  <2>2. Steps(name) = p
    BY <1>4 DEF Steps
  <2> HIDE DEF p
  <2>3. p # <<>>
    BY <2>1, BinsFacts
  <2> QED
    BY <1>4, <2>1, <2>2, <2>3, ProperLong
<1>5. CASE name = "uninstall"
  <2> DEFINE a == PerBin("remove")
             b == Step("removeConfig")
             p == a \o b
  <2>1. /\ a \in Seq(AStep) /\ Len(a) = Len(Bins)
        /\ \A i \in 1..Len(Bins) : Does(a[i]) = "remove"
    BY Deeds, OnePerBin
  <2>2. b \in Seq(AStep) /\ Len(b) = 1 /\ Does(b[1]) = "removeConfig"
    BY Deeds, OneStep
  <2>3. Steps(name) = p
    BY <1>5 DEF Steps
  <2> HIDE DEF a, b
  <2>4. Joined(p, a, b)
    BY <2>1, <2>2, Concatenated
  <2> HIDE DEF p
  <2>5. p \in Seq(AStep) /\ Len(p) = Len(Bins) + 1
    BY <2>1, <2>2, <2>4, BinsFacts DEF Joined
  <2>6. \A i \in 1..Len(p) : (i \in 1..Len(Bins) /\ p[i] = a[i]) \/ p[i] = b[1]
    BY <2>1, <2>2, <2>4, <2>5, BinsFacts DEF Joined
  <2>7. \A i \in 1..Len(p) : Does(p[i]) \notin {"init", "open", "write"}
    BY <2>1, <2>2, <2>6
  <2>8. p # <<>>
    BY <2>5, BinsFacts
  <2> QED
    BY <1>5, <2>3, <2>5, <2>7, <2>8, ProperLong
<1>6. CASE name = "all, skip build"
  <2> DEFINE a == Step("check")
             b == Step("test")
             c == PerBin("copy")
             d == Step("config")
             o == a \o b
             q == o \o c
             p == q \o d
  <2>1. a \in Seq(AStep) /\ b \in Seq(AStep) /\ c \in Seq(AStep) /\ d \in Seq(AStep) /\ Len(d) = 1
    BY Deeds, OneStep, OnePerBin
  <2>2. Plain(a) /\ Plain(b) /\ Plain(d)
    BY Deeds, PlainStep
  <2>3. Plain(c)
    BY Deeds, OnePerBin DEF Plain
  <2>4. Steps(name) = p
    BY <1>6 DEF Steps
  <2> HIDE DEF a, b, c, d
  <2>5. Joined(o, a, b)
    BY <2>1, Concatenated
  <2> HIDE DEF o
  <2>6. o \in Seq(AStep)
    BY <2>5 DEF Joined
  <2>7. Joined(q, o, c)
    BY <2>1, <2>6, Concatenated
  <2> HIDE DEF q
  <2>8. q \in Seq(AStep)
    BY <2>7 DEF Joined
  <2>9. Joined(p, q, d)
    BY <2>1, <2>8, Concatenated
  <2> HIDE DEF p
  <2>10. Plain(p)
    BY <2>1, <2>2, <2>3, <2>5, <2>6, <2>7, <2>8, <2>9, PlainJoined
  <2>11. p \in Seq(AStep) /\ Len(p) # 0
    BY <2>1, <2>8, <2>9 DEF Joined
  <2>12. p # <<>>
    BY <2>11
  <2>13. \A i \in 1..Len(p) : Does(p[i]) \notin {"init", "open", "write"}
    BY <2>10 DEF Plain
  <2> QED
    BY <1>6, <2>4, <2>11, <2>12, <2>13, ProperLong
<1>7. CASE name = "all"
  <2> DEFINE p == Steps("all")
  <2>1. \A i \in 1..Len(Bins) + 4 : i \in 4..Len(Bins) + 3 \/ i \in {1, 2, 3, Len(Bins) + 4}
    BY BinsFacts
  <2>2. \A i \in 1..Len(Bins) + 4 : Does(p[i]) \notin {"init", "open", "write"}
    BY <2>1, AllProgram
  <2>3. p \in Seq(AStep) /\ Len(p) = Len(Bins) + 4
    BY AllProgram
  <2> HIDE DEF p
  <2>4. p # <<>>
    BY <2>3, BinsFacts
  <2>5. Proper(name, p)
    BY <1>7, <2>2, <2>3, <2>4, ProperLong
  <2> QED
    BY <1>7, <2>5 DEF p
<1> QED
  BY <1>1, <1>2, <1>3, <1>4, <1>5, <1>6, <1>7 DEF Command, XtaskCommands

-----------------------------------------------------------------------------
(* What a step makes of the program of its command.                        *)
Dropped(p, q) ==
  /\ q \in Seq(AStep) /\ Len(q) = Len(p) - 1
  /\ \A i \in 1..Len(p) - 1 : q[i] = p[i + 1]

Replaced(p, q, do) ==
  /\ q \in Seq(AStep) /\ Len(q) = Len(p) /\ Does(q[1]) = do
  /\ \A i \in 2..Len(p) : q[i] = p[i]

Others(s) == run' = run /\ \A t \in Shells \ {s} : steps'[t] = steps[t]

LEMMA SecondOf ==
  ASSUME NEW p \in Seq(AStep), p # <<>>, NEW q, q # <<>>, Dropped(p, q)
  PROVE  2 \in 2..Len(p) /\ q[1] = p[2]
<1>1. q \in Seq(AStep) /\ Len(p) \in Nat \ {0} /\ Len(q) = Len(p) - 1
  BY NotEmpty DEF Dropped
<1>2. Len(q) \in Nat \ {0}
  BY <1>1, NotEmpty
<1>3. 1 \in 1..Len(p) - 1 /\ 2 \in 2..Len(p)
  BY <1>1, <1>2
<1> QED
  BY <1>3 DEF Dropped

LEMMA HeadDoes ==
  ASSUME NEW p \in Seq(AStep), p # <<>>
  PROVE  Head(p).do = Does(p[1])
BY NotEmpty DEF Does

LEMMA Heads ==
  ASSUME InstallerTyped, NEW s \in Shells, NEW do
  PROVE  Doing(s, do) <=> steps[s] # <<>> /\ Does(steps[s][1]) = do
<1>1. steps[s] \in Seq(AStep)
  BY DEF InstallerTyped
<1>2. steps[s] # <<>> => Head(steps[s]) = steps[s][1]
  BY <1>1, NotEmpty
<1> QED
  BY <1>2 DEF Doing, Does

LEMMA Continues ==
  ASSUME InstallerTyped, NEW s \in Shells, steps[s] # <<>>, Continue(s, <<>>)
  PROVE  Dropped(steps[s], steps'[s]) /\ Others(s) /\ steps' \in [Shells -> Seq(AStep)]
<1> DEFINE p == steps[s]
<1>1. p \in Seq(AStep) /\ steps \in [Shells -> Seq(AStep)]
  BY DEF InstallerTyped
<1>2. Dropped(p, Tail(p))
  BY <1>1, NotEmpty DEF Dropped
<1>3. Tail(p) \in Seq(AStep)
  BY <1>2 DEF Dropped
<1>4. <<>> \o Tail(p) = Tail(p)
  BY <1>3, ConcatEmptySeq
<1>5. steps' = [steps EXCEPT ![s] = Tail(p)] /\ run' = run
  BY <1>1, <1>4 DEF Continue
<1>6. steps'[s] = Tail(p) /\ steps' \in [Shells -> Seq(AStep)] /\ Others(s)
  BY <1>1, <1>3, <1>5 DEF Others
<1> QED
  BY <1>2, <1>6

LEMMA Becomes ==
  ASSUME InstallerTyped, NEW s \in Shells, steps[s] # <<>>, NEW do \in Deed, Continue(s, Step(do))
  PROVE  Replaced(steps[s], steps'[s], do) /\ Others(s) /\ steps' \in [Shells -> Seq(AStep)]
<1> DEFINE p == steps[s]
           a == Step(do)
           b == Tail(p)
           q == a \o b
<1>1. p \in Seq(AStep) /\ steps \in [Shells -> Seq(AStep)]
  BY DEF InstallerTyped
<1>2. a \in Seq(AStep) /\ Len(a) = 1 /\ Does(a[1]) = do
  BY OneStep
<1>3. /\ b \in Seq(AStep) /\ Len(b) = Len(p) - 1 /\ Len(p) \in Nat \ {0}
      /\ \A i \in 1..Len(p) - 1 : b[i] = p[i + 1]
  BY <1>1, NotEmpty
<1>4. steps' = [steps EXCEPT ![s] = q] /\ run' = run
  BY <1>1 DEF Continue
<1> HIDE DEF a, b, p
<1>5. Joined(q, a, b)
  BY <1>2, <1>3, Concatenated
<1> HIDE DEF q
<1>6. q \in Seq(AStep) /\ Len(q) = Len(p) /\ q[1] = a[1] /\ \A i \in 2..Len(p) : q[i] = b[i - 1]
  <2>1. q \in Seq(AStep) /\ Len(q) = Len(p) /\ q[1] = a[1]
    BY <1>2, <1>3, <1>5 DEF Joined
  <2>2. \A i \in 1..Len(a) + Len(b) : q[i] = IF i <= Len(a) THEN a[i] ELSE b[i - Len(a)]
    BY <1>5 DEF Joined
  <2>3. Len(a) = 1 /\ Len(a) + Len(b) = Len(p)
    BY <1>2, <1>3
  <2>4. \A i \in 2..Len(p) : i \in 1..Len(p) /\ ~(i <= 1)
    BY <1>3
  <2>5. \A i \in 2..Len(p) : q[i] = b[i - 1]
    BY <2>2, <2>3, <2>4
  <2> QED
    BY <2>1, <2>5
<1>7. \A i \in 2..Len(p) : i - 1 \in 1..Len(p) - 1 /\ b[i - 1] = p[i]
  BY <1>3
<1>8. Replaced(p, q, do)
  BY <1>2, <1>6, <1>7 DEF Replaced
<1>9. steps'[s] = q /\ steps' \in [Shells -> Seq(AStep)] /\ Others(s)
  BY <1>1, <1>4, <1>6 DEF Others
<1> QED
  BY <1>8, <1>9 DEF p

LEMMA Fails ==
  ASSUME InstallerTyped, NEW s \in Shells, Fail(s)
  PROVE  steps'[s] = <<>> /\ Others(s) /\ steps' \in [Shells -> Seq(AStep)]
BY DEF InstallerTyped, Fail, Others

LEMMA Starts ==
  ASSUME InstallerTyped, NEW s \in Shells, NEW name, StartCommand(s, name)
  PROVE  /\ name \in Command /\ steps[s] = <<>> /\ Proper(name, Steps(name))
         /\ s = "shell" => name \in {"init", "init --force"}
         /\ s = "xtask" => name \in XtaskCommands
         /\ steps' = [steps EXCEPT ![s] = Steps(name)] /\ steps' \in [Shells -> Seq(AStep)]
         /\ run' = [run EXCEPT ![s] = [name |-> name, found |-> configFile]]
<1>1. /\ steps[s] = <<>> /\ name \in IF s = "xtask" THEN XtaskCommands ELSE {"init", "init --force"}
      /\ steps' = [steps EXCEPT ![s] = Steps(name)]
      /\ run' = [run EXCEPT ![s] = [name |-> name, found |-> configFile]]
  BY DEF StartCommand
<1>2. /\ name \in Command
      /\ s = "shell" => name \in {"init", "init --force"}
      /\ s = "xtask" => name \in XtaskCommands
  BY <1>1 DEF Command
<1>3. Proper(name, Steps(name))
  BY <1>2, Programs
<1>4. Steps(name) \in Seq(AStep)
  BY <1>3 DEF Proper
<1>5. steps \in [Shells -> Seq(AStep)]
  BY DEF InstallerTyped
<1>6. steps' \in [Shells -> Seq(AStep)]
  BY <1>1, <1>4, <1>5
<1> QED
  BY <1>1, <1>2, <1>3, <1>6

(* Every step of a command drops the first of its steps, replaces it by    *)
(* one of `hydra init`, or gives up.                                       *)
Moved(s) ==
  /\ steps[s] # <<>> /\ Others(s) /\ steps' \in [Shells -> Seq(AStep)]
  /\ \/ Dropped(steps[s], steps'[s])
     \/ Doing(s, "config") /\ Replaced(steps[s], steps'[s], "init")
     \/ Doing(s, "init") /\ configFile = Missing /\ Replaced(steps[s], steps'[s], "open")
     \/ Doing(s, "open") /\ configFile' = Emptied /\ Replaced(steps[s], steps'[s], "write")
     \/ steps'[s] = <<>>

Acts(s) ==
  \/ Check(s) \/ Build(s) \/ Test(s) \/ Copy(s) \/ RemoveBin(s) \/ RemoveConfig(s)
  \/ Config(s) \/ InitChecks(s) \/ OpenConfig(s) \/ WriteConfig(s) \/ Stopped(s)

LEMMA Moves ==
  ASSUME InstallerTyped, NEW s \in Shells, Acts(s)
  PROVE  Moved(s)
<1>1. CASE Check(s) \/ Test(s)
  BY <1>1, Continues, Fails DEF Check, Test, Look, Doing, Moved
<1>2. CASE Build(s)
  BY <1>2, Continues, Fails DEF Build, AfterBuild, Doing, Moved
<1>3. CASE Copy(s)
  BY <1>3, Continues, Fails DEF Copy, Doing, Moved
<1>4. CASE RemoveBin(s)
  BY <1>4, Continues DEF RemoveBin, Doing, Moved
<1>5. CASE RemoveConfig(s)
  BY <1>5, Continues DEF RemoveConfig, Doing, Moved
<1>6. CASE Config(s)
  BY <1>6, Deeds, Continues, Becomes, Fails DEF Config, Doing, Moved
<1>7. CASE InitChecks(s)
  BY <1>7, Deeds, Becomes, Fails DEF InitChecks, Refuses, Doing, Moved
<1>8. CASE WriteConfig(s)
  BY <1>8, Continues DEF WriteConfig, Doing, Moved
<1>9. CASE Stopped(s)
  BY <1>9, Fails DEF Stopped, Moved
<1>10. CASE OpenConfig(s)
  BY <1>10, Deeds, Becomes DEF OpenConfig, Doing, Moved
<1> QED
  BY <1>1, <1>2, <1>3, <1>4, <1>5, <1>6, <1>7, <1>8, <1>9, <1>10 DEF Acts

LEMMA NextCases ==
  ASSUME InstallerNext
  PROVE  \/ \E s \in Shells : \E name : StartCommand(s, name)
         \/ \E s \in Shells : Acts(s)
         \/ Fetch
BY DEF InstallerNext, Acts

-----------------------------------------------------------------------------
(* The parts of the invariant, one by one.                                 *)
LEMMA RunTyped ==
  ASSUME InstallerTyped, NEW s \in Shells, Others(s)
  PROVE  run' \in [Shells -> [name : Command \cup {"none"}, found : Int]]
BY DEF InstallerTyped, Others

LEMMA TypedStep ==
  ASSUME InstallerTyped, InstallerNext
  PROVE  InstallerTyped'
<1>1. ASSUME NEW s \in Shells, NEW name, StartCommand(s, name)
      PROVE  InstallerTyped'
  <2>1. name \in Command /\ steps' \in [Shells -> Seq(AStep)]
    BY <1>1, Starts
  <2>2. run' = [run EXCEPT ![s] = [name |-> name, found |-> configFile]]
    BY <1>1, Starts
  <2>3. configFile \in Int
    BY DEF InstallerTyped, Emptied
  <2>4. run' \in [Shells -> [name : Command \cup {"none"}, found : Int]]
    BY <2>1, <2>2, <2>3 DEF InstallerTyped
  <2> QED
    BY <1>1, <2>1, <2>4 DEF InstallerTyped, StartCommand
<1>2. ASSUME NEW s \in Shells, Acts(s)
      PROVE  InstallerTyped'
  <2>1. Moved(s)
    BY <1>2, Moves
  <2>2. steps' \in [Shells -> Seq(AStep)] /\ run' \in [Shells -> [name : Command \cup {"none"}, found : Int]]
    BY <2>1, RunTyped DEF Moved
  <2>3. ThisBin(s) \in Bin
    <3>1. steps[s] \in Seq(AStep) /\ steps[s] # <<>>
      BY <2>1 DEF InstallerTyped, Moved
    <3>2. Head(steps[s]) \in AStep
      BY <3>1, NotEmpty
    <3> QED
      BY <3>2 DEF ThisBin, AStep
  <2>4. CASE UNCHANGED <<source, built, binaries, configFile, drawn>>
    BY <2>2, <2>4 DEF InstallerTyped
  <2>5. CASE Build(s)
    <3>1. built' \in [Bin -> 0..source]
      BY <2>5 DEF Build, InstallerTyped
    <3> QED
      BY <2>2, <2>5, <3>1 DEF Build, InstallerTyped
  <2>6. CASE Copy(s)
    <3>1. binaries' \in [Bin -> Nat \cup {Partial}]
      BY <2>6, <2>3 DEF Copy, InstallerTyped
    <3> QED
      BY <2>2, <2>6, <3>1 DEF Copy, InstallerTyped
  <2>7. CASE RemoveBin(s)
    <3>1. binaries' \in [Bin -> Nat \cup {Partial}]
      BY <2>7, <2>3 DEF RemoveBin, InstallerTyped, Missing
    <3> QED
      BY <2>2, <2>7, <3>1 DEF RemoveBin, InstallerTyped
  <2>8. CASE RemoveConfig(s)
    <3>1. configFile' \in Emptied..drawn
      BY <2>8 DEF RemoveConfig, InstallerTyped, Missing, Emptied
    <3> QED
      BY <2>2, <2>8, <3>1 DEF RemoveConfig, InstallerTyped
  <2>9. CASE WriteConfig(s)
    <3>1. drawn' \in Nat /\ configFile' \in Emptied..drawn'
      BY <2>9 DEF WriteConfig, RenderConfig, InstallerTyped, Partial, Emptied
    <3> QED
      BY <2>2, <2>9, <3>1 DEF WriteConfig, InstallerTyped
  <2>10. CASE Stopped(s)
    <3>1. binaries' \in [Bin -> Nat \cup {Partial}]
      BY <2>10, <2>3 DEF Stopped, InstallerTyped
    <3>2. configFile' \in Emptied..drawn
      BY <2>10 DEF Stopped, InstallerTyped, Partial, Emptied
    <3> QED
      BY <2>2, <2>10, <3>1, <3>2 DEF Stopped, InstallerTyped
  <2>11. CASE OpenConfig(s)
    <3>1. configFile' \in Emptied..drawn
      BY <2>11 DEF OpenConfig, InstallerTyped, Emptied
    <3> QED
      BY <2>2, <2>11, <3>1 DEF OpenConfig, InstallerTyped
  <2> QED
    BY <1>2, <2>4, <2>5, <2>6, <2>7, <2>8, <2>9, <2>10, <2>11
       DEF Acts, Check, Test, Look, Config, InitChecks
<1>3. CASE Fetch
  BY <1>3 DEF Fetch, InstallerTyped
<1> QED
  BY <1>1, <1>2, <1>3, NextCases

LEMMA ShapeStep ==
  ASSUME InstallerTyped, ShapeInv, InstallerNext
  PROVE  ShapeInv'
<1> DEFINE Ok(s) == /\ \A i \in 2..Len(steps[s]) : Does(steps[s][i]) \notin {"init", "open", "write"}
                    /\ s = "shell" => \A i \in 1..Len(steps[s]) : Does(steps[s][i]) \in {"init", "open", "write"}
<1>0. ShapeInv <=> \A s \in Shells : Ok(s)
  BY DEF ShapeInv, Shells
<1>00. ShapeInv' <=> \A s \in Shells : Ok(s)'
  BY DEF ShapeInv, Shells
<1> SUFFICES ASSUME NEW t \in Shells PROVE Ok(t)'
  BY <1>00
<1>1. ASSUME NEW s \in Shells, NEW name, StartCommand(s, name)
      PROVE  Ok(t)'
  <2> DEFINE p == Steps(name)
  <2>1. /\ Proper(name, p)
        /\ s = "shell" => name \in {"init", "init --force"}
        /\ steps' = [steps EXCEPT ![s] = p] /\ steps \in [Shells -> Seq(AStep)]
    BY <1>1, Starts DEF InstallerTyped
  <2> HIDE DEF p
  <2>2. CASE t = s
    <3>1. steps'[t] = p
      BY <2>1, <2>2
    <3>2. /\ \A i \in 2..Len(p) : Does(p[i]) \notin {"init", "open", "write"}
          /\ name \in {"init", "init --force"} => \A i \in 1..Len(p) : Does(p[i]) \in {"init", "open", "write"}
      BY <2>1, ProperFacts
    <3> QED
      BY <2>1, <2>2, <3>1, <3>2
  <2>3. CASE t # s
    <3>1. steps'[t] = steps[t]
      BY <2>1, <2>3
    <3> QED
      BY <1>0, <3>1
  <2> QED
    BY <2>2, <2>3
<1>2. ASSUME NEW s \in Shells, Acts(s)
      PROVE  Ok(t)'
  <2>1. Moved(s)
    BY <1>2, Moves
  <2>2. CASE t # s
    <3>1. steps'[t] = steps[t]
      BY <2>1, <2>2 DEF Moved, Others
    <3> QED
      BY <1>0, <3>1
  <2>3. CASE t = s
    <3> DEFINE p == steps[t]
               q == steps'[t]
    <3>1. /\ p \in Seq(AStep) /\ p # <<>>
          /\ \/ Dropped(p, q)
             \/ Doing(t, "config") /\ Replaced(p, q, "init")
             \/ \E do \in {"open", "write"} : Replaced(p, q, do)
             \/ q = <<>>
      BY <2>1, <2>3 DEF Moved, InstallerTyped
    <3>2. /\ \A i \in 2..Len(p) : Does(p[i]) \notin {"init", "open", "write"}
          /\ t = "shell" => \A i \in 1..Len(p) : Does(p[i]) \in {"init", "open", "write"}
      BY <1>0
    <3>3. Doing(t, "config") => Does(p[1]) = "config"
      BY Heads
    <3> SUFFICES /\ \A i \in 2..Len(q) : Does(q[i]) \notin {"init", "open", "write"}
                 /\ t = "shell" => \A i \in 1..Len(q) : Does(q[i]) \in {"init", "open", "write"}
      OBVIOUS
    <3> HIDE DEF p, q
    <3>4. Len(p) \in Nat \ {0}
      BY <3>1, NotEmpty
    <3>5. CASE Dropped(p, q)
      <4>1. \A i \in 1..Len(q) : i + 1 \in 2..Len(p) /\ i + 1 \in 1..Len(p) /\ q[i] = p[i + 1]
        BY <3>4, <3>5 DEF Dropped
      <4>2. \A i \in 2..Len(q) : i \in 1..Len(q)
        BY <3>4, <3>5 DEF Dropped
      <4> QED
        BY <3>2, <4>1, <4>2, Zenon
    <3>6. CASE Doing(t, "config") /\ Replaced(p, q, "init")
      <4>1. t # "shell"
        BY <3>1, <3>2, <3>3, <3>6, NotEmpty
      <4>2. \A i \in 2..Len(q) : i \in 2..Len(p) /\ q[i] = p[i]
        BY <3>6 DEF Replaced
      <4> QED
        BY <3>2, <4>1, <4>2, Zenon
    <3>7. CASE \E do \in {"open", "write"} : Replaced(p, q, do)
      <4>1. Does(q[1]) \in {"open", "write"} /\ Len(q) = Len(p) /\ \A i \in 2..Len(p) : q[i] = p[i]
        BY <3>7 DEF Replaced
      <4>2. \A i \in 1..Len(q) : i = 1 \/ (i \in 2..Len(q) /\ i \in 1..Len(q))
        BY <3>4, <4>1
      <4> QED
        BY <3>2, <4>1, <4>2, Zenon
    <3>8. CASE q = <<>>
      BY <3>8
    <3> QED
      BY <3>1, <3>5, <3>6, <3>7, <3>8
  <2> QED
    BY <2>2, <2>3
<1>3. CASE Fetch
  BY <1>0, <1>3 DEF Fetch
<1> QED
  BY <1>1, <1>2, <1>3, NextCases

LEMMA PendingStep ==
  ASSUME InstallerTyped, ShapeInv, PendingInv, InstallerNext
  PROVE  PendingInv'
<1> DEFINE Ok(s) ==
      /\ run[s].found <= drawn
      /\ Doing(s, "open") \/ Doing(s, "write") =>
           run[s].name = "init --force" \/ configFile \in Unwritten \/ run[s].found < configFile
<1>0. \A s \in Shells : Ok(s)
  BY DEF PendingInv
<1> SUFFICES ASSUME NEW t \in Shells PROVE Ok(t)'
  BY DEF PendingInv
<1>1. ASSUME NEW s \in Shells, NEW name, StartCommand(s, name)
      PROVE  Ok(t)'
  <2>1. /\ Proper(name, Steps(name)) /\ steps' = [steps EXCEPT ![s] = Steps(name)]
        /\ run' = [run EXCEPT ![s] = [name |-> name, found |-> configFile]]
    BY <1>1, Starts
  <2>2. InstallerTyped'
    BY TypedStep
  <2>3. UNCHANGED <<configFile, drawn>>
    BY <1>1 DEF StartCommand
  <2>4. CASE t = s
    <3>1. steps'[t] = Steps(name) /\ run'[t] = [name |-> name, found |-> configFile]
      BY <2>1, <2>4 DEF InstallerTyped
    <3>2. configFile <= drawn
      BY DEF InstallerTyped, Emptied
    <3>3. (Doing(t, "open") \/ Doing(t, "write"))' => Does(steps'[t][1]) \in {"open", "write"}
      BY <2>2, HeadDoes DEF Doing, InstallerTyped
    <3>4. Does(Steps(name)[1]) \in {"open", "write"} => name = "init --force"
      BY <2>1 DEF Proper
    <3>5. (run[t].found <= drawn)'
      BY <2>3, <3>1, <3>2
    <3>6. Does(steps'[t][1]) \in {"open", "write"} => name = "init --force"
      BY <3>1, <3>4
    <3>7. (run[t].name)' = name
      BY <3>1
    <3> QED
      BY <3>3, <3>5, <3>6, <3>7
  <2>5. CASE t # s
    <3>1. steps'[t] = steps[t] /\ run'[t] = run[t]
      BY <2>1, <2>5 DEF InstallerTyped
    <3> QED
      BY <1>0, <2>3, <3>1 DEF Doing
  <2> QED
    BY <2>4, <2>5
<1>2. ASSUME NEW s \in Shells, Acts(s)
      PROVE  Ok(t)'
  <2>1. Moved(s) /\ run' = run
    BY <1>2, Moves DEF Moved, Others
  <2>2. /\ run[t].found \in Int /\ drawn \in Nat /\ configFile \in Int /\ Unwritten = {0, -1, -2}
        /\ run[t].found <= drawn
    <3>1. run[t] \in [name : Command \cup {"none"}, found : Int]
      BY DEF InstallerTyped
    <3>2. drawn \in Nat /\ configFile \in Int /\ Unwritten = {0, -1, -2}
      BY DEF InstallerTyped, Unwritten, Missing, Partial, Emptied
    <3> QED
      BY <1>0, <3>1, <3>2
  <2>3. /\ drawn' >= drawn
        /\ configFile' \in {configFile, drawn + 1} \cup Unwritten
    <3>1. CASE UNCHANGED <<configFile, drawn>>
      BY <2>2, <3>1
    <3>2. CASE RemoveConfig(s)
      BY <2>2, <3>2 DEF RemoveConfig, Unwritten
    <3>3. CASE WriteConfig(s)
      BY <2>2, <3>3 DEF WriteConfig, RenderConfig, Unwritten
    <3>4. CASE Stopped(s)
      BY <2>2, <3>4 DEF Stopped, Unwritten
    <3>5. CASE OpenConfig(s)
      BY <2>2, <3>5 DEF OpenConfig, Unwritten
    <3> QED
      BY <1>2, <3>1, <3>2, <3>3, <3>4, <3>5
         DEF Acts, Check, Test, Look, Build, Copy, RemoveBin, Config, InitChecks
  <2>4. run[t].found <= drawn' /\ drawn' \in Nat
    BY <2>2, <2>3, TypedStep DEF InstallerTyped
  <2>5. CASE t # s
    <3>1. steps'[t] = steps[t]
      BY <2>1, <2>5 DEF Moved, Others
    <3>2. (Doing(t, "open") \/ Doing(t, "write"))' => Doing(t, "open") \/ Doing(t, "write")
      BY <3>1 DEF Doing
    <3>3. \/ configFile \in Unwritten \/ run[t].found < configFile
          => configFile' \in Unwritten \/ run[t].found < configFile'
      BY <2>2, <2>3
    <3> QED
      BY <1>0, <2>1, <2>4, <3>2, <3>3
  <2>6. CASE t = s
    <3> DEFINE p == steps[t]
               q == steps'[t]
    <3>1. /\ p \in Seq(AStep) /\ p # <<>>
          /\ \/ Dropped(p, q)
             \/ Doing(t, "config") /\ Replaced(p, q, "init")
             \/ Doing(t, "init") /\ configFile = Missing /\ Replaced(p, q, "open")
             \/ Doing(t, "open") /\ configFile' = Emptied /\ Replaced(p, q, "write")
             \/ q = <<>>
      BY <2>1, <2>6 DEF Moved, InstallerTyped
    <3>2. \A i \in 2..Len(p) : Does(p[i]) \notin {"init", "open", "write"}
      BY DEF ShapeInv
    <3>3. (Doing(t, "open") \/ Doing(t, "write"))' <=> q # <<>> /\ Does(q[1]) \in {"open", "write"}
      BY TypedStep, HeadDoes DEF Doing, InstallerTyped
    <3> SUFFICES ASSUME q # <<>>, Does(q[1]) \in {"open", "write"}
                 PROVE  configFile' \in Unwritten \/ run[t].found < configFile'
      BY <2>1, <2>4, <3>3
    <3> HIDE DEF p, q
    <3>4. CASE Dropped(p, q)
      BY <3>1, <3>2, <3>4, SecondOf
    <3>5. CASE Doing(t, "config") /\ Replaced(p, q, "init")
      BY <3>5 DEF Replaced
    <3>6. CASE Doing(t, "init") /\ configFile = Missing
      <4>1. InitChecks(s) \/ Stopped(s)
        BY <1>2, <2>6, <3>6 DEF Acts, Check, Test, Look, Build, Copy, RemoveBin, RemoveConfig, Config,
                                 OpenConfig, WriteConfig, Doing
      <4>2. ~Stopped(s)
        BY <2>6 DEF Stopped, Fail, InstallerTyped, q
      <4> QED
        BY <3>6, <4>1, <4>2 DEF InitChecks, Unwritten
    <3>7. CASE q = <<>>
      BY <3>7
    <3>8. CASE configFile' = Emptied
      BY <3>8 DEF Unwritten
    <3> QED
      BY <3>1, <3>4, <3>5, <3>6, <3>7, <3>8
  <2> QED
    BY <2>5, <2>6
<1>3. CASE Fetch
  BY <1>0, <1>3 DEF Fetch, Doing
<1> QED
  BY <1>1, <1>2, <1>3, NextCases

-----------------------------------------------------------------------------
(* Where in `xtask all` a step is.                                         *)
LEMMA WhereInAll ==
  ASSUME NEW k \in 1..Len(Bins) + 4, NEW do, Does(Steps("all")[k]) = do
  PROVE  /\ do \in {"check", "build", "test", "copy", "config"}
         /\ do = "check" => k = 1
         /\ do = "build" => k = 2
         /\ do = "test" => k = 3
         /\ do = "copy" => k \in 4..Len(Bins)+3 /\ For(Steps("all")[k]) = Bins[k - 3]
         /\ do = "config" => k = Len(Bins) + 4
<1>1. k \in {1, 2, 3, Len(Bins) + 4} \cup 4..Len(Bins)+3
  BY BinsFacts
<1> QED
  BY <1>1, AllProgram

LEMMA AboveOne == \A n \in Nat : 1 \notin 2..n + 1
OBVIOUS

LEMMA Places ==
  ASSUME NEW n \in Nat \ {0}, NEW m \in 1..n + 4
  PROVE  /\ n + 5 - m = 1 => m = n + 4
         /\ n + 5 - m = 2 => m = n + 3
         /\ n + 5 - m = 3 => m = n + 2
         /\ n + 5 - m \in 4..n+3 => m \in 2..n+1 /\ (n + 5 - m) - 3 = n + 2 - m
         /\ n + 5 - m = n + 4 => m = 1
OBVIOUS

LEMMA HeadOfAll ==
  ASSUME InstallerTyped, AllInv, run["xtask"].name = "all", NEW do, Doing("xtask", do)
  PROVE  LET left == Len(steps["xtask"])
         IN  /\ left \in 1..Len(Bins) + 4
             /\ do \in {"check", "build", "test", "copy", "config", "init", "open", "write"}
             /\ do = "check" => left = Len(Bins) + 4
             /\ do = "build" => left = Len(Bins) + 3
             /\ do = "test" => left = Len(Bins) + 2
             /\ do = "copy" => left \in 2..Len(Bins)+1 /\ ThisBin("xtask") = Bins[Len(Bins) + 2 - left]
             /\ do \in {"config", "init", "open", "write"} => left = 1
<1> DEFINE p == steps["xtask"]
           k == Len(Bins) + 5 - Len(p)
<1>1. p \in Seq(AStep) /\ p # <<>> /\ Does(p[1]) = do
  BY Heads DEF InstallerTyped, Shells
<1>2. LeftOfAll(p)
  BY <1>1 DEF AllInv
<1>3. ThisBin("xtask") = For(p[1])
  BY <1>1, NotEmpty DEF ThisBin, For
<1> HIDE DEF p
<1>4. Len(p) \in 1..Len(Bins) + 4 /\ 1 \in 1..Len(p)
  BY <1>1, <1>2, NotEmpty, BinsFacts DEF LeftOfAll
<1>5. Len(Bins) + 4 - Len(p) + 1 = k /\ k \in 1..Len(Bins) + 4
  BY <1>4, BinsFacts
<1>6. p[1] = Steps("all")[k] \/ (Len(p) = 1 /\ Does(p[1]) \in {"init", "open", "write"})
  BY <1>2, <1>4, <1>5 DEF LeftOfAll
<1>7. CASE p[1] = Steps("all")[k]
  <2>1. Does(Steps("all")[k]) = do
    BY <1>1, <1>7
  <2> HIDE DEF k
  <2>2. /\ do \in {"check", "build", "test", "copy", "config"}
        /\ do = "check" => k = 1
        /\ do = "build" => k = 2
        /\ do = "test" => k = 3
        /\ do = "copy" => k \in 4..Len(Bins)+3 /\ For(Steps("all")[k]) = Bins[k - 3]
        /\ do = "config" => k = Len(Bins) + 4
    BY <1>5, <2>1, WhereInAll
  <2>3. /\ k = 1 => Len(p) = Len(Bins) + 4
        /\ k = 2 => Len(p) = Len(Bins) + 3
        /\ k = 3 => Len(p) = Len(Bins) + 2
        /\ k \in 4..Len(Bins)+3 => Len(p) \in 2..Len(Bins)+1 /\ k - 3 = Len(Bins) + 2 - Len(p)
        /\ k = Len(Bins) + 4 => Len(p) = 1
    BY <1>4, Places, BinsFacts DEF k
  <2> QED
    BY <1>3, <1>4, <1>7, <2>2, <2>3 DEF p
<1>8. CASE Len(p) = 1 /\ Does(p[1]) \in {"init", "open", "write"}
  BY <1>1, <1>4, <1>8 DEF p
<1> QED
  BY <1>6, <1>7, <1>8

LEMMA LeftDropped ==
  ASSUME NEW p \in Seq(AStep), NEW q, p # <<>>, LeftOfAll(p), Dropped(p, q)
  PROVE  LeftOfAll(q)
<1>1. /\ Len(p) \in Nat \ {0} /\ Len(q) = Len(p) - 1 /\ Len(p) <= Len(Bins) + 4
      /\ \A i \in 1..Len(p) - 1 : q[i] = p[i + 1]
  BY NotEmpty DEF Dropped, LeftOfAll
<1>2. SUFFICES ASSUME NEW i \in 1..Len(q)
               PROVE  q[i] = Steps("all")[Len(Bins) + 4 - Len(q) + i]
  BY <1>1, BinsFacts DEF LeftOfAll
<1>3. /\ i \in 1..Len(p) - 1 /\ i + 1 \in 1..Len(p) /\ Len(p) # 1
      /\ Len(Bins) + 4 - Len(q) + i = Len(Bins) + 4 - Len(p) + (i + 1)
  BY <1>1, BinsFacts
<1>4. \A j \in 1..Len(p) : p[j] = Steps("all")[Len(Bins) + 4 - Len(p) + j]
  BY <1>3, Zenon DEF LeftOfAll
<1>5. p[i + 1] = Steps("all")[Len(Bins) + 4 - Len(p) + (i + 1)]
  BY <1>3, <1>4, Zenon
<1> QED
  BY <1>1, <1>3, <1>5

LEMMA LeftReplaced ==
  ASSUME NEW p, NEW q, Len(p) = 1, NEW do \in {"init", "open", "write"}, Replaced(p, q, do)
  PROVE  LeftOfAll(q)
<1>1. Len(q) = 1 /\ Does(q[1]) = do
  BY DEF Replaced
<1>2. 1 <= Len(Bins) + 4 /\ \A i \in 1..1 : i = 1
  BY BinsFacts
<1>3. Len(q) <= Len(Bins) + 4
  BY <1>1, <1>2, Zenon
<1>4. \A i \in 1..Len(q) : Len(q) = 1 /\ Does(q[i]) \in {"init", "open", "write"}
  BY <1>1, <1>2, Zenon
<1> QED
  BY <1>3, <1>4, Zenon DEF LeftOfAll

(* The steps of the other shell leave alone what `xtask all` installs.     *)
LEMMA ShellActs ==
  ASSUME InstallerTyped, ShapeInv, Acts("shell")
  PROVE  /\ UNCHANGED <<source, built, binaries, run, ended>> /\ steps'["xtask"] = steps["xtask"]
         /\ configFile # Missing => configFile' # Missing
<1>1. \A do : Doing("shell", do) => do \in {"init", "open", "write"}
  <2>1. steps["shell"] \in Seq(AStep)
    BY DEF InstallerTyped, Shells
  <2>2. steps["shell"] # <<>> => Does(steps["shell"][1]) \in {"init", "open", "write"}
    BY <2>1, NotEmpty DEF ShapeInv
  <2> QED
    BY <2>2, Heads DEF Shells
<1>2. steps'["xtask"] = steps["xtask"] /\ run' = run
  BY Moves DEF Moved, Others, Shells
<1>3. InitChecks("shell") \/ OpenConfig("shell") \/ WriteConfig("shell") \/ Stopped("shell")
  BY <1>1 DEF Acts, Check, Test, Look, Build, Copy, RemoveBin, RemoveConfig, Config
<1>4. UNCHANGED <<source, built, binaries, ended>>
  BY <1>1, <1>3 DEF InitChecks, OpenConfig, WriteConfig, Stopped, Continue, Fail
<1>5. configFile # Missing => configFile' # Missing
  BY <1>3 DEF InitChecks, OpenConfig, WriteConfig, RenderConfig, Stopped, InstallerTyped, Missing, Partial, Emptied
<1> QED
  BY <1>2, <1>4, <1>5

LEMMA OpenStep ==
  ASSUME InstallerTyped, ShapeInv, OpenInv, InstallerNext
  PROVE  OpenInv'
<1> DEFINE p == steps["xtask"]
           q == steps'["xtask"]
<1>1. p \in Seq(AStep) /\ q \in Seq(AStep) /\ "xtask" \in Shells
  BY TypedStep DEF InstallerTyped, Shells
<1>2. Doing("xtask", "write") <=> p # <<>> /\ Does(p[1]) = "write"
  BY <1>1, HeadDoes DEF Doing
<1>3. Doing("xtask", "write")' <=> q # <<>> /\ Does(q[1]) = "write"
  BY <1>1, HeadDoes DEF Doing
<1> SUFFICES ASSUME q # <<>>, Does(q[1]) = "write" PROVE configFile' # Missing
  BY <1>3 DEF OpenInv
<1>4. CASE q = p /\ (configFile # Missing => configFile' # Missing)
  BY <1>2, <1>4 DEF OpenInv
<1>5. ASSUME NEW s \in Shells, NEW name, StartCommand(s, name)
      PROVE  configFile' # Missing
  <2>1. CASE s = "xtask"
    <3> DEFINE o == Steps(name)
    <3>1. name \in XtaskCommands /\ Proper(name, o) /\ steps' = [steps EXCEPT ![s] = o]
      BY <1>5, <2>1, Starts
    <3> HIDE DEF o
    <3>2. q = o
      BY <2>1, <3>1 DEF InstallerTyped
    <3>3. Does(o[1]) = "write"
      BY <3>2
    <3>4. name = "init --force"
      BY <3>1, <3>3, ProperFacts
    <3> QED
      BY <3>1, <3>4 DEF XtaskCommands
  <2>2. CASE s # "xtask"
    <3>1. q = p /\ configFile' = configFile
      BY <1>5, <2>2 DEF StartCommand, InstallerTyped, Shells
    <3> QED
      BY <1>4, <3>1
  <2> QED
    BY <2>1, <2>2
<1>6. CASE Acts("shell")
  BY <1>4, <1>6, ShellActs
<1>7. CASE Acts("xtask")
  <2>1. /\ p # <<>>
        /\ \/ Dropped(p, q)
           \/ Replaced(p, q, "init") \/ Replaced(p, q, "open")
           \/ configFile' = Emptied
    BY <1>1, <1>7, Moves DEF Moved
  <2>2. \A i \in 2..Len(p) : Does(p[i]) # "write"
    BY <1>1 DEF ShapeInv
  <2> HIDE DEF p, q
  <2>3. ~Dropped(p, q)
    BY <1>1, <2>1, <2>2, SecondOf
  <2>4. ~Replaced(p, q, "init") /\ ~Replaced(p, q, "open")
    BY DEF Replaced
  <2> QED
    BY <2>1, <2>3, <2>4 DEF Emptied, Missing
<1>8. CASE Fetch
  BY <1>4, <1>8 DEF Fetch
<1> QED
  BY <1>5, <1>6, <1>7, <1>8, NextCases DEF Shells

LEMMA OneBuildKept ==
  ASSUME NEW n \in Int, OneBuild(n, source, built, binaries), source \in Nat, source' \in Nat, source <= source',
         UNCHANGED <<built, binaries>>
  PROVE  OneBuild(n, source', built', binaries')
BY DEF OneBuild

(* A step of `xtask all` leaves a program of its own, and the copies it    *)
(* has made are all of one build.                                          *)
LEMMA AllActs ==
  ASSUME InstallerTyped, AllInv, run["xtask"].name = "all", Acts("xtask"), steps'["xtask"] # <<>>
  PROVE  /\ LeftOfAll(steps'["xtask"])
         /\ Len(steps'["xtask"]) <= Len(Bins) + 2 =>
                OneBuild(Len(Bins) + 1 - Len(steps'["xtask"]), source', built', binaries')
<1> DEFINE p == steps["xtask"]
           q == steps'["xtask"]
           n == Len(Bins)
<1>1. /\ p \in Seq(AStep) /\ p # <<>>
      /\ \/ Dropped(p, q)
         \/ Doing("xtask", "config") /\ Replaced(p, q, "init")
         \/ Doing("xtask", "init") /\ Replaced(p, q, "open")
         \/ Doing("xtask", "open") /\ Replaced(p, q, "write")
  BY Moves DEF Moved, Shells, InstallerTyped
<1>2. LeftOfAll(p) /\ (Len(p) <= n + 2 => OneBuild(n + 1 - Len(p), source, built, binaries))
  BY <1>1 DEF AllInv
<1>3. \A do : Doing("xtask", do) =>
        /\ do \in {"check", "build", "test", "copy", "config", "init", "open", "write"}
        /\ do = "check" => Len(p) = n + 4
        /\ do = "build" => Len(p) = n + 3
        /\ do = "test" => Len(p) = n + 2
        /\ do = "copy" => Len(p) \in 2..n + 1 /\ ThisBin("xtask") = Bins[n + 2 - Len(p)]
        /\ do \in {"config", "init", "open", "write"} => Len(p) = 1
  BY HeadOfAll
<1>4. source \in Nat /\ source # 0 /\ source' = source
  BY DEF Acts, InstallerTyped, Check, Test, Look, Build, Copy, RemoveBin, RemoveConfig, Config, InitChecks,
         OpenConfig, WriteConfig, Stopped
<1>5. ~Stopped("xtask")
  BY DEF Stopped, Fail, InstallerTyped, Shells
<1>6. n \in Nat \ {0} /\ Len(p) \in Nat \ {0}
  BY <1>1, NotEmpty, BinsFacts
<1>7. q # <<>>
  OBVIOUS
<1> HIDE DEF p, q, n
<1>8. Dropped(p, q) => Len(q) = Len(p) - 1 /\ q \in Seq(AStep) /\ Len(q) # 0
  <2>1. Dropped(p, q) => Len(q) = Len(p) - 1 /\ q \in Seq(AStep)
    BY DEF Dropped
  <2> QED
    BY <1>7, <2>1, NotEmpty
<1>9. CASE Check("xtask")
  <2>1. Len(p) = n + 4 /\ Doing("xtask", "check")
    BY <1>3, <1>9 DEF Check, Look
  <2>2. Dropped(p, q)
    BY <1>1, <1>3, <1>6, <2>1
  <2>3. ~(Len(q) <= n + 2)
    BY <1>6, <1>8, <2>1, <2>2
  <2> QED
    BY <1>1, <1>2, <2>2, <2>3, LeftDropped DEF q, n
<1>10. CASE Test("xtask")
  <2>1. Len(p) = n + 2 /\ Doing("xtask", "test") /\ UNCHANGED <<built, binaries>>
    BY <1>3, <1>10 DEF Test, Look
  <2>2. Dropped(p, q)
    BY <1>1, <1>3, <1>6, <2>1
  <2>3. Len(p) <= n + 2 /\ n + 1 - Len(p) = -1 /\ n + 1 - Len(q) = 0
    BY <1>6, <1>8, <2>1, <2>2
  <2>4. OneBuild(n + 1 - Len(q), source', built', binaries')
    <3>1. PICK v \in 1..source : \A b \in Bin : built[b] = v
      BY <1>2, <2>3 DEF OneBuild
    <3> SUFFICES OneBuild(0, source', built', binaries')
      BY <2>3 DEF q
    <3> QED
      BY <1>4, <2>1, <3>1 DEF OneBuild
  <2> QED
    BY <1>1, <1>2, <2>2, <2>4, LeftDropped DEF q, n
<1>11. CASE Build("xtask")
  <2>1. Len(p) = n + 3 /\ Doing("xtask", "build")
    BY <1>3, <1>11 DEF Build
  <2>2. Dropped(p, q)
    BY <1>1, <1>3, <1>6, <2>1
  <2>3. n + 1 - Len(q) = -1
    BY <1>6, <1>8, <2>1, <2>2
  <2>4. \A b \in Bin : built'[b] = source
    BY <1>7, <1>11 DEF Build, AfterBuild, Fail, InstallerTyped, Shells, q
  <2>5. OneBuild(n + 1 - Len(q), source', built', binaries')
    <3> SUFFICES OneBuild(-1, source', built', binaries')
      BY <2>3 DEF q
    <3> QED
      BY <1>4, <2>4 DEF OneBuild
  <2> QED
    BY <1>1, <1>2, <2>2, <2>5, LeftDropped DEF q, n
<1>12. CASE Copy("xtask")
  <2> DEFINE i == n + 2 - Len(p)
  <2>1. Len(p) \in 2..n + 1 /\ ThisBin("xtask") = Bins[i] /\ Doing("xtask", "copy")
    BY <1>3, <1>12 DEF Copy
  <2>2. Dropped(p, q)
    <3>0. Len(p) \in 2..n + 1
      BY <2>1
    <3>1. Len(p) # 1
      BY <1>6, <3>0, AboveOne
    <3>2. ~Doing("xtask", "config") /\ ~Doing("xtask", "init") /\ ~Doing("xtask", "open")
      BY <1>3, <3>1
    <3> QED
      BY <1>1, <3>2
  <2>3. Len(p) <= n + 2 /\ i \in 1..n /\ n + 1 - Len(p) = i - 1 /\ n + 1 - Len(q) = i
    BY <1>6, <1>8, <2>1, <2>2
  <2> HIDE DEF i
  <2>4. OneBuild(i - 1, source, built, binaries)
    BY <1>2, <2>3
  <2>5. PICK v \in 1..source : (\A b \in Bin : built[b] = v) /\ \A j \in 1..i - 1 : binaries[Bins[j]] = v
    BY <2>4 DEF OneBuild
  <2>6. Bins[i] \in Bin
    BY <2>3, BinsFacts DEF n
  <2>7. built' = built /\ binaries' = [binaries EXCEPT ![Bins[i]] = v]
    BY <1>7, <1>12, <2>1, <2>5, <2>6 DEF Copy, Fail, InstallerTyped, Shells, q
  <2>8. \A j \in 1..i : Bins[j] \in Bin /\ (j = i \/ j \in 1..i - 1)
    BY <2>3, BinsFacts DEF n
  <2>9. \A j \in 1..i : binaries'[Bins[j]] = v
    BY <2>5, <2>6, <2>7, <2>8 DEF InstallerTyped
  <2>10. OneBuild(i, source', built', binaries')
    BY <1>4, <2>5, <2>7, <2>9 DEF OneBuild
  <2>11. OneBuild(n + 1 - Len(q), source', built', binaries')
    BY <2>3, <2>10 DEF q
  <2> QED
    BY <1>1, <1>2, <2>2, <2>11, LeftDropped DEF q, n
<1>13. CASE Config("xtask") \/ InitChecks("xtask") \/ OpenConfig("xtask") \/ WriteConfig("xtask")
  <2>1. Len(p) = 1 /\ UNCHANGED <<built, binaries>>
    BY <1>3, <1>13 DEF Config, InitChecks, OpenConfig, WriteConfig
  <2>2. ~Dropped(p, q)
    BY <1>8, <2>1
  <2>3. LeftOfAll(q) /\ Len(q) = 1
    BY <1>1, <2>1, <2>2, LeftReplaced DEF Replaced
  <2>4. OneBuild(n, source, built, binaries)
    BY <1>2, <1>6, <2>1
  <2>5. OneBuild(n + 1 - Len(q), source', built', binaries')
    <3>1. OneBuild(n, source', built', binaries')
      BY <1>4, <2>1, <2>4 DEF OneBuild
    <3> QED
      BY <1>6, <2>3, <3>1 DEF q, n
  <2> QED
    BY <2>3, <2>5 DEF q, n
<1>14. CASE RemoveBin("xtask") \/ RemoveConfig("xtask")
  BY <1>3, <1>14 DEF RemoveBin, RemoveConfig
<1> QED
  BY <1>5, <1>9, <1>10, <1>11, <1>12, <1>13, <1>14 DEF Acts

LEMMA AllStep ==
  ASSUME InstallerTyped, ShapeInv, AllInv, InstallerNext
  PROVE  AllInv'
<1> DEFINE q == steps'["xtask"]
           n == Len(Bins)
           Goal == /\ LeftOfAll(q)
                   /\ Len(q) <= n + 2 => OneBuild(n + 1 - Len(q), source', built', binaries')
           Kept == /\ run'["xtask"] = run["xtask"] /\ q = steps["xtask"]
                   /\ source' \in Nat /\ source <= source' /\ UNCHANGED <<built, binaries>>
<1>0. source \in Nat /\ "xtask" \in Shells /\ "shell" \in Shells
  BY DEF InstallerTyped, Shells
<1> SUFFICES ASSUME (run["xtask"].name = "all")', q # <<>>
             PROVE  Goal
  BY DEF AllInv
<1>1. ASSUME Kept PROVE Goal
  <2>1. LeftOfAll(q) /\ (Len(q) <= n + 2 => OneBuild(n + 1 - Len(q), source, built, binaries))
    BY <1>1 DEF AllInv
  <2>2. 1..source \subseteq 1..source'
    BY <1>0, <1>1
  <2> HIDE DEF q, n
  <2> QED
    BY <1>1, <2>1, <2>2, Zenon DEF OneBuild
<1>2. ASSUME NEW s \in Shells, NEW name, StartCommand(s, name)
      PROVE  Goal
  <2>1. /\ steps' = [steps EXCEPT ![s] = Steps(name)] /\ run' = [run EXCEPT ![s] = [name |-> name, found |-> configFile]]
        /\ UNCHANGED <<source, built, binaries>>
    BY <1>2, Starts DEF StartCommand
  <2>2. CASE s = "xtask"
    <3>1. name = "all" /\ q = Steps("all")
      BY <1>0, <2>1, <2>2 DEF InstallerTyped
    <3>2. Len(q) = n + 4
      BY <3>1, AllProgram
    <3>3. n \in Nat
      BY BinsFacts
    <3> HIDE DEF q, n
    <3>4. ~(Len(q) <= n + 2) /\ Len(q) <= n + 4 /\ \A i \in 1..Len(q) : n + 4 - Len(q) + i = i
      BY <3>2, <3>3
    <3>5. LeftOfAll(q)
      BY <3>1, <3>4, Zenon DEF LeftOfAll, n
    <3> QED
      BY <3>4, <3>5
  <2>3. CASE s # "xtask"
    <3>1. run'["xtask"] = run["xtask"] /\ q = steps["xtask"]
      BY <1>0, <2>1, <2>3 DEF InstallerTyped
    <3>2. Kept
      BY <1>0, <2>1, <3>1
    <3> HIDE DEF Goal, Kept
    <3> QED
      BY <1>1, <3>2
  <2> QED
    BY <2>2, <2>3
<1>3. CASE Acts("xtask")
  <2>1. run' = run
    BY <1>0, <1>3, Moves DEF Moved, Others
  <2> QED
    BY <1>3, <2>1, AllActs
<1>4. CASE Acts("shell") \/ Fetch
  <2>1. Kept
    BY <1>0, <1>4, ShellActs DEF Fetch
  <2> HIDE DEF Goal, Kept
  <2> QED
    BY <1>1, <2>1
<1> QED
  BY <1>2, <1>3, <1>4, NextCases DEF Shells

LEMMA EndedStep ==
  ASSUME InstallerTyped, ShapeInv, OpenInv, AllInv, EndedInv, InstallerNext
  PROVE  EndedInv'
<1> DEFINE p == steps["xtask"]
           q == steps'["xtask"]
           All == configFile # Missing /\ \E v \in 1..source : \A b \in Bin : binaries[b] = v
<1>0. source \in Nat /\ "xtask" \in Shells /\ "shell" \in Shells
  BY DEF InstallerTyped, Shells
<1>00. (p # <<>> => ended = "running") /\ (ended = "all" => All)
  BY DEF EndedInv, AllInstallsOneBuild
<1> SUFFICES (q # <<>> => ended' = "running") /\ (ended' = "all" => All')
  BY DEF EndedInv, AllInstallsOneBuild
<1>1. CASE /\ ended' = ended /\ q = p /\ source' \in Nat /\ source <= source' /\ binaries' = binaries
           /\ configFile # Missing => configFile' # Missing
  <2>1. All => All'
    BY <1>0, <1>1
  <2> QED
    BY <1>00, <1>1, <2>1
<1>2. ASSUME NEW s \in Shells, NEW name, StartCommand(s, name)
      PROVE  (q # <<>> => ended' = "running") /\ (ended' = "all" => All')
  <2>1. CASE s = "xtask"
    BY <1>2, <2>1 DEF StartCommand
  <2>2. CASE s # "xtask"
    <3>1. ended' = ended /\ q = p /\ UNCHANGED <<source, binaries, configFile>>
      BY <1>2, <2>2 DEF StartCommand, InstallerTyped, Shells
    <3> QED
      BY <1>0, <1>1, <3>1
  <2> QED
    BY <2>1, <2>2
<1>3. CASE Acts("xtask")
  <2>1. p # <<>> /\ ended = "running" /\ run' = run /\ p \in Seq(AStep)
    BY <1>0, <1>00, <1>3, Moves DEF Moved, Others, InstallerTyped
  <2>2. ended' # ended => q = <<>>
    <3>1. Continue("xtask", <<>>) \/ Fail("xtask") \/ \E do \in Deed : Continue("xtask", Step(do))
      BY <1>3, Deeds DEF Acts, Check, Test, Look, Build, AfterBuild, Copy, RemoveBin, RemoveConfig, Config,
                         InitChecks, OpenConfig, WriteConfig, Stopped
    <3>2. \A more : Continue("xtask", more) /\ ended' # ended => q = <<>>
      BY <1>0 DEF Continue, InstallerTyped
    <3> QED
      BY <1>0, <3>1, <3>2 DEF Fail, InstallerTyped
  <2>3. ASSUME ended' = "all" PROVE All'
    <3>1. q = <<>>
      BY <2>1, <2>2, <2>3
    <3>2. ~Fail("xtask")
      BY <2>3 DEF Fail
    <3>3. \A do \in Deed : ~Continue("xtask", Step(do))
      <4> SUFFICES ASSUME NEW do \in Deed, Continue("xtask", Step(do)) PROVE FALSE
        OBVIOUS
      <4>1. Replaced(p, q, do)
        BY <1>0, <2>1, Becomes
      <4>2. Len(q) = Len(p)
        BY <4>1 DEF Replaced
      <4>3. Len(p) # 0
        BY <2>1, NotEmpty
      <4> QED
        BY <3>1, <4>2, <4>3
    <3>4. Continue("xtask", <<>>)
      BY <1>3, <3>2, <3>3, Deeds
         DEF Acts, Check, Test, Look, Build, AfterBuild, Copy, RemoveBin, RemoveConfig, Config,
             InitChecks, OpenConfig, WriteConfig, Stopped
    <3>5. run["xtask"].name = "all"
      BY <2>1, <2>3, <3>4 DEF Continue
    <3>6. Len(p) = 1
      <4>1. Dropped(p, q)
        BY <1>0, <2>1, <3>4, Continues
      <4>2. Len(p) \in Nat /\ Len(q) = Len(p) - 1
        BY <2>1, <4>1, NotEmpty DEF Dropped
      <4>3. Len(q) = 0
        BY <3>1
      <4> HIDE DEF p, q
      <4> QED
        BY <4>2, <4>3
    <3>7. \E v \in 1..source : \A b \in Bin : binaries[b] = v
      <4>1. Len(p) <= Len(Bins) + 2 /\ Len(Bins) + 1 - Len(p) = Len(Bins)
        BY <3>6, BinsFacts
      <4>2. OneBuild(Len(Bins), source, built, binaries)
        BY <2>1, <3>5, <4>1 DEF AllInv
      <4> QED
        BY <4>2, BinsFacts DEF OneBuild, Bin
    <3>8. \A do : Doing("xtask", do) => do \in {"config", "init", "open", "write"}
      <4> SUFFICES ASSUME NEW do, Doing("xtask", do) PROVE do \in {"config", "init", "open", "write"}
        OBVIOUS
      <4> DEFINE m == Len(p)
      <4>1. /\ do \in {"check", "build", "test", "copy", "config", "init", "open", "write"}
            /\ do = "check" => m = Len(Bins) + 4
            /\ do = "build" => m = Len(Bins) + 3
            /\ do = "test" => m = Len(Bins) + 2
            /\ do = "copy" => m \in 2..Len(Bins)+1
        BY <3>5, HeadOfAll
      <4> HIDE DEF m
      <4>2. m = 1
        BY <3>6 DEF m
      <4>3. m # Len(Bins) + 4 /\ m # Len(Bins) + 3 /\ m # Len(Bins) + 2 /\ m \notin 2..Len(Bins)+1
        BY <4>2, BinsFacts
      <4> QED
        BY <4>1, <4>3
    <3>9. Config("xtask") \/ WriteConfig("xtask")
      BY <1>3, <3>2, <3>3, <3>8, Deeds
         DEF Acts, Check, Test, Look, Build, Copy, RemoveBin, RemoveConfig, InitChecks,
             OpenConfig, Stopped
    <3>10. CASE Config("xtask")
      BY <3>2, <3>3, <3>7, <3>10, Deeds DEF Config
    <3>11. CASE WriteConfig("xtask")
      <4>1. /\ configFile' \in {configFile, drawn + 1, Partial}
            /\ drawn \in Nat /\ UNCHANGED <<source, binaries>> /\ Doing("xtask", "write")
        BY <3>11 DEF WriteConfig, RenderConfig, InstallerTyped
      <4>2. configFile' # Missing
        BY <4>1 DEF OpenInv, Missing, Partial
      <4> QED
        BY <3>7, <4>1, <4>2
    <3> QED
      BY <3>9, <3>10, <3>11
  <2> QED
    BY <2>1, <2>2, <2>3
<1>4. CASE Acts("shell")
  <2>1. UNCHANGED <<source, binaries, ended>> /\ q = p /\ (configFile # Missing => configFile' # Missing)
    BY <1>4, ShellActs
  <2> QED
    BY <1>0, <1>1, <2>1
<1>5. CASE Fetch
  <2>1. source' = source + 1 /\ UNCHANGED <<binaries, configFile, steps, ended>>
    BY <1>5 DEF Fetch
  <2>2. source' \in Nat /\ source <= source'
    BY <1>0, <2>1
  <2> QED
    BY <1>1, <2>1, <2>2
<1> QED
  BY <1>2, <1>3, <1>4, <1>5, NextCases DEF Shells

LEMMA InstallerInvInit ==
  InstallerInit => InstallerInv
<1> SUFFICES ASSUME InstallerInit PROVE InstallerInv
  OBVIOUS
<1>1. steps \in [Shells -> Seq(AStep)] /\ \A s \in Shells : steps[s] = <<>>
  BY DEF InstallerInit
<1>2. run \in [Shells -> [name : Command \cup {"none"}, found : Int]] /\ \A s \in Shells : run[s].found = 0
  BY DEF InstallerInit, NoCommand, Missing
<1>3. InstallerTyped
  BY <1>1, <1>2 DEF InstallerInit, InstallerTyped, Missing, Emptied
<1>4. ShapeInv /\ PendingInv /\ OpenInv
  BY <1>1, <1>2 DEF InstallerInit, ShapeInv, PendingInv, OpenInv, Doing, Shells
<1>5. AllInv /\ EndedInv
  BY <1>1 DEF InstallerInit, AllInv, EndedInv, AllInstallsOneBuild, Shells
<1> QED
  BY <1>3, <1>4, <1>5 DEF InstallerInv

LEMMA InstallerInvStep ==
  InstallerInv /\ [InstallerNext]_installerVars => InstallerInv'
<1> SUFFICES ASSUME InstallerInv, [InstallerNext]_installerVars PROVE InstallerInv'
  OBVIOUS
<1>1. CASE InstallerNext
  BY <1>1, TypedStep, ShapeStep, PendingStep, OpenStep, AllStep, EndedStep DEF InstallerInv
<1>2. CASE UNCHANGED installerVars
  BY <1>2 DEF installerVars, InstallerInv, InstallerTyped, ShapeInv, PendingInv, OpenInv, Doing, AllInv, LeftOfAll, OneBuild,
     EndedInv, AllInstallsOneBuild
<1> QED
  BY <1>1, <1>2

(* Where each shell stands in its command, and what it has built and       *)
(* copied by then: xtask's commands and `hydra init`.                      *)
THEOREM InstallerInvariant == InstallerSpec => []InstallerInv
BY InstallerInvInit, InstallerInvStep, PTL DEF InstallerSpec

(* `xtask all` that ends well has installed one build.                     *)
THEOREM AllInstalls == InstallerSpec => []AllInstallsOneBuild
<1>1. InstallerInv => AllInstallsOneBuild
  BY DEF InstallerInv, EndedInv
<1> QED
  BY <1>1, InstallerInvariant, PTL

(* A configuration that was there when a command began is not replaced by  *)
(* it, but by `init --force`: config in xtask, run in init.rs.             *)
THEOREM ConfigIsKept == InstallerSpec => ConfigKept
<1> DEFINE Keeps ==
      \A s \in Shells :
        /\ steps'[s] # steps[s]
        /\ configFile > 0 /\ configFile' \notin {configFile, Missing}
        => run[s].name = "init --force" \/ run[s].found # configFile
<1>1. InstallerInv /\ [InstallerNext]_installerVars => [Keeps]_installerVars
  <2> SUFFICES ASSUME InstallerInv, InstallerNext, NEW s \in Shells, steps'[s] # steps[s],
                      configFile > 0, configFile' \notin {configFile, Missing}
               PROVE  run[s].name = "init --force" \/ run[s].found # configFile
    OBVIOUS
  <2>0. InstallerTyped /\ PendingInv
    BY DEF InstallerInv
  <2>1. PICK t \in Shells : Acts(t)
    BY NextCases DEF StartCommand, Fetch
  <2>2. t = s
    <3>1. Moved(t)
      BY <2>0, <2>1, Moves
    <3> QED
      BY <3>1 DEF Moved, Others
  <2>3. configFile' = configFile \/ RemoveConfig(s) \/ OpenConfig(s) \/ WriteConfig(s) \/ Stopped(s)
    BY <2>1, <2>2 DEF Acts, Check, Test, Look, Build, Copy, RemoveBin, Config, InitChecks
  <2>4. Doing(s, "open") \/ Doing(s, "write")
    BY <2>3 DEF RemoveConfig, OpenConfig, WriteConfig, Stopped
  <2>5. run[s].name = "init --force" \/ configFile \in Unwritten \/ run[s].found < configFile
    BY <2>0, <2>4 DEF PendingInv
  <2>6. configFile \notin Unwritten
    BY <2>0 DEF InstallerTyped, Unwritten, Missing, Partial, Emptied
  <2>7. run[s] \in [name : Command \cup {"none"}, found : Int] /\ configFile \in Int
    BY <2>0 DEF InstallerTyped, Emptied
  <2>8. run[s].found < configFile => run[s].found # configFile
    BY <2>7
  <2> QED
    BY <2>5, <2>6, <2>8
<1> QED
  BY <1>1, InstallerInvariant, PTL DEF InstallerSpec, ConfigKept
=============================================================================
