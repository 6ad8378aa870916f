----------------------------- MODULE Host_proofs -----------------------------
(***************************************************************************)
(* What the programs on an agent's host promise, for any number of         *)
(* secrets, releases, containers, samples and readings: the installation   *)
(* and upgrade commands (Instance), the health gate (HealthGate), the      *)
(* collector's buffer (Collector) and its meters (Meters).                 *)
(***************************************************************************)
EXTENDS Instance, HealthGate, Collector, Meters, WellFoundedInduction, SequenceTheorems, TLAPS

-----------------------------------------------------------------------------
(* Instance.                                                               *)

(* A first installation, from the moment its .env is written.              *)
FirstInstall(pcs) == cmd.op = "install" /\ cmd.first /\ cmd.pc \in pcs

(* Secrets count up, and no store or container has one that was not drawn. *)
SecretsCountUp ==
    /\ dotenv <= secrets /\ volume <= secrets /\ server.secret <= secrets
    /\ \A s \in credsShown : s <= secrets
    /\ cmd.pc \in {"guard", "stores", "build", "poll", "show"} => dotenv \in Secrets

(* The binary is at its path, or on its way there with a backup, and the   *)
(* one that takes its place has been downloaded.                           *)
BinaryIsThere ==
    /\ exe # None \/ backup # None
    /\ cmd.pc \notin {"done", "swap"} => exe # None
    /\ cmd.pc = "swap" => backup # None
    /\ cmd.pc \in {"backup", "swap"} => cmd.fetched # None

(* A server that is up has logged in to its stores and has its admin.      *)
UpMeansLoggedIn ==
    /\ server.release # None => server.secret \in Secrets
    /\ server.up => volume = server.secret /\ admin # None
    /\ volume = None => admin = None

(* The .env of a first installation is new to every store it meets.        *)
FirstIsFresh ==
    /\ FirstInstall({"generate"}) => dotenv = None
    /\ FirstInstall({"guard", "stores", "build", "poll", "show"}) =>
          /\ dotenv \notin credsShown
          /\ volume = dotenv => admin \in {None, EnvFile(dotenv)}
    /\ FirstInstall({"guard"}) => volume # dotenv
    /\ (FirstInstall({"stores"}) /\ ~cmd.blind) => volume = None
    /\ FirstInstall({"poll", "show"}) => server.secret = dotenv
    /\ cmd.pc = "show" => server.up

(* Only an installation guards volumes and shows credentials, and only an  *)
(* upgrade replaces the binary.                                            *)
StepsOfTheirCommand ==
    /\ cmd.pc \in {"generate", "stores", "build", "poll"} => cmd.op # "none"
    /\ cmd.pc \in {"guard", "show"} => cmd.op = "install"
    /\ cmd.pc \in {"download", "backup", "swap", "exec", "detect", "agent"} =>
          cmd.op = "upgrade"

InstanceInv ==
    /\ InstanceTypeOK
    /\ SecretsCountUp
    /\ BinaryIsThere
    /\ UpMeansLoggedIn
    /\ FirstIsFresh
    /\ StepsOfTheirCommand
    /\ FirstInstallReachesItsStores
    /\ UpgradeKeepsItsBinary

(* Every step keeps the types.                                             *)
LEMMA InstanceTypeStep ==
  ASSUME InstanceInv, InstanceNext
  PROVE  InstanceTypeOK'
<1> USE InstanceAssumption
    DEF InstanceAssumption, None, Torn, Own, Expanded, Secrets, Releases, boxVars, filesVars,
        dockerVars, binVars
<1> DEFINE Cmd == [op : {"none", "install", "upgrade"}, pc : Steps, first : BOOLEAN,
                   reset : BOOLEAN, blind : BOOLEAN, release : Releases \cup {None},
                   fetched : Releases \cup {None}]
<1> DEFINE Server == [release : Releases \cup {None}, secret : Secrets \cup {None}, up : BOOLEAN]
<1>0. cmd \in Cmd /\ server \in Server
  BY DEF InstanceInv, InstanceTypeOK
<1>1. ASSUME NEW pc \in Steps, GoOn(pc) PROVE cmd' \in Cmd
  BY <1>0, <1>1 DEF GoOn
<1>2. ASSUME End PROVE cmd' \in Cmd
  BY <1>2 DEF End, NoCommand, Steps
<1>3. ASSUME NEW r \in Releases, NEW o \in {"install", "upgrade"}, NEW p \in Steps,
             NEW f \in BOOLEAN, NEW t \in BOOLEAN,
             cmd' = [NoCommand EXCEPT !.op = o, !.pc = p, !.first = f, !.reset = t, !.release = r]
      PROVE  cmd' \in Cmd
  BY <1>3 DEF NoCommand
<1>4. cmd' \in Cmd
  <2> USE DEF Steps
  <2>1. CASE InstallBegins
    BY <1>3, <2>1, ZenonT(60) DEF InstallBegins, InstanceInv, InstanceTypeOK
  <2>2. CASE UpgradeBegins
    BY <2>2 DEF UpgradeBegins, InstanceInv, InstanceTypeOK, NoCommand
  <2>3. CASE Guard
    <3>1. ASSUME cmd' = [cmd EXCEPT !.pc = "stores", !.blind = TRUE] PROVE cmd' \in Cmd
      BY <1>0, <3>1
    <3> QED BY <1>1, <1>2, <2>3, <3>1 DEF Guard
  <2>4. CASE Reexec
    BY <1>0, <2>4 DEF Reexec, InstanceInv, InstanceTypeOK
  <2>9. CASE Download
    <3>1. ASSUME cmd' = [cmd EXCEPT !.pc = "backup", !.fetched = release] PROVE cmd' \in Cmd
      BY <1>0, <3>1 DEF InstanceInv, InstanceTypeOK
    <3> QED BY <1>2, <2>9, <3>1 DEF Download
  <2> HIDE DEF Cmd
  <2>5. CASE InstallGenerates \/ TearEnv \/ ResetVolumes \/ UpStores \/ BuildServer
    BY <1>1, <1>2, <2>5 DEF InstallGenerates, TearEnv, ResetVolumes, UpStores, BuildServer
  <2>6. CASE StepFails \/ PollHealth \/ ShowCredentials \/ BackUp \/ Swap
    BY <1>1, <1>2, <2>6 DEF StepFails, ApplyFails, PollHealth, ShowCredentials, BackUp, Swap
  <2>7. CASE Detect \/ UpgradeGenerates \/ RestartAgent \/ Interrupt
    BY <1>1, <1>2, <2>7 DEF Detect, UpgradeGenerates, RestartAgent, Interrupt
  <2>8. CASE UNCHANGED cmd
    BY <1>0, <2>8
  <2> QED BY <2>1, <2>2, <2>3, <2>4, <2>5, <2>6, <2>7, <2>8, <2>9
          DEF InstanceNext, InstallAgent, BootServer, NewRelease, RemoveTree, PruneCache, ChangeAdmin
<1>5. server' \in Server
  <2>1. CASE UNCHANGED server
    BY <1>0, <2>1
  <2>2. CASE ResetVolumes
    <3>1. NoServer \in Server
      BY DEF NoServer
    <3> QED BY <1>0, <2>2, <3>1 DEF ResetVolumes
  <2>3. CASE BuildServer
    BY <2>3 DEF BuildServer, BuiltRelease, InstanceInv, InstanceTypeOK, SecretsCountUp
  <2>4. CASE BootServer
    BY <1>0, <2>4 DEF BootServer
  <2> QED BY <2>1, <2>2, <2>3, <2>4
          DEF InstanceNext, InstallBegins, InstallGenerates, TearEnv, Guard, UpStores, StepFails,
              PollHealth, ShowCredentials, UpgradeBegins, Download, BackUp, Swap, Reexec, Detect,
              UpgradeGenerates, RestartAgent, InstallAgent, Interrupt, NewRelease, RemoveTree,
              PruneCache, ChangeAdmin
<1>6. release' \in Releases /\ {exe, backup, agent}' \subseteq Releases \cup {None}
  <2> USE DEF InstanceInv, InstanceTypeOK
  <2>1. CASE UNCHANGED <<release, exe, backup, agent>>
    BY <2>1
  <2>2. CASE BackUp \/ RestartAgent \/ InstallAgent \/ NewRelease
    BY <2>2 DEF BackUp, RestartAgent, InstallAgent, NewRelease
  <2>3. CASE Swap
    BY <1>0, <2>3 DEF Swap
  <2> QED BY <2>1, <2>2, <2>3
          DEF InstanceNext, InstallBegins, InstallGenerates, TearEnv, Guard, ResetVolumes,
              UpStores, BuildServer, StepFails, PollHealth, ShowCredentials, UpgradeBegins,
              Download, Reexec, Detect, UpgradeGenerates, Interrupt, BootServer, RemoveTree,
              PruneCache, ChangeAdmin
<1>7. /\ secrets' \in 0 .. MaxSecrets
      /\ dotenv' \in Secrets \cup {None, Torn}
      /\ tree' \in BOOLEAN
  <2> USE DEF InstanceInv, InstanceTypeOK
  <2>1. CASE UNCHANGED <<secrets, dotenv, tree>>
    BY <2>1
  <2>2. CASE Generate
    BY <2>2 DEF Generate, EnvToWrite, NewEnv
  <2>3. CASE TearEnv \/ RemoveTree
    BY <2>3 DEF TearEnv, RemoveTree
  <2> QED BY <2>1, <2>2, <2>3
          DEF InstanceNext, InstallBegins, InstallGenerates, Guard, ResetVolumes, UpStores,
              BuildServer, StepFails, PollHealth, ShowCredentials, UpgradeBegins, Download, BackUp,
              Swap, Reexec, Detect, UpgradeGenerates, RestartAgent, InstallAgent, Interrupt,
              BootServer, NewRelease, PruneCache, ChangeAdmin
<1>8. /\ volume' \in Secrets \cup {None}
      /\ admin' \in Secrets \cup {None, Own, Expanded}
      /\ layer' \in Releases \cup {None}
      /\ credsShown' \subseteq Secrets
  <2> USE DEF InstanceInv, InstanceTypeOK
  <2>1. CASE UNCHANGED <<volume, admin, layer, credsShown>>
    BY <2>1
  <2>2. CASE ResetVolumes \/ PruneCache \/ ChangeAdmin
    BY <2>2 DEF ResetVolumes, PruneCache, ChangeAdmin
  <2>3. CASE UpStores \/ BuildServer \/ ShowCredentials
    BY <2>3 DEF UpStores, BuildServer, BuiltRelease, ShowCredentials, SecretsCountUp
  <2>4. CASE BootServer
    BY <2>4 DEF BootServer, SeedAdmin, EnvFile, UpMeansLoggedIn
  <2> QED BY <2>1, <2>2, <2>3, <2>4
          DEF InstanceNext, InstallBegins, InstallGenerates, TearEnv, Guard, StepFails, PollHealth,
              UpgradeBegins, Download, BackUp, Swap, Reexec, Detect, UpgradeGenerates,
              RestartAgent, InstallAgent, Interrupt, NewRelease, RemoveTree
<1> HIDE DEF None, Torn, Own, Expanded, Secrets, Releases
<1> QED BY <1>4, <1>5, <1>6, <1>7, <1>8 DEF InstanceTypeOK

(* Every step keeps the rest of InstanceInv: a command that is killed or   *)
(* fails leaves the files, volumes and binaries the next one can go on from*)
(* (install_server.go, upgrade.go).                                        *)
LEMMA InstanceStep ==
  ASSUME InstanceInv, InstanceNext
  PROVE  InstanceInv'
<1> USE InstanceAssumption
    DEF InstanceAssumption, InstanceInv, InstanceTypeOK, SecretsCountUp, BinaryIsThere,
        UpMeansLoggedIn, FirstIsFresh, StepsOfTheirCommand, FirstInstall,
        FirstInstallReachesItsStores, UpgradeKeepsItsBinary, CmdDone, CmdAt, GoOn, End, NoCommand, NoServer, boxVars,
        filesVars, dockerVars, binVars, None, Torn, Own, Expanded, Secrets, Releases
<1> DEFINE Rest == /\ SecretsCountUp /\ BinaryIsThere /\ UpMeansLoggedIn /\ FirstIsFresh
                   /\ StepsOfTheirCommand /\ FirstInstallReachesItsStores
                   /\ UpgradeKeepsItsBinary
<1>1. ASSUME InstallBegins PROVE Rest'
  BY <1>1, ZenonT(60) DEF InstallBegins
<1>2. ASSUME InstallGenerates PROVE Rest'
  BY <1>2 DEF InstallGenerates, Generate, EnvToWrite, NewEnv
<1>3. ASSUME TearEnv PROVE Rest'
  BY <1>3 DEF TearEnv
<1>4. ASSUME Guard PROVE Rest'
  <2>1. UNCHANGED <<secrets, dotenv, volume, admin, server, exe, backup, credsShown>>
    BY <1>4 DEF Guard
  <2>2. CASE cmd' = NoCommand
    BY <2>1, <2>2
  <2>3. CASE cmd' # NoCommand
    <3>1. /\ cmd'.pc = "stores" /\ cmd'.op = cmd.op /\ cmd'.first = cmd.first
          /\ cmd'.release = cmd.release /\ cmd.pc = "guard"
          /\ ~cmd.first \/ volume = None \/ cmd'.blind
      BY <1>4, <2>3 DEF Guard
    <3> QED BY <2>1, <3>1
  <2> QED BY <2>2, <2>3
<1>5. ASSUME ResetVolumes PROVE Rest'
  <2>1. UNCHANGED <<secrets, dotenv, exe, backup, credsShown>>
    BY <1>5 DEF ResetVolumes
  <2>2. CASE End /\ UNCHANGED <<admin, dockerVars>>
    BY <2>1, <2>2
  <2>3. CASE volume' = None /\ admin' = None /\ server' = NoServer /\ GoOn("stores")
    <3>1. /\ cmd'.pc = "stores" /\ cmd'.op = cmd.op /\ cmd'.first = cmd.first
          /\ cmd'.release = cmd.release /\ cmd.pc = "guard"
      BY <1>5, <2>3 DEF ResetVolumes
    <3> QED BY <2>1, <2>3, <3>1
  <2> QED BY <1>5, <2>2, <2>3 DEF ResetVolumes
<1>6. ASSUME UpStores PROVE Rest'
  BY <1>6 DEF UpStores
<1>7. ASSUME BuildServer PROVE Rest'
  BY <1>7 DEF BuildServer, BuiltRelease
<1>8. ASSUME StepFails PROVE Rest'
  BY <1>8 DEF StepFails, ApplyFails
<1>9. ASSUME PollHealth PROVE Rest'
  BY <1>9 DEF PollHealth
<1>10. ASSUME ShowCredentials PROVE Rest'
  BY <1>10 DEF ShowCredentials
<1>11. ASSUME UpgradeBegins PROVE Rest'
  BY <1>11 DEF UpgradeBegins
<1>12. ASSUME Download PROVE Rest'
  <2>1. UNCHANGED <<secrets, dotenv, volume, admin, server, exe, backup, credsShown>>
    BY <1>12 DEF Download
  <2>2. CASE cmd' = NoCommand
    BY <2>1, <2>2
  <2>3. CASE cmd' # NoCommand
    <3>1. /\ cmd'.pc = "backup" /\ cmd'.op = cmd.op /\ cmd'.first = cmd.first
          /\ cmd'.release = cmd.release /\ cmd'.fetched # None /\ cmd.pc = "download"
      <4>1. cmd' = [cmd EXCEPT !.pc = "backup", !.fetched = release] /\ cmd.pc = "download"
        BY <1>12, <2>3 DEF Download
      <4>2. release # None
        OBVIOUS
      <4> QED BY <4>1, <4>2
    <3> QED BY <2>1, <3>1
  <2> QED BY <2>2, <2>3
<1>13. ASSUME BackUp PROVE Rest'
  BY <1>13 DEF BackUp
<1>14. ASSUME Swap PROVE Rest'
  BY <1>14 DEF Swap
<1>15. ASSUME Reexec PROVE Rest'
  BY <1>15 DEF Reexec
<1>16. ASSUME Detect PROVE Rest'
  <2>1. UNCHANGED <<secrets, dotenv, volume, admin, server, exe, backup, credsShown>>
    BY <1>16 DEF Detect
  <2>2. /\ cmd'.pc \in {"generate", "agent"} /\ cmd'.op = cmd.op /\ cmd'.first = cmd.first
        /\ cmd'.release = cmd.release /\ cmd.pc = "detect"
    BY <1>16 DEF Detect
  <2> QED BY <2>1, <2>2
<1>17. ASSUME UpgradeGenerates PROVE Rest'
  BY <1>17 DEF UpgradeGenerates, Generate, EnvToWrite, NewEnv
<1>18. ASSUME RestartAgent PROVE Rest'
  BY <1>18 DEF RestartAgent
<1>19. ASSUME InstallAgent PROVE Rest'
  BY <1>19 DEF InstallAgent
<1>20. ASSUME Interrupt PROVE Rest'
  BY <1>20 DEF Interrupt
<1>21. ASSUME BootServer PROVE Rest'
  BY <1>21 DEF BootServer, SeedAdmin, EnvFile
<1>22. ASSUME NewRelease PROVE Rest'
  BY <1>22 DEF NewRelease
<1>23. ASSUME RemoveTree PROVE Rest'
  BY <1>23 DEF RemoveTree
<1>24. ASSUME PruneCache PROVE Rest'
  BY <1>24 DEF PruneCache
<1>25. ASSUME ChangeAdmin PROVE Rest'
  BY <1>25 DEF ChangeAdmin
<1> HIDE DEF Rest, InstanceInv
<1>26. Rest'
  BY <1>1, <1>2, <1>3, <1>4, <1>5, <1>6, <1>7, <1>8, <1>9, <1>10, <1>11, <1>12, <1>13,
     <1>14, <1>15, <1>16, <1>17, <1>18, <1>19, <1>20, <1>21, <1>22, <1>23, <1>24, <1>25 DEF InstanceNext
<1> QED BY <1>26, InstanceTypeStep DEF InstanceInv, Rest

(* Before the first command nothing is installed.                          *)
LEMMA InstanceStarts == InstanceInit => InstanceInv
<1> USE InstanceAssumption
    DEF InstanceAssumption, InstanceInit, NoCommand, NoServer, None, Torn, Own, Expanded,
        Secrets, Releases, Steps
<1>1. InstanceInit => InstanceTypeOK
  <2>1. NoCommand \in [op : {"none", "install", "upgrade"}, pc : Steps, first : BOOLEAN,
                       reset : BOOLEAN, blind : BOOLEAN, release : Releases \cup {None},
                       fetched : Releases \cup {None}]
    OBVIOUS
  <2>2. NoServer \in [release : Releases \cup {None}, secret : Secrets \cup {None},
                      up : BOOLEAN]
    OBVIOUS
  <2> HIDE DEF NoCommand, NoServer, Steps
  <2> SUFFICES ASSUME InstanceInit PROVE InstanceTypeOK
    OBVIOUS
  <2>3. cmd = NoCommand /\ server = NoServer /\ tree = FALSE
    OBVIOUS
  <2>4. {exe, backup, agent} \subseteq Releases \cup {None} /\ release \in Releases
    OBVIOUS
  <2>5. /\ secrets \in 0 .. MaxSecrets /\ dotenv \in Secrets \cup {None, Torn}
        /\ volume \in Secrets \cup {None} /\ admin \in Secrets \cup {None, Own, Expanded}
        /\ layer \in Releases \cup {None} /\ credsShown \subseteq Secrets
    OBVIOUS
  <2> HIDE DEF InstanceInit, Releases, Secrets, None, Torn, Own, Expanded
  <2> QED BY <2>1, <2>2, <2>3, <2>4, <2>5 DEF InstanceTypeOK
<1>2. InstanceInit => SecretsCountUp /\ BinaryIsThere /\ UpMeansLoggedIn /\ StepsOfTheirCommand
  BY DEF SecretsCountUp, BinaryIsThere, UpMeansLoggedIn, StepsOfTheirCommand
<1>3. InstanceInit => FirstIsFresh /\ FirstInstallReachesItsStores /\ UpgradeKeepsItsBinary
  BY DEF FirstIsFresh, FirstInstall, FirstInstallReachesItsStores, UpgradeKeepsItsBinary
<1> QED BY <1>1, <1>2, <1>3 DEF InstanceInv

(* Nor does a step of something else disturb it.                           *)
LEMMA InstanceKeeps == InstanceInv /\ [InstanceNext]_instanceVars => InstanceInv'
<1>1. ASSUME InstanceInv, UNCHANGED instanceVars PROVE InstanceInv'
  BY <1>1
  DEF instanceVars, InstanceInv, InstanceTypeOK, SecretsCountUp, BinaryIsThere, UpMeansLoggedIn,
      FirstIsFresh, StepsOfTheirCommand, FirstInstall, FirstInstallReachesItsStores,
      UpgradeKeepsItsBinary
<1> QED BY <1>1, InstanceStep

(* For any number of secrets and releases: whichever installations,        *)
(* upgrades, kills, resets and removals came before, InstanceInv holds.    *)
THEOREM InstanceIsInvariant == InstanceSpec => []InstanceInv
BY InstanceStarts, InstanceKeeps, PTL DEF InstanceSpec

(* A first installation whose guard saw the volumes brings up a server that*)
(* can log in to its stores (install_server.go).                           *)
THEOREM InstallReachesStores == InstanceSpec => []FirstInstallReachesItsStores
<1>1. InstanceInv => FirstInstallReachesItsStores
  BY DEF InstanceInv
<1> QED BY <1>1, InstanceIsInvariant, PTL

(* An upgrade killed or failing anywhere leaves the CLI at its path or in  *)
(* its backup, and its component pass runs the installed binary            *)
(* (upgrade.go).                                                           *)
THEOREM UpgradeKeepsBinary == InstanceSpec => []UpgradeKeepsItsBinary
<1>1. InstanceInv => UpgradeKeepsItsBinary
  BY DEF InstanceInv
<1> QED BY <1>1, InstanceIsInvariant, PTL

(* The credentials an installation prints are the ones its server's admin  *)
(* was seeded from; whether they log in depends on what compose makes of a *)
(* $ in them (install_server.go, instance_env.go, instance.go).            *)
THEOREM PrintedCredentialsAreSeeded == InstanceSpec => CredentialsAreFresh
<1> DEFINE Fresh(s) == admin = s \/ (s \in Dollars /\ admin = Expanded)
<1>1. InstanceInv /\ [InstanceNext]_instanceVars =>
        (credsShown' # credsShown => \E s \in credsShown' \ credsShown : Fresh(s))
  <2> SUFFICES ASSUME InstanceInv, [InstanceNext]_instanceVars, credsShown' # credsShown
               PROVE  \E s \in credsShown' \ credsShown : Fresh(s)
    OBVIOUS
  <2>1. ShowCredentials
    BY DEF InstanceNext, instanceVars, boxVars, InstallBegins, InstallGenerates, TearEnv, Guard,
       ResetVolumes, UpStores, BuildServer, StepFails, PollHealth, UpgradeBegins, Download,
       BackUp, Swap, Reexec, Detect, UpgradeGenerates, RestartAgent, InstallAgent, Interrupt,
       BootServer, NewRelease, RemoveTree, PruneCache, ChangeAdmin
  <2>2. cmd.pc = "show" /\ cmd.first /\ credsShown' = credsShown \cup {dotenv}
    BY <2>1 DEF ShowCredentials
  <2>3. cmd.op = "install"
    BY <2>2 DEF InstanceInv, StepsOfTheirCommand
  <2>4. dotenv \notin credsShown /\ admin \in {None, EnvFile(dotenv)} /\ admin # None
    BY <2>2, <2>3 DEF InstanceInv, FirstIsFresh, FirstInstall, UpMeansLoggedIn
  <2>5. Fresh(dotenv)
    BY <2>4 DEF EnvFile
  <2> QED BY <2>2, <2>4, <2>5
<1> QED BY <1>1, InstanceIsInvariant, PTL DEF InstanceSpec, CredentialsAreFresh

-----------------------------------------------------------------------------
(* The health gate (HealthGate).                                           *)

Lists == UNION {[1..n -> ContainerStates] : n \in Nat}

(* What the gate looks at is what compose printed last, and an open gate or*)
(* a report of running stands for an output that says so: neither is kept  *)
(* from an earlier turn of the loop.                                       *)
GateInv ==
    /\ printed \in Listings
    /\ output = Failure \/ output \in Collected(printed)
    /\ gate = "open" => SaysRunning(output)
    /\ report = "running" => SaysRunning(output)
    /\ gate # "idle" => report = "none"

(* The first of some containers.                                           *)
LEMMA LeastIsThere ==
    ASSUME NEW S \in SUBSET Nat, S # {}
    PROVE  Min(S) \in S
<1>1. \E m \in S : \A k \in S : <<k, m>> \notin OpToRel(<, Nat)
  BY NatLessThanWellFounded, WFMin
<1>2. PICK m \in S : \A k \in S : <<k, m>> \notin OpToRel(<, Nat)
  BY <1>1
<1>3. \A k \in S : ~(k < m)
  BY <1>2 DEF OpToRel
<1>4. \A k \in S : m =< k
  BY <1>3
<1> QED BY <1>4 DEF Min

(* aggregateContainerHealth's verdict is its comment's, in every order of a*)
(* listing without a paused container.                                     *)
LEMMA VerdictIgnoresOrder ==
    ASSUME NEW n \in Nat, NEW cs \in [1..n -> ContainerStates], cs # <<>>,
           \A i \in DOMAIN cs : cs[i] # "paused"
    PROVE  Aggregate(cs) = IF Broken(cs) THEN "failed"
                           ELSE IF Settling(cs) THEN "starting" ELSE "running"
<1> DEFINE deciding == {i \in DOMAIN cs : Decides(cs[i])}
<1>1. CASE deciding = {}
  <2>1. Aggregate(cs) = IF \E i \in DOMAIN cs : Pending(cs[i]) THEN "starting" ELSE "running"
    BY <1>1 DEF Aggregate
  <2>2. ~Broken(cs)
    BY <1>1 DEF Broken, Decides
  <2> QED BY <2>1, <2>2 DEF Settling, Pending
<1>2. CASE deciding # {}
  <2>1. Aggregate(cs) = IF cs[Min(deciding)] = "paused" THEN "unknown" ELSE "failed"
    BY <1>2 DEF Aggregate
  <2>2. Min(deciding) \in deciding
    BY <1>2, LeastIsThere
  <2>3. \E i \in DOMAIN cs : Decides(cs[i]) /\ cs[i] # "paused"
    BY <2>2
  <2>4. Broken(cs)
    BY <2>3 DEF Broken, Decides
  <2> QED BY <2>1, <2>2, <2>4
<1> QED BY <1>1, <1>2

(* aggregateContainerHealth calls an application running only when it is   *)
(* given containers, and each is up or has done its work.                  *)
LEMMA RunningMeansUp ==
    ASSUME NEW n \in Nat, NEW cs \in [1..n -> ContainerStates], Aggregate(cs) = "running"
    PROVE  /\ cs # <<>>
           /\ \A i \in DOMAIN cs : cs[i] \in {"running", "running/healthy", "exited/0"}
<1> DEFINE deciding == {i \in DOMAIN cs : Decides(cs[i])}
<1>1. cs # <<>>
  BY DEF Aggregate
<1>2. deciding = {}
  <2> SUFFICES ASSUME deciding # {} PROVE FALSE
    OBVIOUS
  <2>1. Aggregate(cs) = IF cs[Min(deciding)] = "paused" THEN "unknown" ELSE "failed"
    BY <1>1 DEF Aggregate
  <2> QED BY <2>1
<1>3. Aggregate(cs) = IF \E i \in DOMAIN cs : Pending(cs[i]) THEN "starting" ELSE "running"
  BY <1>1, <1>2 DEF Aggregate
<1>4. \A i \in DOMAIN cs : ~Pending(cs[i]) /\ ~Decides(cs[i])
  BY <1>2, <1>3
<1> QED BY <1>1, <1>4 DEF Pending, Decides, ContainerStates

(* Unless compose wrote a warning, Command.Run hands on the listing whole. *)
LEMMA CollectedWhole ==
    ASSUME NEW l \in Listings, ~l.warning, NEW o \in Collected(l), o.kind = "json"
    PROVE  o.containers = l.containers
BY DEF Collected, Empty, Json

(* The loop begins without an output.                                      *)
LEMMA NothingIsListed == Nothing \in Listings /\ Collected(Nothing) = {Empty}
<1>1. <<>> \in [1..0 -> ContainerStates]
  OBVIOUS
<1>2. <<>> \in UNION {[1..n -> ContainerStates] : n \in 0..MaxContainers}
  BY <1>1, HealthGateAssumption
<1>3. FALSE \in (IF Stderr THEN BOOLEAN ELSE {FALSE})
  OBVIOUS
<1>4. Nothing \in Listings
  BY <1>2, <1>3 DEF Nothing, Listings
<1>5. Nothing.containers = <<>> /\ Nothing.form = "lines" /\ ~Nothing.warning
  BY DEF Nothing
<1> QED BY <1>4, <1>5 DEF Collected

(* What is left of a warning is garbled, empty or some listing.            *)
LEMMA CollectedKinds ==
    ASSUME NEW l, NEW o \in Collected(l)
    PROVE  o.kind \in {"garbled", "empty", "json"}
<1>1. Garbled.kind = "garbled" /\ Empty.kind = "empty" /\ \A cs : Json(cs).kind = "json"
  BY DEF Garbled, Empty, Json
<1>2. CASE o = Garbled \/ o = Empty
  BY <1>1, <1>2
<1>3. CASE \E cs : o = Json(cs)
  BY <1>1, <1>3
<1> QED BY <1>2, <1>3 DEF Collected

(* Whatever is lost of a listing, the rest lists containers.               *)
LEMMA CollectedAreLists ==
    ASSUME NEW l \in Listings, NEW o \in Collected(l)
    PROVE  o.containers \in Lists
<1>1. PICK n \in Nat : l.containers \in [1..n -> ContainerStates]
  BY HealthGateAssumption DEF Listings
<1>2. <<>> \in Lists
  <2>1. <<>> \in [1..0 -> ContainerStates]
    OBVIOUS
  <2> QED BY <2>1 DEF Lists
<1>3. ASSUME NEW s \in Remainders(l.containers)
      PROVE  s \in Lists
  <2> DEFINE Kept(m) == {f \in [1..m -> DOMAIN l.containers] :
                            \A i, k \in 1..m : i < k => f[i] < f[k]}
             Of(m) == {[k \in 1..m |-> l.containers[left[k]]] : left \in Kept(m)}
  <2>0. PICK m \in 0..Len(l.containers) : s \in Of(m)
    <3>1. s \in UNION {Of(m) : m \in 0..Len(l.containers)}
      BY Zenon DEF Remainders
    <3> HIDE DEF Of
    <3> QED BY <3>1
  <2>1. PICK left \in Kept(m) : s = [k \in 1..m |-> l.containers[left[k]]]
    BY <2>0
  <2>2. Len(l.containers) = n /\ DOMAIN l.containers = 1..n
    BY <1>1
  <2>3. m \in Nat
    BY <2>1, <2>2
  <2>4. s \in [1..m -> ContainerStates]
    BY <1>1, <2>1, <2>2, <2>3
  <2> QED BY <2>3, <2>4 DEF Lists
<1>4. Garbled.containers = <<>> /\ Empty.containers = <<>> /\ \A cs : Json(cs).containers = cs
  BY DEF Garbled, Empty, Json
<1>5. l.containers \in Lists
  BY <1>1 DEF Lists
<1>6. \/ o = Garbled \/ o = Empty \/ o = Json(l.containers)
      \/ \E s \in Remainders(l.containers) : o = Json(s)
  BY DEF Collected
<1> QED BY <1>2, <1>3, <1>4, <1>5, <1>6

(* Every step of the gate looks at a fresh output (waitForAppRunning).     *)
LEMMA GateStepKeeps ==
    ASSUME GateInv, [GateNext]_gateVars
    PROVE  GateInv'
<1> USE DEF GateInv
<1>1. Nothing \in Listings /\ Empty \in Collected(Nothing)
  BY NothingIsListed
<1>2. ASSUME Ps PROVE printed' \in Listings /\ (output' = Failure \/ output' \in Collected(printed)')
  BY <1>1, <1>2 DEF Ps
<1>3. ASSUME NEW at, Again(at)
      PROVE  printed' \in Listings /\ output' \in Collected(printed)' /\ gate' = at
  BY <1>1, <1>3 DEF Again
<1> HIDE DEF Nothing, Empty, Failure, Listings, Collected
<1>4. CASE EnterGate
  BY <1>3, <1>4 DEF EnterGate, SaysRunning
<1>5. CASE GatePs
  <2>1. gate' = "look" /\ report' = report
    BY <1>5 DEF GatePs
  <2> QED BY <1>2, <1>5, <2>1 DEF GatePs
<1>6. CASE PsFailed
  BY <1>3, <1>6 DEF PsFailed, EndGate
<1>7. CASE Look
  BY <1>3, <1>7 DEF Look, EndGate
<1>8. CASE Wait \/ WakeUp \/ Deadline \/ Cancel \/ UNCHANGED gateVars
  BY <1>8 DEF Wait, WakeUp, Deadline, Cancel, gateVars
<1>9. CASE CheckAppHealths
  <2>1. gate' = "idle" /\ printed' \in Listings
    BY <1>2, <1>9 DEF CheckAppHealths
  <2>2. output' = Failure \/ output' \in Collected(printed)'
    BY <1>2, <1>9 DEF CheckAppHealths
  <2>3. output'.kind \in {"error", "garbled", "empty", "json"}
    BY <2>2, CollectedKinds DEF Failure
  <2>4. report' = "running" => output'.kind = "json" /\ Aggregate(output'.containers) = "running"
    <3>1. CASE output'.kind \in {"error", "garbled"}
      BY <1>9, <3>1 DEF CheckAppHealths
    <3>2. CASE output'.kind = "empty"
      BY <1>9, <3>2 DEF CheckAppHealths
    <3>3. CASE output'.kind = "json"
      BY <1>9, <3>3 DEF CheckAppHealths
    <3> QED BY <2>3, <3>1, <3>2, <3>3
  <2> QED BY <2>1, <2>2, <2>4 DEF SaysRunning
<1> QED BY <1>4, <1>5, <1>6, <1>7, <1>8, <1>9 DEF GateNext, GateStep

(* Nothing has been printed yet.                                           *)
LEMMA GateStarts == GateInit => GateInv
<1> SUFFICES ASSUME GateInit PROVE GateInv
  OBVIOUS
<1>1. printed = Nothing /\ output = Empty
  BY DEF GateInit
<1>2. printed \in Listings /\ output \in Collected(printed)
  BY <1>1, NothingIsListed
<1> QED BY <1>2 DEF GateInit, GateInv

(* Each look of the gate is at one output (waitForAppRunning).             *)
LEMMA GateInvariant == GateSpec => []GateInv
BY GateStarts, GateStepKeeps, PTL DEF GateSpec

(* The verdict over any list is one of the four (aggregateContainerHealth).*)
LEMMA AggregateIsVerdict == ASSUME NEW cs PROVE Aggregate(cs) \in Verdict
<1> DEFINE deciding == {i \in DOMAIN cs : Decides(cs[i])}
<1>1. CASE cs = <<>>
  BY <1>1 DEF Aggregate, Verdict
<1>2. CASE cs # <<>> /\ deciding # {}
  <2>1. Aggregate(cs) = IF cs[Min(deciding)] = "paused" THEN "unknown" ELSE "failed"
    BY <1>2 DEF Aggregate
  <2> QED BY <2>1 DEF Verdict
<1>3. CASE cs # <<>> /\ deciding = {}
  <2>1. Aggregate(cs) = IF \E i \in DOMAIN cs : Pending(cs[i]) THEN "starting" ELSE "running"
    BY <1>3 DEF Aggregate
  <2> QED BY <2>1 DEF Verdict
<1> QED BY <1>1, <1>2, <1>3

(* The places of the gate and what a health check reports.                 *)
GatePlaces ==
    /\ gate \in {"idle", "ps", "look", "sleep", "wait", "open", "closed"}
    /\ late \in BOOLEAN /\ jobCancelled \in BOOLEAN
    /\ report \in Verdict \cup {"none"}

(* No gate is open and nothing has been reported.                          *)
LEMMA GatePlacesStart == GateInit => GatePlaces
BY DEF GateInit, GatePlaces

(* A health check has a verdict for all that Command.Run may hand on.      *)
LEMMA GatePlacesStep ==
    ASSUME GateInv, GatePlaces, [GateNext]_gateVars
    PROVE  GatePlaces'
<1> USE DEF GatePlaces
<1> HIDE DEF Nothing, Empty, Failure, Verdict
<1>1. CASE EnterGate
  BY <1>1 DEF EnterGate, Again
<1>2. CASE GateStep
  BY <1>2 DEF GateStep, GatePs, PsFailed, Look, Wait, WakeUp, Again, EndGate
<1>3. CASE Deadline \/ Cancel \/ UNCHANGED gateVars
  BY <1>3 DEF Deadline, Cancel, gateVars
<1>4. CASE CheckAppHealths
  <2>1. output'.kind \in {"error", "garbled", "empty", "json"}
    <3>1. output' = Failure \/ \E l \in Listings : output' \in Collected(l)
      BY <1>4 DEF CheckAppHealths, Ps
    <3> QED BY <3>1, CollectedKinds DEF Failure
  <2>2. report' \in Verdict
    <3>1. CASE output'.kind \in {"error", "garbled"}
      BY <1>4, <3>1 DEF CheckAppHealths, Verdict
    <3>2. CASE output'.kind = "empty"
      BY <1>4, <3>2 DEF CheckAppHealths, Verdict
    <3>3. CASE output'.kind = "json"
      BY <1>4, <3>3, AggregateIsVerdict DEF CheckAppHealths
    <3> QED BY <2>1, <3>1, <3>2, <3>3
  <2>3. UNCHANGED <<gate, late, jobCancelled>>
    BY <1>4 DEF CheckAppHealths
  <2> QED BY <2>2, <2>3
<1> QED BY <1>1, <1>2, <1>3, <1>4 DEF GateNext

(* What the places of the gate and its output come to together.            *)
LEMMA GateTypesFollow == GateInv /\ GatePlaces => GateTypeOK
<1> SUFFICES ASSUME GateInv, GatePlaces PROVE GateTypeOK
  OBVIOUS
<1>1. \A cs \in Lists : cs \in Seq(ContainerStates)
  BY DEF Lists
<1>2. printed.form \in {"array", "lines"} /\ printed.warning \in BOOLEAN
  BY DEF GateInv, Listings
<1>3. printed.containers \in Lists
  BY HealthGateAssumption DEF GateInv, Listings, Lists
<1>4. output.kind \in {"error", "garbled", "empty", "json"} /\ output.containers \in Lists
  <2>1. CASE output = Failure
    <3>1. Failure.kind = "error" /\ Failure.containers = <<>>
      BY DEF Failure
    <3>2. <<>> \in [1..0 -> ContainerStates]
      OBVIOUS
    <3> QED BY <2>1, <3>1, <3>2 DEF Lists
  <2>2. CASE output \in Collected(printed)
    BY <2>2, CollectedKinds, CollectedAreLists DEF GateInv
  <2> QED BY <2>1, <2>2 DEF GateInv
<1> QED BY <1>1, <1>2, <1>3, <1>4 DEF GatePlaces, GateTypeOK

(* For listings of any length and form: the gate, what it collects and     *)
(* what it reports keep their types; every output of Command.Run leads to  *)
(* one of the four verdicts (executor.go, checkAppHealths).                *)
THEOREM GateIsTyped == GateSpec => []GateTypeOK
BY GateInvariant, GatePlacesStart, GatePlacesStep, GateTypesFollow, PTL DEF GateSpec

(* "A deploy that builds and recreates cleanly but whose container crashes *)
(* on boot must be marked FAILED" (executor.go): for listings of any       *)
(* length and form, an open gate and a report of running mean containers   *)
(* that are up, unless compose wrote a warning.                            *)
THEOREM OpenGateMeansUp == GateSpec => []OpenMeansUp
<1>1. GateInv => OpenMeansUp
  <2> SUFFICES ASSUME GateInv, ~printed.warning, SaysRunning(output)
               PROVE  /\ printed.containers # <<>>
                      /\ \A i \in DOMAIN printed.containers :
                            printed.containers[i] \in {"running", "running/healthy", "exited/0"}
    BY DEF OpenMeansUp, GateInv
  <2>1. output \in Collected(printed) /\ output.kind = "json"
    BY DEF GateInv, SaysRunning, Failure
  <2>2. output.containers = printed.containers
    BY <2>1, CollectedWhole DEF GateInv
  <2>3. PICK n \in Nat : printed.containers \in [1..n -> ContainerStates]
    BY HealthGateAssumption DEF GateInv, Listings
  <2>4. Aggregate(printed.containers) = "running"
    BY <2>2 DEF SaysRunning
  <2> QED BY <2>3, <2>4, RunningMeansUp
<1> QED BY <1>1, GateInvariant, PTL

(* Whatever compose printed and a warning left of it, the verdict over it  *)
(* is the one the comment of aggregateContainerHealth states               *)
(* (executor.go).                                                          *)
THEOREM VerdictsFollowTheComment == GateSpec => []AggregateIgnoresOrder
<1>1. GateInv => AggregateIgnoresOrder
  <2> SUFFICES ASSUME GateInv, output.kind = "json", output.containers # <<>>,
                      \A i \in DOMAIN output.containers : output.containers[i] # "paused"
               PROVE  Aggregate(output.containers) =
                         IF Broken(output.containers) THEN "failed"
                         ELSE IF Settling(output.containers) THEN "starting" ELSE "running"
    BY DEF AggregateIgnoresOrder
  <2>1. output.containers \in Lists
    BY CollectedAreLists DEF GateInv, Failure
  <2>2. PICK n \in Nat : output.containers \in [1..n -> ContainerStates]
    BY <2>1 DEF Lists
  <2> QED BY <2>2, VerdictIgnoresOrder
<1> QED BY <1>1, GateInvariant, PTL

-----------------------------------------------------------------------------
(* The collector's buffer.                                                 *)

(* Samples are as old as they can be, and the newest is the last one.      *)
SamplesArePast ==
    /\ \A i \in DOMAIN recent : recent[i] <= time
    /\ \A i \in DOMAIN stream : stream[i] <= time
    /\ \A i \in DOMAIN flush : flush[i] <= time
    /\ told <= time
    /\ collector = "up" /\ freshRun => recent # <<>> /\ Last(recent) = time

(* What a flush has appended stays in the window of the stream that the    *)
(* next start loads: there is room in it for what is still to be appended  *)
(* (collector.go:155-199).                                                 *)
FlushIsInReach ==
    /\ Len(recent) <= MaxSamples /\ Len(flush) <= MaxSamples
    /\ collector # "flushing" => flush = <<>>
    /\ collector # "up" => kept \subseteq Range(LastOf(stream, MaxSamples - Len(flush)))

CollectorInv ==
    CollectorTypeOK /\ SamplesArePast /\ FlushIsInReach /\ RestartKeepsWhatWasFlushed

(* The end of a stream that a start loads, and its reversal.               *)
LEMMA LastOfIsIn ==
  ASSUME NEW S, NEW s \in Seq(S), NEW n \in Nat
  PROVE  /\ LastOf(s, n) \in Seq(S) /\ Len(LastOf(s, n)) <= n /\ Len(LastOf(s, n)) \in Nat
         /\ \A i \in DOMAIN LastOf(s, n) : \E j \in DOMAIN s : LastOf(s, n)[i] = s[j]
         /\ \A j \in DOMAIN s : j > Len(s) - n => s[j] \in Range(LastOf(s, n))
<1> DEFINE m == IF Len(s) > n THEN Len(s) - n ELSE 0
           l == LastOf(s, n)
<1>1. m \in Nat /\ Len(s) \in Nat /\ Len(s) - m <= n /\ m <= Len(s) /\ DOMAIN s = 1..Len(s)
  OBVIOUS
<1>2. l = SubSeq(s, m + 1, Len(s))
  BY DEF LastOf
<1>3. /\ l \in Seq(S) /\ Len(l) = Len(s) - m /\ DOMAIN l = 1..(Len(s) - m)
      /\ \A i \in 1..(Len(s) - m) : l[i] = s[m + i]
  <2>1. \A i \in (m + 1)..Len(s) : s[i] \in S
    BY <1>1
  <2> HIDE DEF m, l
  <2> QED
    BY <1>1, <1>2, <2>1, SubSeqProperties
<1>4. ASSUME NEW i \in DOMAIN l PROVE \E j \in DOMAIN s : l[i] = s[j]
  <2>1. m + i \in DOMAIN s
    BY <1>1, <1>3, <1>4
  <2> QED
    BY <1>3, <1>4, <2>1
<1>5. ASSUME NEW j \in DOMAIN s, j > Len(s) - n PROVE s[j] \in Range(l)
  <2>1. j - m \in 1..(Len(s) - m) /\ m + (j - m) = j
    BY <1>1, <1>5
  <2>2. l[j - m] = s[j]
    <3> HIDE DEF m, l
    <3> QED
      BY <1>3, <2>1
  <2> QED
    BY <1>3, <2>1, <2>2 DEF Range
<1> QED
  BY <1>1, <1>3, <1>4, <1>5

(* A longer end of a stream has all that a shorter one has ...             *)
LEMMA WindowWidens ==
  ASSUME NEW S, NEW s \in Seq(S), NEW m \in Nat, NEW n \in Nat, m <= n
  PROVE  Range(LastOf(s, m)) \subseteq Range(LastOf(s, n))
<1> DEFINE l == LastOf(s, m)
           a == IF Len(s) > m THEN Len(s) - m ELSE 0
<1>1. a \in Nat /\ Len(s) \in Nat /\ a <= Len(s) /\ DOMAIN s = 1..Len(s)
      /\ a + 1 > Len(s) - m
  OBVIOUS
<1>2. /\ DOMAIN l = 1..(Len(s) - a)
      /\ \A i \in 1..(Len(s) - a) : l[i] = s[a + i]
  <2>1. l = SubSeq(s, a + 1, Len(s))
    BY DEF LastOf
  <2>2. \A i \in (a + 1)..Len(s) : s[i] \in S
    BY <1>1
  <2> HIDE DEF a, l
  <2> QED
    BY <1>1, <2>1, <2>2, SubSeqProperties
<1>3. \A j \in DOMAIN s : j > Len(s) - n => s[j] \in Range(LastOf(s, n))
  BY LastOfIsIn
<1>4. ASSUME NEW i \in DOMAIN l PROVE l[i] \in Range(LastOf(s, n))
  <2>1. a + i \in DOMAIN s /\ a + i > Len(s) - n
    BY <1>1, <1>2, <1>4
  <2>2. l[i] = s[a + i]
    <3> HIDE DEF a, l
    <3> QED BY <1>2, <1>4
  <2> QED
    BY <1>3, <2>1, <2>2
<1> HIDE DEF l
<1> QED
  BY <1>4 DEF Range, l

(* ... and stays within an end that grows with the stream.                 *)
LEMMA WindowGrows ==
  ASSUME NEW S, NEW s \in Seq(S), NEW n \in Nat, NEW x \in S, NEW K,
         K \subseteq Range(LastOf(s, n))
  PROVE  /\ Append(s, x) \in Seq(S)
         /\ \A i \in DOMAIN Append(s, x) :
               Append(s, x)[i] = x \/ (i \in DOMAIN s /\ Append(s, x)[i] = s[i])
         /\ K \cup {x} \subseteq Range(LastOf(Append(s, x), n + 1))
<1> DEFINE t == Append(s, x)
           l == LastOf(s, n)
           a == IF Len(s) > n THEN Len(s) - n ELSE 0
<1>1. /\ t \in Seq(S) /\ Len(t) = Len(s) + 1 /\ Len(s) \in Nat /\ DOMAIN s = 1..Len(s)
      /\ DOMAIN t = 1..(Len(s) + 1) /\ t[Len(s) + 1] = x
      /\ \A i \in 1..Len(s) : t[i] = s[i]
      /\ a \in Nat /\ a <= Len(s) /\ a + 1 > Len(s) - n
  OBVIOUS
<1>2. /\ DOMAIN l = 1..(Len(s) - a)
      /\ \A i \in 1..(Len(s) - a) : l[i] = s[a + i]
  <2>1. l = SubSeq(s, a + 1, Len(s))
    BY DEF LastOf
  <2>2. \A i \in (a + 1)..Len(s) : s[i] \in S
    BY <1>1
  <2> HIDE DEF a, l, t
  <2> QED
    BY <1>1, <2>1, <2>2, SubSeqProperties
<1> HIDE DEF t, a
<1>3. \A j \in DOMAIN t : j > Len(t) - (n + 1) => t[j] \in Range(LastOf(t, n + 1))
  <2>1. n + 1 \in Nat
    OBVIOUS
  <2> QED BY <1>1, <2>1, LastOfIsIn
<1>4. x \in Range(LastOf(t, n + 1))
  BY <1>1, <1>3
<1>5. ASSUME NEW i \in DOMAIN l PROVE l[i] \in Range(LastOf(t, n + 1))
  <2>1. a + i \in DOMAIN s /\ a + i > Len(t) - (n + 1) /\ i \in 1..(Len(s) - a)
    BY <1>1, <1>2, <1>5
  <2>2. l[i] = s[a + i] /\ t[a + i] = s[a + i] /\ a + i \in DOMAIN t
    <3> HIDE DEF l
    <3> QED BY <1>1, <1>2, <2>1
  <2> QED
    BY <1>3, <2>1, <2>2
<1>6. K \cup {x} \subseteq Range(LastOf(t, n + 1))
  <2>1. Range(l) \subseteq Range(LastOf(t, n + 1))
    <3> HIDE DEF l
    <3> QED BY <1>5 DEF Range
  <2> QED BY <1>4, <2>1
<1>7. \A i \in DOMAIN t : t[i] = x \/ (i \in DOMAIN s /\ t[i] = s[i])
  <2> SUFFICES ASSUME NEW i \in 1..(Len(s) + 1) PROVE t[i] = x \/ (i \in DOMAIN s /\ t[i] = s[i])
    BY <1>1
  <2>1. i = Len(s) + 1 \/ i \in 1..Len(s)
    BY <1>1
  <2> QED BY <1>1, <2>1
<1> QED
  BY <1>1, <1>6, <1>7 DEF t

(* Reading a list the other way round gives the same entries.              *)
LEMMA ReverseIsIn ==
  ASSUME NEW S, NEW s \in Seq(S)
  PROVE  /\ Reverse(s) \in Seq(S) /\ Len(Reverse(s)) = Len(s)
         /\ Range(Reverse(s)) = Range(s)
<1>1. /\ Len(s) \in Nat /\ DOMAIN s = 1..Len(s)
      /\ \A i \in 1..Len(s) : Len(s) - i + 1 \in 1..Len(s) /\ s[i] \in S
  OBVIOUS
<1>2. Reverse(s) = [i \in 1..Len(s) |-> s[Len(s) - i + 1]]
  BY DEF Reverse
<1>3. Reverse(s) \in [1..Len(s) -> S]
  BY <1>1, <1>2
<1>4. Reverse(s) \in Seq(S) /\ Len(Reverse(s)) = Len(s) /\ DOMAIN Reverse(s) = 1..Len(s)
  BY <1>1, <1>3
<1>5. \A i \in 1..Len(s) : /\ Reverse(s)[i] = s[Len(s) - i + 1]
                           /\ Reverse(s)[Len(s) - i + 1] = s[i]
  <2>1. \A i \in 1..Len(s) : Len(s) - (Len(s) - i + 1) + 1 = i
    BY <1>1
  <2> QED
    BY <1>1, <1>2, <2>1
<1> QED
  BY <1>1, <1>4, <1>5 DEF Range

(* The buffer gets a sample and drops its oldest when it is full.          *)
LEMMA RememberIsLast ==
  ASSUME NEW S, NEW s \in Seq(S), NEW x \in S, MaxSamples \in Nat \ {0}, Len(s) <= MaxSamples
  PROVE  /\ Remember(s, x) \in Seq(S) /\ Len(Remember(s, x)) <= MaxSamples
         /\ Remember(s, x) # <<>> /\ Last(Remember(s, x)) = x
         /\ \A i \in DOMAIN Remember(s, x) :
              Remember(s, x)[i] = x \/ \E j \in DOMAIN s : Remember(s, x)[i] = s[j]
<1> DEFINE b == IF Len(s) >= MaxSamples THEN Tail(s) ELSE s
<1>1. /\ b \in Seq(S) /\ Len(b) \in Nat /\ Len(b) < MaxSamples /\ DOMAIN b = 1..Len(b)
      /\ \A i \in DOMAIN b : \E j \in DOMAIN s : b[i] = s[j]
  <2>1. CASE Len(s) >= MaxSamples
    <3>1. /\ Len(s) \in Nat \ {0} /\ Tail(s) \in Seq(S) /\ Len(Tail(s)) = Len(s) - 1
          /\ DOMAIN Tail(s) = 1..(Len(s) - 1) /\ DOMAIN s = 1..Len(s)
          /\ \A i \in 1..(Len(s) - 1) : Tail(s)[i] = s[i + 1] /\ i + 1 \in 1..Len(s)
      BY <2>1
    <3> QED
      BY <2>1, <3>1
  <2>2. CASE Len(s) < MaxSamples
    BY <2>2
  <2> QED
    BY <2>1, <2>2
<1>2. Remember(s, x) = Append(b, x)
  BY DEF Remember
<1> HIDE DEF b
<1>3. /\ Append(b, x) \in Seq(S) /\ Len(Append(b, x)) = Len(b) + 1
      /\ DOMAIN Append(b, x) = 1..(Len(b) + 1) /\ Append(b, x)[Len(b) + 1] = x
      /\ \A i \in 1..Len(b) : Append(b, x)[i] = b[i]
  BY <1>1
<1>4. Append(b, x) # <<>> /\ Last(Append(b, x)) = x
  BY <1>1, <1>3 DEF Last
<1> QED
  BY <1>1, <1>2, <1>3, <1>4

(* A collector that has not run has nothing to lose.                       *)
LEMMA CollectorStarts == CollectorInit => CollectorInv
<1> SUFFICES ASSUME CollectorInit PROVE CollectorInv
  OBVIOUS
<1>0. /\ MaxSamples \in Nat \ {0} /\ 0 \in 0..LastSample /\ 0 \in 0..MaxStarts
      /\ <<>> \in Seq(Samples) /\ Len(<<>>) = 0 /\ DOMAIN <<>> = {}
  BY CollectorAssumption
<1>1. CollectorTypeOK
  BY <1>0 DEF CollectorInit, CollectorTypeOK
<1>2. SamplesArePast
  BY <1>0 DEF CollectorInit, SamplesArePast
<1> QED
  BY <1>0, <1>1, <1>2 DEF CollectorInit, CollectorInv, FlushIsInReach, RestartKeepsWhatWasFlushed

(* Every step of the collector's run, its stop and the agent's start.      *)
LEMMA CollectorKeeps == CollectorInv /\ [CollectorNext]_collectorVars => CollectorInv'
<1> SUFFICES ASSUME CollectorInv, [CollectorNext]_collectorVars PROVE CollectorInv'
  OBVIOUS
<1>0. /\ MaxSamples \in Nat \ {0} /\ LastSample \in Nat /\ MaxStarts \in Nat
      /\ recent \in Seq(Samples) /\ stream \in Seq(Samples) /\ flush \in Seq(Samples)
      /\ time \in 0..LastSample /\ told \in 0..LastSample /\ starts \in 0..MaxStarts
      /\ Len(recent) <= MaxSamples /\ Len(flush) <= MaxSamples /\ Len(flush) \in Nat
      /\ kept \subseteq Samples /\ \A s \in Samples : s \in Nat
      /\ <<>> \in Seq(Samples) /\ Len(<<>>) = 0 /\ DOMAIN <<>> = {}
  BY CollectorAssumption DEF CollectorInv, CollectorTypeOK, FlushIsInReach, Samples
<1>1. CASE StartCollector
  <2> DEFINE l == LastOf(stream, MaxSamples)
  <2>1. /\ l \in Seq(Samples) /\ Len(l) <= MaxSamples
        /\ \A i \in DOMAIN l : \E j \in DOMAIN stream : l[i] = stream[j]
    <3>1. stream \in Seq(Samples) /\ MaxSamples \in Nat
      BY <1>0
    <3> QED
      BY <3>1, LastOfIsIn
  <2>2. kept \subseteq Range(l) /\ flush = <<>>
    <3>1. flush = <<>> /\ MaxSamples - Len(flush) = MaxSamples
      BY <1>0, <1>1 DEF StartCollector, CollectorInv, FlushIsInReach
    <3> QED
      BY <1>1, <3>1 DEF StartCollector, CollectorInv, FlushIsInReach
  <2> HIDE DEF l
  <2>3. /\ Reverse(l) \in Seq(Samples) /\ Len(Reverse(l)) <= MaxSamples
        /\ Range(Reverse(l)) = Range(l)
    BY <2>1, ReverseIsIn
  <2>4. \A i \in DOMAIN Reverse(l) : Reverse(l)[i] <= time
    BY <2>1, <2>3 DEF Range, CollectorInv, SamplesArePast
  <2>5. /\ recent' = <<>> \/ recent' = Reverse(l)
        /\ collector' = "up" /\ ~freshRun' /\ starts' \in 0..MaxStarts /\ freshRun' \in BOOLEAN
        /\ UNCHANGED <<time, flush, stream, told, kept>>
    <3>1. starts + 1 \in 0..MaxStarts
      BY <1>0, <1>1 DEF StartCollector
    <3>2. recent' \in {<<>>, Reverse(l)}
      BY <1>1 DEF StartCollector, l
    <3> QED
      BY <1>1, <3>1, <3>2 DEF StartCollector
  <2>6. CollectorTypeOK'
    BY <1>0, <2>3, <2>5 DEF CollectorTypeOK
  <2>7. SamplesArePast'
    BY <1>0, <2>4, <2>5 DEF CollectorInv, SamplesArePast
  <2>8. FlushIsInReach' /\ RestartKeepsWhatWasFlushed'
    BY <1>0, <2>2, <2>3, <2>5 DEF FlushIsInReach, RestartKeepsWhatWasFlushed
  <2> QED
    BY <2>6, <2>7, <2>8 DEF CollectorInv
<1>2. CASE Collect
  <2>1. /\ collector = "up" /\ collector' = "up" /\ time' = time + 1 /\ freshRun'
        /\ freshRun' \in BOOLEAN /\ recent' = Remember(recent, time + 1)
        /\ stream' = stream \/ stream' = Append(stream, time + 1)
        /\ UNCHANGED <<starts, flush, told, kept>> /\ time + 1 \in Samples
    BY <1>0, <1>2 DEF Collect, Samples
  <2>2. /\ recent' \in Seq(Samples) /\ Len(recent') <= MaxSamples
        /\ recent' # <<>> /\ Last(recent') = time + 1
        /\ \A i \in DOMAIN recent' : recent'[i] = time + 1 \/ \E j \in DOMAIN recent : recent'[i] = recent[j]
    BY <1>0, <2>1, RememberIsLast
  <2>3. /\ stream' \in Seq(Samples)
        /\ \A i \in DOMAIN stream' : \/ stream'[i] = time + 1
                                     \/ i \in DOMAIN stream /\ stream'[i] = stream[i]
    <3>1. /\ Append(stream, time + 1) \in Seq(Samples) /\ DOMAIN stream = 1..Len(stream)
          /\ DOMAIN Append(stream, time + 1) = 1..(Len(stream) + 1) /\ Len(stream) \in Nat
          /\ Append(stream, time + 1)[Len(stream) + 1] = time + 1
          /\ \A i \in 1..Len(stream) : Append(stream, time + 1)[i] = stream[i]
      BY <1>0, <2>1
    <3>2. CASE stream' = stream
      BY <1>0, <3>2
    <3>3. CASE stream' = Append(stream, time + 1)
      <4>1. \A i \in 1..(Len(stream) + 1) : i = Len(stream) + 1 \/ i \in 1..Len(stream)
        BY <3>1
      <4> QED
        BY <3>1, <3>3, <4>1
    <3> QED
      BY <2>1, <3>2, <3>3
  <2>4. CollectorTypeOK'
    BY <1>0, <2>1, <2>2, <2>3 DEF CollectorTypeOK, Samples
  <2>5. SamplesArePast'
    <3>1. /\ \A i \in DOMAIN recent : recent[i] <= time /\ recent[i] \in Nat
          /\ \A i \in DOMAIN stream : stream[i] <= time /\ stream[i] \in Nat
          /\ told <= time /\ flush = <<>>
      BY <1>0, <2>1 DEF CollectorInv, SamplesArePast, FlushIsInReach
    <3>2. \A i \in DOMAIN recent' : recent'[i] <= time + 1
      BY <1>0, <2>2, <3>1, SMTT(30)
    <3>3. \A i \in DOMAIN stream' : stream'[i] <= time + 1
      <4> SUFFICES ASSUME NEW i \in DOMAIN stream' PROVE stream'[i] <= time + 1
        OBVIOUS
      <4>1. CASE stream'[i] = time + 1
        BY <1>0, <4>1
      <4>2. CASE i \in DOMAIN stream /\ stream'[i] = stream[i]
        <5>1. stream[i] <= time /\ stream[i] \in Nat /\ time \in Nat
          BY <1>0, <3>1, <4>2
        <5> QED
          BY <4>2, <5>1
      <4> QED
        BY <2>3, <4>1, <4>2
    <3> QED
      BY <1>0, <2>1, <2>2, <3>1, <3>2, <3>3 DEF SamplesArePast
  <2> QED
    BY <2>1, <2>2, <2>4, <2>5 DEF CollectorInv, FlushIsInReach, RestartKeepsWhatWasFlushed
<1>3. CASE StopCollector
  <2>1. /\ collector = "up" /\ collector' = "flushing" /\ flush' = recent /\ kept' = {}
        /\ UNCHANGED <<starts, time, recent, stream, told, freshRun>>
    BY <1>3 DEF StopCollector
  <2> QED
    BY <1>0, <2>1 DEF CollectorInv, CollectorTypeOK, SamplesArePast, FlushIsInReach,
       RestartKeepsWhatWasFlushed
<1>4. CASE FlushOne
  <2>1. /\ collector = "flushing" /\ collector' = "flushing" /\ flush # <<>> /\ flush' = Tail(flush)
        /\ UNCHANGED <<starts, time, recent, told, freshRun>>
        /\ \/ stream' = Append(stream, Head(flush)) /\ kept' = kept \cup {Head(flush)}
           \/ UNCHANGED <<stream, kept>>
    BY <1>4 DEF FlushOne
  <2> DEFINE x == Head(flush)  n == MaxSamples - Len(flush)
  <2>2. /\ x \in Samples /\ Tail(flush) \in Seq(Samples) /\ n \in Nat
        /\ Len(Tail(flush)) = Len(flush) - 1 /\ Len(flush) >= 1
        /\ MaxSamples - Len(Tail(flush)) = n + 1
        /\ \A i \in DOMAIN Tail(flush) : Tail(flush)[i] = flush[i + 1] /\ i + 1 \in DOMAIN flush
        /\ 1 \in DOMAIN flush /\ x = flush[1]
    BY <1>0, <2>1
  <2>3. kept \subseteq Range(LastOf(stream, n))
    BY <2>1 DEF CollectorInv, FlushIsInReach
  <2>4. x <= time /\ \A i \in DOMAIN Tail(flush) : Tail(flush)[i] <= time
    BY <2>2 DEF CollectorInv, SamplesArePast
  <2> HIDE DEF x, n
  <2>5. CASE stream' = Append(stream, x) /\ kept' = kept \cup {x}
    <3>1. /\ stream' \in Seq(Samples)
          /\ \A i \in DOMAIN stream' : stream'[i] = x \/ (i \in DOMAIN stream /\ stream'[i] = stream[i])
          /\ kept' \subseteq Range(LastOf(stream', n + 1))
      <4>1. stream \in Seq(Samples) /\ n \in Nat /\ x \in Samples
        BY <1>0, <2>2
      <4>2. /\ Append(stream, x) \in Seq(Samples)
            /\ \A i \in DOMAIN Append(stream, x) :
                  \/ Append(stream, x)[i] = x
                  \/ i \in DOMAIN stream /\ Append(stream, x)[i] = stream[i]
            /\ kept \cup {x} \subseteq Range(LastOf(Append(stream, x), n + 1))
        BY <2>3, <4>1, WindowGrows
      <4> QED
        BY <2>5, <4>2
    <3>2. \A i \in DOMAIN stream' : stream'[i] <= time
      BY <2>4, <3>1 DEF CollectorInv, SamplesArePast
    <3> QED
      BY <1>0, <2>1, <2>2, <2>4, <2>5, <3>1, <3>2
      DEF CollectorInv, CollectorTypeOK, SamplesArePast, FlushIsInReach, RestartKeepsWhatWasFlushed
  <2>6. CASE UNCHANGED <<stream, kept>>
    <3>1. kept \subseteq Range(LastOf(stream, n + 1))
      BY <1>0, <2>2, <2>3, WindowWidens
    <3> QED
      BY <1>0, <2>1, <2>2, <2>4, <2>6, <3>1
      DEF CollectorInv, CollectorTypeOK, SamplesArePast, FlushIsInReach, RestartKeepsWhatWasFlushed
  <2> QED
    BY <2>1, <2>5, <2>6 DEF x
<1>7. CASE FlushEnds
  <2>1. /\ collector = "flushing" /\ collector' = "stopped" /\ flush = <<>> /\ recent' = <<>>
        /\ UNCHANGED <<starts, time, flush, stream, told, freshRun, kept>>
    BY <1>7 DEF FlushEnds
  <2> QED
    BY <1>0, <2>1 DEF CollectorInv, CollectorTypeOK, SamplesArePast, FlushIsInReach,
       RestartKeepsWhatWasFlushed
<1>8. CASE ProcessEnds
  <2>1. /\ collector' = "down" /\ recent' = <<>> /\ flush' = <<>>
        /\ kept' = {} \/ (kept' = kept /\ collector # "up")
        /\ UNCHANGED <<starts, time, stream, told, freshRun>>
    BY <1>8 DEF ProcessEnds
  <2>2. kept' \subseteq Range(LastOf(stream, MaxSamples)) /\ kept' \subseteq Samples
    <3>1. CASE kept' = {}
      BY <3>1
    <3>2. CASE kept' = kept /\ collector # "up"
      <4>1. kept \subseteq Range(LastOf(stream, MaxSamples - Len(flush)))
        BY <3>2 DEF CollectorInv, FlushIsInReach
      <4>2. MaxSamples - Len(flush) \in Nat /\ MaxSamples - Len(flush) <= MaxSamples
        BY <1>0
      <4> QED
        BY <1>0, <3>2, <4>1, <4>2, WindowWidens
    <3> QED
      BY <2>1, <3>1, <3>2
  <2>3. MaxSamples - Len(flush') = MaxSamples /\ flush' \in Seq(Samples) /\ Len(flush') = 0
    BY <1>0, <2>1
  <2> QED
    BY <1>0, <2>1, <2>2, <2>3 DEF CollectorInv, CollectorTypeOK, SamplesArePast, FlushIsInReach,
       RestartKeepsWhatWasFlushed
<1>5. CASE Latest
  <2>1. UNCHANGED <<collector, starts, time, recent, flush, stream, freshRun, kept>>
    BY <1>5 DEF Latest
  <2>2. told' \in 0..LastSample /\ told' <= time
    <3>1. CASE recent = <<>>
      BY <1>0, <1>5, <3>1 DEF Latest
    <3>2. CASE recent # <<>>
      <4>1. Len(recent) \in DOMAIN recent /\ told' = recent[Len(recent)]
        BY <1>0, <1>5, <3>2 DEF Latest, Last
      <4>2. told' \in Samples
        BY <1>0, <4>1
      <4> QED
        BY <4>1, <4>2 DEF CollectorInv, SamplesArePast, Samples
    <3> QED
      BY <3>1, <3>2
  <2> QED
    BY <2>1, <2>2 DEF CollectorInv, CollectorTypeOK, SamplesArePast, FlushIsInReach,
       RestartKeepsWhatWasFlushed
<1>6. CASE UNCHANGED collectorVars
  BY <1>6 DEF collectorVars, CollectorInv, CollectorTypeOK, SamplesArePast, FlushIsInReach,
     RestartKeepsWhatWasFlushed
<1> QED
  BY <1>1, <1>2, <1>3, <1>4, <1>5, <1>6, <1>7, <1>8 DEF CollectorNext

(* For a buffer of any capacity, and whichever appends of the flush failed *)
(* and wherever the process was killed: the samples that the flush got into*)
(* the stream are in what the next run loads (collector.go:155-199).       *)
THEOREM FlushSurvivesRestarts == CollectorSpec => []RestartKeepsWhatWasFlushed
<1>1. CollectorInv => RestartKeepsWhatWasFlushed
  BY DEF CollectorInv
<1> QED
  BY CollectorStarts, CollectorKeeps, <1>1, PTL DEF CollectorSpec

(* For a buffer of any capacity: Latest goes back in time only between a   *)
(* start and the first sample, or after the flush (collector.go:158-185).  *)
THEOREM LatestIsMonotonic == CollectorSpec => LatestGoesBackOnlyAroundAStart
<1> DEFINE Step == told' < told => ~freshRun \/ collector = "stopped"
<1>1. ASSUME CollectorInv, CollectorNext PROVE Step
  <2>1. /\ told \in Nat /\ told <= time /\ time \in Nat
        /\ collector \in {"down", "up", "flushing", "stopped"}
        /\ collector = "up" /\ freshRun => recent # <<>> /\ Last(recent) = time
    BY <1>1, CollectorAssumption DEF CollectorInv, CollectorTypeOK, SamplesArePast
  <2>2. CASE Latest
    BY <2>1, <2>2 DEF Latest
  <2>3. CASE ~Latest
    <3>1. told' = told
      BY <1>1, <2>3 DEF CollectorNext, StartCollector, Collect, StopCollector, FlushOne,
         FlushEnds, ProcessEnds
    <3> QED
      BY <2>1, <3>1
  <2> QED
    BY <2>2, <2>3
<1>2. CollectorInv /\ [CollectorNext]_collectorVars => [Step]_collectorVars
  BY <1>1
<1> QED
  BY CollectorStarts, CollectorKeeps, <1>2, PTL DEF CollectorSpec, LatestGoesBackOnlyAroundAStart

-----------------------------------------------------------------------------
(* The collector's meters.                                                 *)

(* How the counters and what they grew by since the last reading relate:   *)
(* a difference is the growth, unless the counter went back or the reading *)
(* had failed; and a counter that started again from nothing is no more    *)
(* than what has grown since.                                              *)
DifferenceIsGrowth ==
    /\ \A k \in Meters : lastRead[k] # Unread /\ ~wentBack[k] /\ ~failed[k] =>
          counter[k] - lastRead[k] = grown[k]
    /\ \A k \in Simple : wentBack[k] => counter[k] <= grown[k]
    /\ ~wentBack["total"] /\ ~failed["idle"] /\ ~failed["total"]

(* An average of values that are right is in their range (ema.go).         *)
AverageIsInRange == \A k \in Meters : ~spoilt[k] => smooth[k] \in 0..MaxStep

(* Idle time is part of the total (cpu.go:56-95).                          *)
IdleIsPartOfTotal ==
    /\ counter["idle"] <= counter["total"] /\ grown["idle"] <= grown["total"]
    /\ lastRead["idle"] = Unread <=> lastRead["total"] = Unread

MetersInv ==
    /\ MetersTypeOK
    /\ DifferenceIsGrowth
    /\ AverageIsInRange
    /\ IdleIsPartOfTotal
    /\ \A k \in Meters : counter[k] \in Nat /\ grown[k] <= MaxStep

(* On uint64, the difference of a number and a smaller one is exact.       *)
LEMMA MinusIsExact ==
  ASSUME 2^Width \in Nat \ {0}, NEW a \in Counters, NEW b \in Counters, b <= a
  PROVE  Minus(a, b) = a - b
<1>1. ASSUME NEW m \in Nat \ {0}, NEW d \in 0..(m - 1) PROVE d % m = d
  BY <1>1
<1>2. a - b \in 0..(2^Width - 1)
  BY DEF Counters
<1> QED
  BY <1>1, <1>2 DEF Minus

(* Before the first reading nothing has been shown.                        *)
LEMMA MetersStart == MetersInit => MetersInv
  BY MetersAssumption DEF MetersInit, MetersInv, MetersTypeOK, DifferenceIsGrowth,
     AverageIsInRange, IdleIsPartOfTotal, Meters, Simple, Unread, Counters

(* The kernel's steps.                                                     *)
LEMMA KernelKeeps ==
  ASSUME MetersInv, NEW k \in Meters,
         Grow(k) \/ GoBack(k) \/ \E b \in BOOLEAN : PassTime(b)
  PROVE  MetersInv'
<1>0. /\ 2^Width \in Nat \ {0} /\ MaxStep \in Nat /\ MetersTypeOK
      /\ UNCHANGED <<watched, lastRead, shown, smooth, failed, spoilt>>
      /\ AverageIsInRange'
  BY MetersAssumption DEF MetersInv, AverageIsInRange, Grow, GoBack, PassTime
<1>1. \A m \in Meters : /\ counter[m] \in Nat /\ grown[m] \in Nat /\ grown[m] <= MaxStep
                        /\ counter[m] \in Counters /\ lastRead[m] \in Counters \cup {Unread}
                        /\ lastRead[m] # Unread => lastRead[m] \in Nat
  BY <1>0 DEF MetersInv, MetersTypeOK, Counters
<1>2. /\ Simple \subseteq Meters /\ {"idle", "total"} \subseteq Meters
      /\ \A m \in Meters : m \in Simple \/ m = "idle" \/ m = "total"
      /\ "idle" \notin Simple /\ "total" \notin Simple
  BY DEF Meters, Simple
<1>3. CASE Grow(k)
  <2>1. /\ counter'[k] = counter[k] + 1 /\ grown'[k] = grown[k] + 1
        /\ \A m \in Meters \ {k} : counter'[m] = counter[m] /\ grown'[m] = grown[m]
        /\ counter[k] + 1 \in Counters /\ grown[k] < MaxStep /\ k \in Simple /\ wentBack' = wentBack
    BY <1>0, <1>3 DEF Grow, MetersTypeOK
  <2>2. counter' \in [Meters -> Counters] /\ grown' \in [Meters -> Nat]
    BY <1>0, <1>1, <1>3 DEF Grow, MetersTypeOK
  <2>3. MetersTypeOK'
    BY <1>0, <2>1, <2>2 DEF MetersTypeOK
  <2>4. DifferenceIsGrowth'
    BY <1>0, <1>1, <1>2, <2>1 DEF MetersInv, DifferenceIsGrowth
  <2>5. IdleIsPartOfTotal'
    BY <1>0, <1>2, <2>1 DEF MetersInv, IdleIsPartOfTotal
  <2> QED
    BY <1>0, <1>1, <2>1, <2>3, <2>4, <2>5 DEF MetersInv
<1>4. ASSUME NEW b \in BOOLEAN, PassTime(b) PROVE MetersInv'
  <2> DEFINE n == IF b THEN 1 ELSE 0
  <2>1. /\ counter'["total"] = counter["total"] + 1 /\ counter'["idle"] = counter["idle"] + n
        /\ grown'["total"] = grown["total"] + 1 /\ grown'["idle"] = grown["idle"] + n
        /\ \A m \in Simple : counter'[m] = counter[m] /\ grown'[m] = grown[m]
        /\ counter["total"] + 1 \in Counters /\ grown["total"] < MaxStep /\ wentBack' = wentBack
        /\ n \in {0, 1}
        /\ counter' = [counter EXCEPT !["total"] = @ + 1, !["idle"] = @ + n]
        /\ grown' = [grown EXCEPT !["total"] = @ + 1, !["idle"] = @ + n]
    BY <1>0, <1>2, <1>4 DEF PassTime, MetersTypeOK, Meters, Simple
  <2> HIDE DEF n
  <2>2. counter["idle"] + n \in Counters
    BY <1>0, <1>1, <1>2, <2>1 DEF MetersInv, IdleIsPartOfTotal, Counters
  <2>3. counter' \in [Meters -> Counters] /\ grown' \in [Meters -> Nat]
    BY <1>0, <1>1, <1>2, <2>1, <2>2 DEF MetersTypeOK
  <2>4. MetersTypeOK'
    BY <1>0, <2>1, <2>3 DEF MetersTypeOK
  <2>5. DifferenceIsGrowth'
    <3>1. \A m \in Meters : lastRead[m] # Unread /\ ~wentBack[m] /\ ~failed[m] =>
            counter[m] - lastRead[m] = grown[m] /\ lastRead[m] \in Nat
      BY <1>1 DEF MetersInv, DifferenceIsGrowth
    <3>2. \A m \in Meters : lastRead[m] # Unread /\ ~wentBack[m] /\ ~failed[m] =>
            counter'[m] - lastRead[m] = grown'[m]
      <4> SUFFICES ASSUME NEW m \in Meters, lastRead[m] # Unread, ~wentBack[m], ~failed[m]
                   PROVE  counter'[m] - lastRead[m] = grown'[m]
        OBVIOUS
      <4>1. CASE m \in Simple
        BY <2>1, <3>1, <4>1
      <4>2. CASE m = "idle"
        <5>1. n \in Nat
          BY <2>1
        <5> QED
          BY <1>1, <2>1, <3>1, <4>2, <5>1
      <4>3. CASE m = "total"
        BY <1>1, <2>1, <3>1, <4>3
      <4> QED
        BY <1>2, <4>1, <4>2, <4>3
    <3> QED
      BY <1>0, <1>2, <2>1, <3>2 DEF MetersInv, DifferenceIsGrowth
  <2>6. IdleIsPartOfTotal'
    BY <1>0, <1>1, <1>2, <2>1 DEF MetersInv, IdleIsPartOfTotal
  <2>7. grown'["total"] <= MaxStep /\ grown'["idle"] <= MaxStep
    BY <1>0, <1>1, <1>2, <2>1, <2>6 DEF IdleIsPartOfTotal
  <2>8. \A m \in Meters : counter'[m] \in Nat /\ grown'[m] <= MaxStep
    <3>1. n \in Nat
      BY <2>1
    <3>2. /\ counter'["total"] \in Nat /\ counter'["idle"] \in Nat
      BY <1>1, <1>2, <2>1, <3>1
    <3>3. \A m \in Simple : counter'[m] \in Nat /\ grown'[m] <= MaxStep
      BY <1>1, <1>2, <2>1
    <3> QED
      BY <1>2, <2>7, <3>2, <3>3
  <2> QED
    BY <1>0, <2>4, <2>5, <2>6, <2>8 DEF MetersInv
<1>5. CASE GoBack(k)
  <2>1. /\ counter'[k] = IF k = "idle" THEN counter[k] - 1 ELSE 0
        /\ counter[k] > 0 /\ k # "total" /\ wentBack'[k] = TRUE
        /\ \A m \in Meters \ {k} : counter'[m] = counter[m] /\ wentBack'[m] = wentBack[m]
        /\ grown' = grown
    BY <1>0, <1>5 DEF GoBack, MetersTypeOK
  <2>2. counter[k] - 1 \in Counters /\ 0 \in Counters /\ counter'[k] \in Counters
        /\ counter'[k] <= counter[k] /\ counter'[k] \in Nat
    BY <1>0, <1>1, <2>1 DEF Counters
  <2>3. counter' \in [Meters -> Counters] /\ wentBack' \in [Meters -> BOOLEAN]
    BY <1>0, <1>5, <2>2 DEF GoBack, MetersTypeOK
  <2>4. MetersTypeOK'
    BY <1>0, <2>1, <2>3 DEF MetersTypeOK
  <2>5. DifferenceIsGrowth'
    BY <1>0, <1>1, <1>2, <2>1 DEF MetersInv, DifferenceIsGrowth
  <2>6. IdleIsPartOfTotal'
    BY <1>0, <1>1, <1>2, <2>1, <2>2 DEF MetersInv, IdleIsPartOfTotal
  <2>7. \A m \in Meters : counter'[m] \in Nat /\ grown'[m] <= MaxStep
    BY <1>1, <2>1, <2>2
  <2> QED
    BY <1>0, <2>4, <2>5, <2>6, <2>7 DEF MetersInv
<1> QED
  BY <1>3, <1>4, <1>5

(* Without a reset or a failed reading the difference is the growth.       *)
LEMMA DifferencesAreExact ==
  ASSUME MetersInv, NEW m \in Meters, lastRead[m] # Unread, ~wentBack[m], ~failed[m]
  PROVE  /\ Minus(counter[m], lastRead[m]) = grown[m]
         /\ lastRead[m] <= counter[m] /\ counter[m] - lastRead[m] = grown[m]
<1>1. /\ 2^Width \in Nat \ {0} /\ counter[m] \in Counters /\ lastRead[m] \in Counters
      /\ counter[m] \in Nat /\ lastRead[m] \in Nat /\ grown[m] \in Nat
      /\ counter[m] - lastRead[m] = grown[m]
  BY MetersAssumption DEF MetersInv, MetersTypeOK, DifferenceIsGrowth, Counters
<1>2. lastRead[m] <= counter[m]
  BY <1>1
<1> QED
  BY <1>1, <1>2, MinusIsExact

(* A difference on uint64 is a number.                                     *)
LEMMA MinusIsInt ==
  ASSUME 2^Width \in Nat \ {0}, NEW a \in Int, NEW b \in Int
  PROVE  Minus(a, b) \in Int
<1>1. ASSUME NEW m \in Nat \ {0}, NEW d \in Int PROVE d % m \in Int
  BY <1>1
<1> QED
  BY <1>1 DEF Minus

(* EMA.Update leaves the range of its two values to neither side.          *)
LEMMA BetweenStays ==
  ASSUME NEW a \in Int, NEW b \in Int, NEW s \in Between(a, b)
  PROVE  s \in Int /\ \A n \in Nat : a \in 0..n /\ b \in 0..n => s \in 0..n
BY DEF Between

(* A disk's or an interface's value is its growth unless one of two        *)
(* readings failed or the counter went back (disk.go, collector.go).       *)
LEMMA RateFits ==
  ASSUME MetersInv, NEW e \in BOOLEAN, NEW f \in BOOLEAN, NEW k \in Simple,
         NEW d, d = IF lastRead[k] = Unread \/ ~e THEN 0 ELSE Minus(ReadOut(k, f), lastRead[k]),
         k # "energy"
  PROVE  d \in Int /\ (Sound(k, f) => d \in 0..grown[k])
<1>1. /\ k \in Meters /\ 2^Width \in Nat \ {0} /\ counter[k] \in Nat /\ grown[k] \in Nat
      /\ lastRead[k] # Unread => lastRead[k] \in Nat
  BY MetersAssumption DEF MetersInv, MetersTypeOK, Meters, Counters
<1>2. ReadOut(k, f) \in Int /\ (~f => ReadOut(k, f) = counter[k])
  BY <1>1 DEF ReadOut
<1>3. CASE lastRead[k] = Unread \/ ~e
  BY <1>1, <1>3
<1>4. CASE lastRead[k] # Unread /\ e
  <2>1. d = Minus(ReadOut(k, f), lastRead[k])
    BY <1>4
  <2>2. d \in Int
    BY <1>1, <1>2, <1>4, <2>1, MinusIsInt
  <2>3. Sound(k, f) => d = grown[k]
    BY <1>1, <1>2, <1>4, <2>1, DifferencesAreExact DEF Sound
  <2> QED
    BY <1>1, <2>2, <2>3
<1> QED
  BY <1>3, <1>4

(* The energy meter's value is its growth also when the counter started    *)
(* again, unless the reading before had failed (cpu.go:83-109).            *)
LEMMA EnergyFits ==
  ASSUME MetersInv, NEW e \in BOOLEAN, NEW f \in BOOLEAN, NEW d,
         NEW base, NEW read, base = lastRead["energy"], read = ReadOut("energy", f),
         d \in {0, IF base = Unread \/ read < base \/ ~e THEN 0 ELSE read - base}
  PROVE  d \in Int /\ (Sound("energy", f) => d \in 0..grown["energy"])
<1>1. "energy" \in Meters /\ "energy" \in Simple
  BY DEF Meters, Simple
<1>2. /\ counter["energy"] \in Nat /\ grown["energy"] \in Nat
      /\ base # Unread => base \in Nat
      /\ read \in Nat /\ read <= counter["energy"]
  BY <1>1 DEF MetersInv, MetersTypeOK, Counters, ReadOut
<1>3. CASE d = 0
  BY <1>2, <1>3
<1>4. CASE base # Unread /\ ~(read < base) /\ d = read - base
  <2>1. d \in Nat /\ d <= counter["energy"] - base /\ d <= counter["energy"]
    BY <1>2, <1>4
  <2>2. CASE wentBack["energy"]
    <3>1. counter["energy"] <= grown["energy"]
      BY <1>1, <2>2 DEF MetersInv, DifferenceIsGrowth
    <3> QED
      BY <1>2, <2>1, <3>1
  <2>3. CASE ~wentBack["energy"]
    <3>1. ~failed["energy"] => counter["energy"] - base = grown["energy"]
      BY <1>1, <1>4, <2>3, DifferencesAreExact
    <3> QED
      BY <1>2, <2>1, <3>1 DEF Sound
  <2> QED
    BY <2>2, <2>3
<1> QED
  BY <1>3, <1>4

(* What calculateCPUUsage shows is what the total grew by, and, unless the *)
(* idle time went back, a share of it (cpu.go:12-81).                      *)
LEMMA CPUFits ==
  ASSUME MetersInv, ReadCPU
  PROVE  /\ shown' \in [Meters -> Int]
         /\ \A m \in Simple : shown'[m] = shown[m]
         /\ shown'["total"] <= grown["total"]
         /\ ~wentBack["idle"] => shown'["idle"] \in 0..shown'["total"]
<1> DEFINE total == Minus(counter["total"], lastRead["total"])
           idle  == Minus(counter["idle"], lastRead["idle"])
           ready == lastRead["total"] # Unread /\ total # 0
           t == IF ready THEN total ELSE 0
           i == IF ready THEN total - idle ELSE 0
<1>1. /\ "idle" \in Meters /\ "total" \in Meters /\ "idle" # "total"
      /\ \A m \in Simple : m \in Meters /\ m # "idle" /\ m # "total"
  BY DEF Meters, Simple
<1>2. /\ 2^Width \in Nat \ {0} /\ shown \in [Meters -> Int]
      /\ grown["idle"] \in Nat /\ grown["total"] \in Nat /\ grown["idle"] <= grown["total"]
      /\ ~wentBack["total"] /\ ~failed["idle"] /\ ~failed["total"]
      /\ lastRead["idle"] = Unread <=> lastRead["total"] = Unread
  BY <1>1, MetersAssumption DEF MetersInv, MetersTypeOK, DifferenceIsGrowth, IdleIsPartOfTotal
<1>3. total \in Int /\ idle \in Int
  <2>1. \A m \in Meters : counter[m] \in Int /\ lastRead[m] \in Int
    BY DEF MetersInv, MetersTypeOK, Counters, Unread
  <2> QED
    BY <1>1, <1>2, <2>1, MinusIsInt
<1>4. ready => total = grown["total"] /\ (~wentBack["idle"] => idle = grown["idle"])
  BY <1>1, <1>2, DifferencesAreExact
<1>5. shown' = [shown EXCEPT !["total"] = t, !["idle"] = i]
  BY DEF ReadCPU
<1> HIDE DEF total, idle, ready
<1>6. /\ t \in Int /\ i \in Int /\ t <= grown["total"]
      /\ ~wentBack["idle"] => i \in 0..t
  BY <1>2, <1>3, <1>4
<1> HIDE DEF t, i
<1> QED
  BY <1>1, <1>2, <1>5, <1>6

(* A value of the collector is published, and its reading saved or not.    *)
LEMMA PublishKeeps ==
  ASSUME MetersInv, NEW k \in Simple, NEW d \in Int, NEW saved \in BOOLEAN, NEW f \in BOOLEAN,
         Sound(k, f) => d \in 0..grown[k],
         Publish(k, d, saved, f), IF saved THEN Save(k, f) ELSE UNCHANGED lastRead
  PROVE  MetersInv'
<1>0. /\ 2^Width \in Nat \ {0} /\ MaxStep \in Nat /\ k \in Meters /\ k # "idle" /\ k # "total"
      /\ counter \in [Meters -> Counters] /\ shown \in [Meters -> Int] /\ smooth \in [Meters -> Int]
      /\ lastRead \in [Meters -> Counters \cup {Unread}] /\ watched \in Simple \cup {"cpu"}
      /\ grown \in [Meters -> Nat] /\ wentBack \in [Meters -> BOOLEAN]
      /\ failed \in [Meters -> BOOLEAN] /\ spoilt \in [Meters -> BOOLEAN]
      /\ UNCHANGED <<watched, counter>>
      /\ "idle" \in Meters /\ "total" \in Meters
  BY MetersAssumption DEF MetersInv, MetersTypeOK, Publish, Meters, Simple
<1>1. PICK x \in Between(smooth[k], d) : smooth' = [smooth EXCEPT ![k] = x]
  BY DEF Publish
<1>2. x \in Int /\ \A n \in Nat : smooth[k] \in 0..n /\ d \in 0..n => x \in 0..n
  <2>1. smooth[k] \in Int
    BY <1>0
  <2> QED
    BY <1>1, <2>1, BetweenStays
<1>3. /\ shown' = [shown EXCEPT ![k] = d]
      /\ spoilt' = [spoilt EXCEPT ![k] = spoilt[k] \/ ~Sound(k, f)]
  BY DEF Publish
<1>4. AverageIsInRange'
  <2>1. /\ smooth'[k] = x /\ (spoilt'[k] <=> spoilt[k] \/ ~Sound(k, f))
        /\ \A m \in Meters \ {k} : smooth'[m] = smooth[m] /\ spoilt'[m] = spoilt[m]
    BY <1>0, <1>1, <1>3
  <2>2. grown[k] <= MaxStep /\ grown[k] \in Nat
    BY <1>0 DEF MetersInv
  <2>3. ASSUME ~spoilt'[k] PROVE smooth'[k] \in 0..MaxStep
    <3>1. smooth[k] \in 0..MaxStep /\ Sound(k, f)
      BY <1>0, <2>1, <2>3 DEF MetersInv, AverageIsInRange
    <3>2. d \in 0..MaxStep
      BY <1>0, <2>2, <3>1
    <3> QED
      BY <1>0, <1>2, <2>1, <3>1, <3>2
  <2> QED
    BY <2>1, <2>3 DEF MetersInv, AverageIsInRange
<1>5. /\ shown' \in [Meters -> Int] /\ smooth' \in [Meters -> Int]
      /\ spoilt' \in [Meters -> BOOLEAN]
  <2>1. (spoilt[k] \/ ~Sound(k, f)) \in BOOLEAN
    OBVIOUS
  <2> QED
    BY <1>0, <1>1, <1>2, <1>3, <2>1
<1>6. CASE saved
  <2>1. /\ lastRead' = [lastRead EXCEPT ![k] = ReadOut(k, f)]
        /\ grown' = [grown EXCEPT ![k] = 0]
        /\ wentBack' = [wentBack EXCEPT ![k] = FALSE]
        /\ failed' = [failed EXCEPT ![k] = f]
    BY <1>6 DEF Publish, Save
  <2>2. ReadOut(k, f) \in Counters /\ (~f => ReadOut(k, f) = counter[k])
    BY <1>0 DEF ReadOut, Counters
  <2>3. /\ lastRead'[k] = ReadOut(k, f) /\ grown'[k] = 0 /\ ~wentBack'[k] /\ (failed'[k] <=> f)
        /\ \A m \in Meters \ {k} : /\ lastRead'[m] = lastRead[m] /\ grown'[m] = grown[m]
                                   /\ wentBack'[m] = wentBack[m] /\ failed'[m] = failed[m]
    BY <1>0, <2>1
  <2>4. MetersTypeOK'
    BY <1>0, <1>5, <2>1, <2>2 DEF MetersTypeOK
  <2>5. \A m \in Meters : counter[m] \in Nat /\ counter'[m] \in Nat /\ grown'[m] <= MaxStep
    BY <1>0, <2>3 DEF MetersInv
  <2>6. DifferenceIsGrowth'
    <3>1. \A m \in Meters : lastRead'[m] # Unread /\ ~wentBack'[m] /\ ~failed'[m] =>
             counter[m] - lastRead'[m] = grown'[m]
      BY <2>2, <2>3, <2>5 DEF MetersInv, DifferenceIsGrowth
    <3>2. \A m \in Simple : wentBack'[m] => counter[m] <= grown'[m]
      BY <2>3 DEF MetersInv, DifferenceIsGrowth, Meters
    <3>3. ~wentBack'["total"] /\ ~failed'["idle"] /\ ~failed'["total"]
      BY <1>0, <2>3 DEF MetersInv, DifferenceIsGrowth
    <3> QED
      BY <1>0, <3>1, <3>2, <3>3 DEF DifferenceIsGrowth
  <2>7. IdleIsPartOfTotal'
    BY <1>0, <2>3 DEF MetersInv, IdleIsPartOfTotal
  <2> QED
    BY <1>4, <2>4, <2>5, <2>6, <2>7 DEF MetersInv
<1>7. CASE ~saved
  <2>1. UNCHANGED <<lastRead, grown, wentBack, failed>>
    BY <1>7 DEF Publish
  <2> QED
    BY <1>0, <1>4, <1>5, <2>1 DEF MetersInv, MetersTypeOK, DifferenceIsGrowth, IdleIsPartOfTotal
<1> QED
  BY <1>6, <1>7

(* A line of /proc/stat is shown and saved.                                *)
LEMMA ReadCPUKeeps ==
  ASSUME MetersInv, ReadCPU
  PROVE  MetersInv'
<1>0. /\ MaxStep \in Nat
      /\ counter \in [Meters -> Counters] /\ smooth \in [Meters -> Int]
      /\ lastRead \in [Meters -> Counters \cup {Unread}] /\ watched \in Simple \cup {"cpu"}
      /\ grown \in [Meters -> Nat] /\ wentBack \in [Meters -> BOOLEAN]
      /\ failed \in [Meters -> BOOLEAN] /\ spoilt \in [Meters -> BOOLEAN]
      /\ UNCHANGED <<watched, counter, failed>>
      /\ "idle" \in Meters /\ "total" \in Meters /\ "idle" # "total"
      /\ \A m \in Simple : m \in Meters /\ m # "idle" /\ m # "total"
      /\ \A m \in Meters : counter[m] \in Nat /\ grown[m] <= MaxStep
  BY MetersAssumption DEF MetersInv, MetersTypeOK, ReadCPU, Meters, Simple
<1>1. /\ lastRead' = [lastRead EXCEPT !["idle"] = counter["idle"], !["total"] = counter["total"]]
      /\ grown' = [grown EXCEPT !["total"] = 0, !["idle"] = 0]
      /\ wentBack' = [wentBack EXCEPT !["idle"] = FALSE]
      /\ spoilt' = [spoilt EXCEPT !["idle"] = spoilt["idle"] \/ wentBack["idle"]]
  BY DEF ReadCPU
<1>2. /\ \A m \in {"idle", "total"} : lastRead'[m] = counter[m] /\ grown'[m] = 0
      /\ ~wentBack'["idle"] /\ wentBack'["total"] = wentBack["total"]
      /\ \A m \in Simple : /\ lastRead'[m] = lastRead[m] /\ grown'[m] = grown[m]
                           /\ wentBack'[m] = wentBack[m]
  BY <1>0, <1>1
<1>3. PICK x \in Between(smooth["idle"], shown'["idle"]) : smooth' = [smooth EXCEPT !["idle"] = x]
  <2>1. shown'["idle"] = IF lastRead["total"] # Unread /\ Minus(counter["total"], lastRead["total"]) # 0
                         THEN Minus(counter["total"], lastRead["total"])
                                - Minus(counter["idle"], lastRead["idle"])
                         ELSE 0
    <3>1. shown \in [Meters -> Int]
      BY DEF MetersInv, MetersTypeOK
    <3> QED
      BY <1>0, <3>1 DEF ReadCPU
  <2> QED
    BY <2>1 DEF ReadCPU
<1>4. shown' \in [Meters -> Int] /\ shown'["idle"] \in Int /\ smooth["idle"] \in Int
  BY <1>0, CPUFits
<1>5. x \in Int /\ \A n \in Nat : smooth["idle"] \in 0..n /\ shown'["idle"] \in 0..n => x \in 0..n
  BY <1>3, <1>4, BetweenStays
<1>6. AverageIsInRange'
  <2>1. /\ smooth'["idle"] = x /\ (spoilt'["idle"] <=> spoilt["idle"] \/ wentBack["idle"])
        /\ \A m \in Meters \ {"idle"} : smooth'[m] = smooth[m] /\ spoilt'[m] = spoilt[m]
    BY <1>0, <1>1, <1>3
  <2>2. ASSUME ~spoilt'["idle"] PROVE smooth'["idle"] \in 0..MaxStep
    <3>1. shown'["idle"] \in 0..shown'["total"] /\ shown'["total"] <= grown["total"]
      BY <2>1, <2>2, CPUFits
    <3>2. shown'["idle"] \in 0..MaxStep
      BY <1>0, <1>4, <3>1
    <3>3. smooth["idle"] \in 0..MaxStep
      BY <1>0, <2>1, <2>2 DEF MetersInv, AverageIsInRange
    <3> QED
      BY <1>0, <1>5, <2>1, <3>2, <3>3
  <2> QED
    BY <2>1, <2>2 DEF MetersInv, AverageIsInRange
<1>7. MetersTypeOK'
  <2>1. (spoilt["idle"] \/ wentBack["idle"]) \in BOOLEAN
    OBVIOUS
  <2>2. spoilt' \in [Meters -> BOOLEAN] /\ wentBack' \in [Meters -> BOOLEAN]
    BY <1>0, <1>1, <2>1
  <2>3. lastRead' \in [Meters -> Counters \cup {Unread}] /\ grown' \in [Meters -> Nat]
    BY <1>0, <1>1
  <2>4. smooth' \in [Meters -> Int]
    BY <1>0, <1>3, <1>5
  <2> QED
    BY <1>0, <1>4, <2>2, <2>3, <2>4 DEF MetersTypeOK
<1>8. DifferenceIsGrowth'
  <2>1. \A m \in Meters : m \in Simple \/ m = "idle" \/ m = "total"
    BY DEF Meters
  <2>2. \A m \in Meters : lastRead'[m] # Unread /\ ~wentBack'[m] /\ ~failed[m] =>
           counter[m] - lastRead'[m] = grown'[m]
    BY <1>0, <1>2, <2>1 DEF MetersInv, DifferenceIsGrowth
  <2>3. \A m \in Simple : wentBack'[m] => counter[m] <= grown'[m]
    BY <1>0, <1>2 DEF MetersInv, DifferenceIsGrowth
  <2>4. ~wentBack'["total"] /\ ~failed["idle"] /\ ~failed["total"]
    BY <1>2 DEF MetersInv, DifferenceIsGrowth
  <2> QED
    BY <1>0, <2>2, <2>3, <2>4 DEF DifferenceIsGrowth
<1>9. IdleIsPartOfTotal' /\ \A m \in Meters : counter'[m] \in Nat /\ grown'[m] <= MaxStep
  <2>1. \A m \in Meters : m \in Simple \/ m = "idle" \/ m = "total"
    BY DEF Meters
  <2>2. counter["idle"] # Unread /\ counter["total"] # Unread
    BY <1>0 DEF Unread
  <2>3. IdleIsPartOfTotal'
    BY <1>0, <1>2, <2>2 DEF MetersInv, IdleIsPartOfTotal
  <2>4. \A m \in Meters : counter'[m] \in Nat /\ grown'[m] <= MaxStep
    BY <1>0, <1>2, <2>1
  <2> QED
    BY <2>3, <2>4
<1> QED
  BY <1>6, <1>7, <1>8, <1>9 DEF MetersInv

(* Without /proc/stat a share of nothing is shown.                         *)
LEMMA ReadNoCPUKeeps ==
  ASSUME MetersInv, ReadNoCPU
  PROVE  MetersInv'
<1>0. /\ MaxStep \in Nat /\ shown \in [Meters -> Int] /\ smooth \in [Meters -> Int]
      /\ "idle" \in Meters /\ smooth["idle"] \in Int
      /\ UNCHANGED <<watched, counter, lastRead, grown, wentBack, failed, spoilt>>
      /\ shown' = [shown EXCEPT !["total"] = 0, !["idle"] = 0]
  BY MetersAssumption DEF MetersInv, MetersTypeOK, ReadNoCPU, Meters
<1>1. PICK x \in Between(smooth["idle"], 0) : smooth' = [smooth EXCEPT !["idle"] = x]
  BY DEF ReadNoCPU
<1>2. x \in Int /\ \A n \in Nat : smooth["idle"] \in 0..n => x \in 0..n
  BY <1>0, <1>1, BetweenStays
<1>3. shown' \in [Meters -> Int] /\ smooth' \in [Meters -> Int]
  BY <1>0, <1>1, <1>2
<1>4. AverageIsInRange'
  <2>1. smooth'["idle"] = x /\ \A m \in Meters \ {"idle"} : smooth'[m] = smooth[m]
    BY <1>0, <1>1
  <2> QED
    BY <1>0, <1>2, <2>1 DEF MetersInv, AverageIsInRange
<1> QED
  BY <1>0, <1>3, <1>4 DEF MetersInv, MetersTypeOK, DifferenceIsGrowth, IdleIsPartOfTotal

(* Counting, resetting and sampling keep difference and growth together.   *)
LEMMA MetersKeep == MetersInv /\ [MetersNext]_metersVars => MetersInv'
<1> SUFFICES ASSUME MetersInv, [MetersNext]_metersVars PROVE MetersInv'
  OBVIOUS
<1>1. ASSUME NEW k \in Meters, Grow(k) \/ GoBack(k) \/ \E b \in BOOLEAN : PassTime(b)
      PROVE  MetersInv'
  BY <1>1, KernelKeeps
<1>2. ASSUME NEW e \in BOOLEAN, NEW f \in BOOLEAN, ReadRate(watched, e, f) PROVE MetersInv'
  <2> DEFINE d == IF lastRead[watched] = Unread \/ ~e THEN 0
                  ELSE Minus(ReadOut(watched, f), lastRead[watched])
  <2>1. watched \in Simple /\ watched # "energy" /\ Save(watched, f) /\ Publish(watched, d, TRUE, f)
    BY <1>2 DEF ReadRate, Simple
  <2>2. d \in Int /\ (Sound(watched, f) => d \in 0..grown[watched])
    BY <2>1, RateFits
  <2> HIDE DEF d
  <2> QED
    BY <2>1, <2>2, PublishKeeps
<1>3. ASSUME NEW e \in BOOLEAN, NEW f \in BOOLEAN, ReadEnergy(e, f) PROVE MetersInv'
  <2> DEFINE base == lastRead["energy"]
             read == ReadOut("energy", f)
             saved == (base = Unread \/ read < base) \/ e
  <2>1. PICK d \in {0, IF base = Unread \/ read < base \/ ~e THEN 0 ELSE read - base} :
          Publish("energy", d, saved, f)
    BY <1>3 DEF ReadEnergy
  <2>2. IF saved THEN Save("energy", f) ELSE UNCHANGED lastRead
    BY <1>3 DEF ReadEnergy
  <2>3. saved \in BOOLEAN /\ "energy" \in Simple
    BY DEF Simple
  <2>4. d \in Int /\ (Sound("energy", f) => d \in 0..grown["energy"])
    <3> HIDE DEF base, read
    <3>1. base = lastRead["energy"] /\ read = ReadOut("energy", f)
      BY DEF base, read
    <3> QED
      BY <2>1, <3>1, EnergyFits
  <2> HIDE DEF saved
  <2> QED
    BY <2>1, <2>2, <2>3, <2>4, PublishKeeps
<1>4. CASE UNCHANGED metersVars
  BY <1>4 DEF metersVars, MetersInv, MetersTypeOK, DifferenceIsGrowth, AverageIsInRange,
     IdleIsPartOfTotal
<1>5. "idle" \in Meters
  BY DEF Meters
<1> QED
  BY <1>1, <1>2, <1>3, <1>4, <1>5, ReadCPUKeeps, ReadNoCPUKeeps DEF MetersNext

(* For counters of any width: a published value is off only right after    *)
(* its counter went back or a reading failed, the share of busy CPU time is*)
(* a share, the energy meter is right even after a wrap, and an average is *)
(* in range as long as no value that went into it was off (disk.go:10-37,  *)
(* collector.go:364-399, cpu.go:12-109, ema.go:24-42).                     *)
THEOREM SpikesAreExplained == MetersSpec => SpikesNeedACause
<1> DEFINE Fits(k) ==
      /\ shown'[k] # shown[k] /\ Sound(k, failed'[k]) =>
            CASE k \in Simple -> shown'[k] \in 0..grown[k]
              [] k = "idle" -> shown'["idle"] \in 0..shown'["total"]
              [] k = "total" -> shown'["total"] <= grown["total"]
      /\ ~spoilt'[k] => smooth'[k] \in 0..MaxStep
<1>1. ASSUME MetersInv, MetersNext, NEW k \in Meters PROVE Fits(k)
  <2>1. ~spoilt'[k] => smooth'[k] \in 0..MaxStep
    <3>1. MetersInv'
      BY <1>1, MetersKeep
    <3> QED
      BY <1>1, <3>1 DEF MetersInv, AverageIsInRange
  <2>2. /\ shown \in [Meters -> Int] /\ failed \in [Meters -> BOOLEAN]
        /\ \A m \in Simple : m \in Meters /\ m # "idle" /\ m # "total"
        /\ k \in Simple \/ k = "idle" \/ k = "total"
        /\ "idle" # "total" /\ "idle" \in Meters /\ "total" \in Meters
        /\ grown["total"] \in Nat
    BY <1>1 DEF MetersInv, MetersTypeOK, Meters, Simple
  <2>3. ASSUME NEW e \in BOOLEAN, NEW f \in BOOLEAN, ReadRate(watched, e, f) PROVE Fits(k)
    <3> DEFINE d == IF lastRead[watched] = Unread \/ ~e THEN 0
                    ELSE Minus(ReadOut(watched, f), lastRead[watched])
    <3>1. watched \in Simple /\ watched # "energy" /\ Publish(watched, d, TRUE, f)
      BY <2>3 DEF ReadRate, Simple
    <3>2. d \in Int /\ (Sound(watched, f) => d \in 0..grown[watched])
      BY <1>1, <3>1, RateFits
    <3> HIDE DEF d
    <3>3. shown' = [shown EXCEPT ![watched] = d] /\ failed' = [failed EXCEPT ![watched] = f]
      BY <3>1 DEF Publish
    <3>4. CASE k = watched
      <4>1. shown'[k] = d /\ failed'[k] = f /\ k \in Simple
        BY <2>2, <3>1, <3>3, <3>4
      <4>2. Sound(k, failed'[k]) => shown'[k] \in 0..grown[k]
        BY <3>2, <3>4, <4>1
      <4> QED
        BY <2>1, <2>2, <4>1, <4>2
    <3>5. CASE k # watched
      BY <1>1, <2>1, <2>2, <3>3, <3>5
    <3> QED
      BY <3>4, <3>5
  <2>4. ASSUME NEW e \in BOOLEAN, NEW f \in BOOLEAN, ReadEnergy(e, f) PROVE Fits(k)
    <3> DEFINE base == lastRead["energy"]
               read == ReadOut("energy", f)
    <3>1. PICK d \in {0, IF base = Unread \/ read < base \/ ~e THEN 0 ELSE read - base} :
            shown' = [shown EXCEPT !["energy"] = d]
      BY <2>4 DEF ReadEnergy, Publish
    <3>2. base = lastRead["energy"] /\ read = ReadOut("energy", f)
      OBVIOUS
    <3> HIDE DEF base, read
    <3>3. Sound("energy", f) => d \in 0..grown["energy"]
      BY <1>1, <3>1, <3>2, EnergyFits
    <3>4. CASE k = "energy"
      <4>1. shown'[k] = d /\ k \in Simple
        BY <1>1, <2>2, <3>1, <3>4 DEF Simple
      <4>2. Sound(k, failed'[k]) => shown'[k] \in 0..grown[k]
        BY <3>3, <3>4, <4>1 DEF Sound
      <4> QED
        BY <2>1, <2>2, <4>1, <4>2
    <3>5. CASE k # "energy"
      BY <1>1, <2>1, <2>2, <3>1, <3>5
    <3> QED
      BY <3>4, <3>5
  <2>5. CASE ReadCPU
    <3>1. /\ \A m \in Simple : shown'[m] = shown[m]
          /\ shown'["total"] <= grown["total"]
          /\ ~wentBack["idle"] => shown'["idle"] \in 0..shown'["total"]
      BY <1>1, <2>5, CPUFits
    <3>2. CASE k \in Simple
      BY <2>1, <3>1, <3>2
    <3>3. CASE k = "idle"
      <4>1. Sound(k, failed'[k]) => ~wentBack["idle"]
        BY <3>3 DEF Sound
      <4> QED
        BY <2>1, <2>2, <3>1, <3>3, <4>1
    <3>4. CASE k = "total"
      BY <2>1, <2>2, <3>1, <3>4
    <3> QED
      BY <2>2, <3>2, <3>3, <3>4
  <2>6. CASE ReadNoCPU
    <3>1. shown' = [shown EXCEPT !["total"] = 0, !["idle"] = 0]
      BY <2>6 DEF ReadNoCPU
    <3>2. /\ shown'["total"] = 0 /\ shown'["idle"] = 0
          /\ \A m \in Simple : shown'[m] = shown[m]
      BY <2>2, <3>1
    <3>3. CASE k \in Simple
      BY <2>1, <3>2, <3>3
    <3>4. CASE k = "idle"
      BY <2>1, <2>2, <3>2, <3>4
    <3>5. CASE k = "total"
      BY <2>1, <2>2, <3>2, <3>5
    <3> QED
      BY <2>2, <3>3, <3>4, <3>5
  <2>7. CASE UNCHANGED shown
    BY <2>1, <2>7
  <2> QED
    BY <1>1, <2>3, <2>4, <2>5, <2>6, <2>7 DEF MetersNext, Grow, GoBack, PassTime
<1>2. MetersInv /\ [MetersNext]_metersVars => [\A k \in Meters : Fits(k)]_metersVars
  BY <1>1
<1> QED
  BY MetersStart, MetersKeep, <1>2, PTL DEF MetersSpec, SpikesNeedACause

=============================================================================
