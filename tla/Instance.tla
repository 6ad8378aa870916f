------------------------------ MODULE Instance ------------------------------
(***************************************************************************)
(* A host's HorizonX instance and the commands that install and upgrade it *)
(* (internal/app): the tree of compose files and the .env whose secrets    *)
(* postgres takes when its volume is created, the server container, the    *)
(* CLI binary that replaces itself, and the agent's unit.                  *)
(*                                                                         *)
(* A command is a sequence of steps and may be killed between any two of   *)
(* them.  One operator acts at a time.  The dashboard's image is loaded on *)
(* best effort and no step depends on it, so it is left out.  A secret     *)
(* stands for all the passwords of one .env; compose expands what follows a*)
(* $ in the admin's (env_file), whose alphabet has it.                     *)
(***************************************************************************)
EXTENDS Integers

CONSTANTS
    MaxSecrets,     \* bound: the secrets ever generated
    MaxRelease,     \* bound: the releases ever published
    Dollars         \* the secrets whose admin password compose expands

ASSUME InstanceAssumption ==
    MaxSecrets \in Nat /\ MaxRelease \in Nat \ {0} /\ Dollars \subseteq Nat

VARIABLES
    release,        \* the latest published release
    secrets,        \* how many secrets were generated
    dotenv,         \* the secrets in .env: None, or Torn for an empty file
    tree,           \* whether the compose files are there
    volume,         \* the secret the postgres volume was created with
    admin,          \* the admin's password: None, a secret's, Expanded, or Own
    layer,          \* the release in Docker's build cache
    server,         \* the server container
    exe, backup,    \* the releases of /usr/local/bin/horizonx and of its .old
    agent,          \* the release the agent's process runs
    cmd,            \* the command that runs
    credsShown      \* the passwords printed to the operator

instanceVars == <<release, secrets, dotenv, tree, volume, admin, layer, server,
                  exe, backup, agent, cmd, credsShown>>
boxVars == <<release, secrets, admin, agent, credsShown>>
filesVars == <<dotenv, tree>>
dockerVars == <<volume, layer, server>>
binVars == <<exe, backup>>

None == 0
Torn == -1
Own == -1
Expanded == -2
Secrets == 1 .. MaxSecrets
Releases == 1 .. MaxRelease

NoServer == [release |-> None, secret |-> None, up |-> FALSE]
NoCommand == [op |-> "none", pc |-> "done", first |-> FALSE, reset |-> FALSE,
              blind |-> FALSE, release |-> None, fetched |-> None]

Steps == {"done", "generate", "guard", "stores", "build", "poll", "show",
          "download", "backup", "swap", "exec", "detect", "agent"}

\* A host on which the CLI was just downloaded.
InstanceInit ==
    /\ release = 1 /\ secrets = 0
    /\ dotenv = None /\ tree = FALSE
    /\ volume = None /\ admin = None
    /\ layer = None /\ server = NoServer
    /\ exe = 1 /\ backup = None /\ agent = None
    /\ cmd = NoCommand
    /\ credsShown = {}

CmdDone == cmd.pc = "done"
CmdAt(op, pc) == cmd.op = op /\ cmd.pc = pc
GoOn(pc) == cmd' = [cmd EXCEPT !.pc = pc]
End == cmd' = NoCommand

----------------------------------------------------------------------------
(* The tree, which install and upgrade generate alike.                     *)

\* newInstanceEnv draws random secrets, which no .env has had before.
NewEnv == secrets + 1

\* An .env with content is kept: the volumes were created with its secrets.
EnvToWrite == IF dotenv \in Secrets THEN dotenv ELSE NewEnv

Generate ==
    /\ EnvToWrite \in Secrets
    /\ dotenv' = EnvToWrite
    /\ secrets' = IF EnvToWrite > secrets THEN EnvToWrite ELSE secrets
    /\ tree' = TRUE

\* os.WriteFile truncates before it writes, and the files go in no fixed order.
TearEnv ==
    /\ cmd.pc = "generate"
    /\ dotenv' = Torn
    /\ tree' \in {tree, TRUE}
    /\ End
    /\ UNCHANGED <<boxVars, dockerVars, binVars>>

----------------------------------------------------------------------------
(* horizonx install server                                                 *)

InstallBegins ==
    /\ CmdDone /\ exe # None
    /\ \E reset \in BOOLEAN :
           cmd' = [NoCommand EXCEPT !.op = "install", !.pc = "generate",
                                    !.first = (dotenv = None), !.reset = reset,
                                    !.release = exe]
    /\ UNCHANGED <<boxVars, filesVars, dockerVars, binVars>>

InstallGenerates ==
    /\ CmdAt("install", "generate")
    /\ Generate
    /\ \/ GoOn("guard")
       \/ End               \* --generate-only
    /\ UNCHANGED <<release, admin, agent, credsShown, dockerVars, binVars>>

GuardAsksTheDisk ==
    /\ cmd.pc = "guard"
    /\ ~cmd.reset
    /\ IF dotenv = None /\ volume # None THEN End ELSE GoOn("stores")
    /\ UNCHANGED <<boxVars, filesVars, dockerVars, binVars>>

\* The stale-volume guard.  hasInstanceVolumes says no when docker cannot list
\* the volumes (blind).
Guard ==
    /\ cmd.pc = "guard"
    /\ ~cmd.reset
    /\ IF cmd.first /\ volume # None
       THEN \/ End
            \/ cmd' = [cmd EXCEPT !.pc = "stores", !.blind = TRUE]
       ELSE GoOn("stores")
    /\ UNCHANGED <<boxVars, filesVars, dockerVars, binVars>>

\* docker compose down -v, which may fail.
ResetVolumes ==
    /\ cmd.pc = "guard"
    /\ cmd.reset
    /\ \/ /\ volume' = None /\ admin' = None /\ server' = NoServer
          /\ GoOn("stores")
          /\ UNCHANGED layer
       \/ End /\ UNCHANGED <<admin, dockerVars>>
    /\ UNCHANGED <<release, secrets, agent, credsShown, filesVars, binVars>>

----------------------------------------------------------------------------
(* applyInstance.  A failing step ends an installation and only warns in   *)
(* an upgrade, which goes on to the agent.                                 *)

ApplyFails == IF cmd.op = "install" THEN End ELSE GoOn("agent")

\* Postgres sets its password when it creates the volume and never again.
UpStores ==
    /\ cmd.pc = "stores"
    /\ volume' = IF volume = None THEN dotenv ELSE volume
    /\ GoOn("build")
    /\ UNCHANGED <<boxVars, filesVars, layer, server, binVars>>

\* HX_VERSION is declared before FROM and so unset in the RUN that downloads the
\* latest release: the command never changes, and a cached layer is kept.
BuiltRelease == IF layer = None THEN release ELSE layer

\* The image is built and the container created anew, whatever was there.
BuildServer ==
    /\ cmd.pc = "build"
    /\ layer' = BuiltRelease
    /\ server' = [release |-> BuiltRelease, secret |-> dotenv, up |-> FALSE]
    /\ GoOn("poll")
    /\ UNCHANGED <<boxVars, filesVars, volume, binVars>>

StepFails ==
    /\ cmd.pc \in {"stores", "build", "poll"}
    /\ ApplyFails
    /\ UNCHANGED <<boxVars, filesVars, dockerVars, binVars>>

PollHealth ==
    /\ cmd.pc = "poll"
    /\ server.up
    /\ GoOn(IF cmd.op = "install" THEN "show" ELSE "agent")
    /\ UNCHANGED <<boxVars, filesVars, dockerVars, binVars>>

ShowOnEveryRun ==
    /\ cmd.pc = "show"
    /\ credsShown' = credsShown \cup {dotenv}
    /\ End
    /\ UNCHANGED <<release, secrets, admin, agent, filesVars, dockerVars, binVars>>

\* The credentials in .env are printed by a first installation only.
ShowCredentials ==
    /\ cmd.pc = "show"
    /\ credsShown' = IF cmd.first THEN credsShown \cup {dotenv} ELSE credsShown
    /\ End
    /\ UNCHANGED <<release, secrets, admin, agent, filesVars, dockerVars, binVars>>

\* What the container gets of a secret: its .env is written unquoted and read
\* by compose, which expands what follows a $.
EnvFile(s) == IF s \in Dollars THEN Expanded ELSE s

\* The admin is seeded with the container's password once and never touched again.
SeedAdmin == admin' = IF admin = None THEN EnvFile(server.secret) ELSE admin

\* The container's server: it migrates and seeds the admin, or exits and is
\* restarted, when it cannot authenticate.
BootServer ==
    /\ server.release # None /\ ~server.up
    /\ server.secret = volume
    /\ server' = [server EXCEPT !.up = TRUE]
    /\ SeedAdmin
    /\ UNCHANGED <<release, secrets, agent, credsShown, filesVars, volume, layer, binVars, cmd>>

----------------------------------------------------------------------------
(* horizonx upgrade                                                        *)

\* A release's tag loses its "v" and its version keeps it, so they always differ
\* and every upgrade downloads.
UpgradeBegins ==
    /\ CmdDone /\ exe # None
    /\ cmd' = [NoCommand EXCEPT !.op = "upgrade", !.pc = "download", !.release = exe]
    /\ UNCHANGED <<boxVars, filesVars, dockerVars, binVars>>

Download ==
    /\ cmd.pc = "download"
    /\ \/ cmd' = [cmd EXCEPT !.pc = "backup", !.fetched = release]
       \/ End
    /\ UNCHANGED <<boxVars, filesVars, dockerVars, binVars>>

RemoveThenInstall ==
    /\ cmd.pc = "backup"
    /\ backup' = None
    /\ exe' = None
    /\ GoOn("swap")
    /\ UNCHANGED <<boxVars, filesVars, dockerVars>>

\* replaceBinary: the old backup is removed and the binary becomes the backup.
BackUp ==
    /\ cmd.pc = "backup"
    /\ backup' = exe
    /\ exe' = None
    /\ GoOn("swap")
    /\ UNCHANGED <<boxVars, filesVars, dockerVars>>

\* The second rename fails across file systems, and is rolled back.
Swap ==
    /\ cmd.pc = "swap"
    /\ \/ exe' = cmd.fetched /\ backup' = None /\ GoOn("exec")
       \/ exe' = backup /\ backup' = None /\ End
    /\ UNCHANGED <<boxVars, filesVars, dockerVars>>

Reexec ==
    /\ cmd.pc = "exec"
    /\ cmd' = [cmd EXCEPT !.pc = "detect", !.release = exe]
    /\ UNCHANGED <<boxVars, filesVars, dockerVars, binVars>>

InstanceInstalled == tree /\ dotenv # None

Detect ==
    /\ cmd.pc = "detect"
    /\ GoOn(IF InstanceInstalled THEN "generate" ELSE "agent")
    /\ UNCHANGED <<boxVars, filesVars, dockerVars, binVars>>

UpgradeGenerates ==
    /\ CmdAt("upgrade", "generate")
    /\ \/ Generate /\ GoOn("stores")
       \/ GoOn("agent") /\ UNCHANGED <<secrets, filesVars>>
    /\ UNCHANGED <<release, admin, agent, credsShown, dockerVars, binVars>>

\* The restart is left to systemd-run or at; it may fail, and be lost silently.
RestartAgent ==
    /\ cmd.pc = "agent"
    /\ agent' \in {agent, IF agent = None THEN None ELSE exe}
    /\ End
    /\ UNCHANGED <<release, secrets, admin, credsShown, filesVars, dockerVars, binVars>>

----------------------------------------------------------------------------
(* horizonx install agent, and what happens to the host.                   *)

\* systemctl enable --now starts a stopped unit and leaves a running one alone.
InstallAgent ==
    /\ CmdDone /\ exe # None
    /\ agent' = IF agent = None THEN exe ELSE agent
    /\ UNCHANGED <<release, secrets, admin, credsShown, filesVars, dockerVars, binVars, cmd>>

\* The command is killed.
Interrupt ==
    /\ ~CmdDone
    /\ End
    /\ UNCHANGED <<boxVars, filesVars, dockerVars, binVars>>

NewRelease ==
    /\ release < MaxRelease
    /\ release' = release + 1
    /\ UNCHANGED <<secrets, admin, agent, credsShown, filesVars, dockerVars, binVars, cmd>>

\* rm -rf /opt/horizonx, which removes neither volumes nor containers.
RemoveTree ==
    /\ CmdDone
    /\ dotenv' = None
    /\ tree' = FALSE
    /\ UNCHANGED <<boxVars, dockerVars, binVars, cmd>>

PruneCache ==
    /\ CmdDone
    /\ layer' = None
    /\ UNCHANGED <<boxVars, filesVars, volume, server, binVars, cmd>>

\* The admin, who typed the password or read it, changes it in the dashboard.
ChangeAdmin ==
    /\ CmdDone /\ server.up
    /\ admin \in Secrets
    /\ admin' = Own
    /\ UNCHANGED <<release, secrets, agent, credsShown, filesVars, dockerVars, binVars, cmd>>

InstanceNext ==
    \/ InstallBegins \/ InstallGenerates \/ TearEnv \/ Guard \/ ResetVolumes
    \/ UpStores \/ BuildServer \/ StepFails \/ PollHealth \/ ShowCredentials
    \/ UpgradeBegins \/ Download \/ BackUp \/ Swap \/ Reexec \/ Detect
    \/ UpgradeGenerates \/ RestartAgent \/ InstallAgent \/ Interrupt
    \/ BootServer \/ NewRelease \/ RemoveTree \/ PruneCache \/ ChangeAdmin

InstanceSpec == InstanceInit /\ [][InstanceNext]_instanceVars

----------------------------------------------------------------------------
(* Every variable has its type.                                            *)
InstanceTypeOK ==
    /\ release \in Releases
    /\ secrets \in 0 .. MaxSecrets
    /\ dotenv \in Secrets \cup {None, Torn}
    /\ tree \in BOOLEAN
    /\ volume \in Secrets \cup {None}
    /\ admin \in Secrets \cup {None, Own, Expanded}
    /\ layer \in Releases \cup {None}
    /\ server \in [release : Releases \cup {None}, secret : Secrets \cup {None}, up : BOOLEAN]
    /\ {exe, backup, agent} \subseteq Releases \cup {None}
    /\ cmd \in [op : {"none", "install", "upgrade"}, pc : Steps, first : BOOLEAN,
                reset : BOOLEAN, blind : BOOLEAN, release : Releases \cup {None},
                fetched : Releases \cup {None}]
    /\ credsShown \subseteq Secrets

(* A first installation whose guard could see the volumes only brings up a *)
(* server that can log in to its stores: whatever was installed, removed,  *)
(* reset or interrupted before, the volume's password is the one in .env   *)
(* (install_server.go:132-136).                                            *)
FirstInstallReachesItsStores ==
    (/\ cmd.op = "install" /\ cmd.first /\ ~cmd.blind
     /\ cmd.pc \in {"build", "poll", "show"}) => volume = dotenv

(* The credentials an installation prints are the ones its server's admin  *)
(* was seeded from, however many installations, resets and password changes*)
(* came before (install_server.go:166-170).  They log in unless the        *)
(* password has a $ that compose expands: then the admin has another one,  *)
(* which nobody was shown (instance_env.go:77, instance.go:178).           *)
CredentialsAreFresh ==
    [][credsShown' # credsShown =>
          \E s \in credsShown' \ credsShown :
              admin = s \/ (s \in Dollars /\ admin = Expanded)]_instanceVars

(* An upgrade killed or failing anywhere leaves the CLI at its path or in  *)
(* its backup, and its component pass runs the code of the binary it just  *)
(* installed, never that of the process that installed it                  *)
(* (upgrade.go:128-133, 439-454).                                          *)
UpgradeKeepsItsBinary ==
    /\ exe # None \/ backup # None
    /\ (cmd.op = "upgrade" /\ cmd.pc \in {"detect", "generate", "stores", "build",
                                         "poll", "agent"}) => cmd.release = exe
=============================================================================
