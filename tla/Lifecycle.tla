----------------------------- MODULE Lifecycle -----------------------------
(***************************************************************************)
(* install.py as a sequence of runs on one SketchUp profile: what plan,    *)
(* _installation_state and verify_install decide from the files, the       *)
(* Python environments, the bootstrap record and the SketchUp that runs,   *)
(* and what each verb does about it.  SketchUp starts and stops while an   *)
(* installer waits for it.                                                 *)
(*                                                                         *)
(* The file operations of a transaction are InstallTransaction's and       *)
(* UninstallTransaction's; here a transaction is one step.  0 stands for   *)
(* what is absent; the content of an extension is known by its version: v   *)
(* as released, and -v altered, which still says that it is v.             *)
(***************************************************************************)
EXTENDS Integers

CONSTANTS
  Python,     \* the interpreters, each with its own launcher
  Ver,        \* versions of this package
  Dist, Bin,  \* identities of an installed distribution, contents of its launcher
  Verbs,      \* the verbs that are used, with --yes where it matters
  Edits,      \* the kinds of change made behind the installer's back
  MaxEdits,   \* bound on them
  MaxBootFailures, \* bound: starts of SketchUp in which the extension raises or
              \* the record of such a start cannot be cleared
  Supported   \* whether the matrix lists the year of this profile

Altered(v) == -v
Reported(v) == IF v < 0 THEN -v ELSE v

ASSUME ValueAssumption ==
  /\ Python \subseteq Nat \ {0} /\ Ver \subseteq Nat \ {0}
  /\ Dist \subseteq Nat \ {0} /\ Bin \subseteq Nat \ {0}
ASSUME VerbAssumption == Verbs \subseteq {"install", "upgrade", "uninstall", "status", "verify"}
ASSUME EditAssumption == Edits \subseteq {"package", "files", "receipt", "library"}
ASSUME BoundAssumption == MaxEdits \in Nat /\ MaxBootFailures \in Nat /\ Supported \in BOOLEAN

VARIABLES
  env,      \* per interpreter: what is installed in it
  prof,     \* the profile's files
  log,      \* whether the bootstrap log holds a record
  host,     \* the SketchUp that uses the profile
  run,      \* the installer under way
  exit,     \* the code of the last one, ExitOk while one is under way
  edits, failures

vars == <<env, prof, log, host, run, exit, edits, failures>>

Content == Ver \cup {0} \cup {-v : v \in Ver}

(* src: the bundled extension, sketchup_plugin, of which _source_digest is *)
(* taken; an editable checkout or a rebuilt wheel changes it and keeps the *)
(* version.                                                                *)
Environment ==
  {e \in [ver : Ver \cup {0}, src : Content, dist : Dist \cup {0}, bin : Bin \cup {0}] :
     Reported(e.src) = e.ver}
NoEnvironment == [ver |-> 0, src |-> 0, dist |-> 0, bin |-> 0]
Present(p) == env[p].ver # 0

(* src, python, dist and bin: the source digest and, as what was staged is *)
(* a copy, that of the extension; the interpreter, python_distribution and *)
(* sidecar manifest.  dist is 0 in one that install_extension wrote.       *)
Receipt ==
  {r \in [ver : Ver \cup {0}, src : Content, python : Python \cup {0},
          dist : Dist \cup {0}, bin : Bin \cup {0}] : Reported(r.src) = r.ver}
NoReceipt == [ver |-> 0, src |-> 0, python |-> 0, dist |-> 0, bin |-> 0]
Garbled == [NoReceipt EXCEPT !.ver = -1]

(* ext: the extension's files but server_path.txt, which names the         *)
(* launcher of the interpreter server.                                     *)
Profile == [ext : Content, server : Python \cup {0}, reg : Content,
            receipt : Receipt \cup {Garbled}]
EmptyProfile == [ext |-> 0, server |-> 0, reg |-> 0, receipt |-> NoReceipt]

(* ruby and sidecar: the versions SketchUp has loaded and launched.        *)
Host == [up : BOOLEAN, serving : BOOLEAN, ruby : Content, sidecar : Ver \cup {0}]
HostDown == [up |-> FALSE, serving |-> FALSE, ruby |-> 0, sidecar |-> 0]

ExitOk == 0
ExitPreflight == 10
ExitVerify == 40
ExitRequiresRestart == 50

(* installer: the interpreter that runs install.py; python: the one it is  *)
(* given.                                                                  *)
Idle == [pc |-> "idle", verb |-> "none", installer |-> 0, python |-> 0, txn |-> FALSE,
         prior |-> EmptyProfile]
Run == [pc : {"idle", "placed", "waiting"}, verb : Verbs \cup {"none"},
        installer : Python \cup {0}, python : Python \cup {0}, txn : BOOLEAN, prior : Profile]

Init ==
  /\ env \in [Python -> {[ver |-> v, src |-> v, dist |-> d, bin |-> b] :
                           v \in Ver, d \in Dist, b \in Bin} \cup {NoEnvironment}]
  /\ prof = EmptyProfile /\ log = FALSE /\ host = HostDown
  /\ run = Idle /\ exit = ExitOk
  /\ edits = 0 /\ failures = 0

-----------------------------------------------------------------------------
(* What the installer decides.  It runs in q, whose package gives it its   *)
(* version and the bundled extension, and is given the interpreter p.      *)

(* server_path.txt names a file, the receipt's launcher, with its bytes.   *)
ServerBound ==
  /\ prof.server # 0 /\ Present(prof.server)
  /\ prof.server = prof.receipt.python
  /\ env[prof.server].bin = prof.receipt.bin

(* The digests of the receipt are those of what it installed. *)
FilesMatch ==
  /\ prof.ext = prof.receipt.src /\ prof.reg = prof.receipt.src
  /\ prof.server = prof.receipt.python

(* Fault: the state is decided without the sidecar. *)
BugCurrent == FilesMatch

Current == ServerBound /\ FilesMatch

Nothing == prof.ext = 0 /\ prof.reg = 0 /\ prof.receipt = NoReceipt
Everything == prof.ext # 0 /\ prof.reg # 0 /\ prof.receipt # NoReceipt

(* Fault: a package is known by its version. *)
BugOutdated(q, p) == prof.receipt.ver # env[q].ver \/ prof.receipt.python # p

(* The receipt is not of this installer's package and interpreter: another *)
(* bundled extension, another version or another interpreter.              *)
Outdated(q, p) ==
  \/ prof.receipt.src # env[q].src
  \/ prof.receipt.ver # env[q].ver
  \/ prof.receipt.python # p

(* _installation_state *)
State(q, p) ==
  IF Nothing THEN "fresh"
  ELSE IF ~Everything THEN "partial"
  ELSE IF Outdated(q, p) THEN "upgrade"
  ELSE IF Current THEN "current"
  ELSE "repair"

(* _python_import_check: the distribution identity, which holds the        *)
(* version, is the receipt's.                                              *)
SameDistribution(p) ==
  /\ prof.receipt.dist # 0 /\ env[p].dist = prof.receipt.dist
  /\ env[p].ver = prof.receipt.ver

(* verify_install up to the wait: the stage that fails first, or "none".   *)
FailureStage(p) ==
  IF prof.receipt = Garbled THEN "receipt"
  ELSE IF ~Everything THEN "artifact"
  ELSE IF prof.receipt.python # p THEN "interpreter"
  ELSE IF ~Supported THEN "host_version"
  ELSE IF ~ServerBound THEN "server_path"
  ELSE IF ~FilesMatch THEN "artifact"
  ELSE IF ~SameDistribution(p) THEN "import"
  ELSE IF log THEN "bootstrap"
  ELSE "none"

(* Fault: the Ruby payload is not asked for its version. *)
BugServes(v) == host.serving /\ host.sidecar = v

(* SketchUp serves, the sidecar that answers is of version v, and the Ruby *)
(* in SketchUp says that it is (_readiness_identity_failure).              *)
Serves(v) == host.serving /\ host.sidecar = v /\ Reported(host.ruby) = v

(* _validate_owned_install *)
Owned == prof.ext # 0 /\ prof.reg # 0 /\ FilesMatch

-----------------------------------------------------------------------------
(* A run of the installer. *)

End(code) == run' = Idle /\ exit' = code

(* plan: the interpreter exists, its package has the version of the        *)
(* installer, which runs in q, and the receipt can be read.                *)
Planned(q, p) == Present(q) /\ env[p].ver = env[q].ver /\ prof.receipt # Garbled

(* What a transaction puts in place: the installer's own extension, bound  *)
(* to the interpreter it is given, and the receipt that says so.           *)
Installed(q, p, dist) ==
  [ext |-> env[q].src, server |-> p, reg |-> env[q].src,
   receipt |-> [ver |-> env[q].ver, src |-> env[q].src, python |-> p, dist |-> dist,
                bin |-> env[p].bin]]

Started(verb, q, p, txn) ==
  /\ run' = [pc |-> "placed", verb |-> verb, installer |-> q, python |-> p, txn |-> txn,
             prior |-> IF txn THEN prof ELSE EmptyProfile]
  /\ exit' = ExitOk

Outside == <<env, log, host, edits, failures>>

Refuse(verb, q, p) ==
  /\ ~Planned(q, p)
  /\ End(ExitPreflight)
  /\ UNCHANGED <<prof, Outside>>

Status(q, p) ==
  /\ Planned(q, p)
  /\ End(IF State(q, p) \in {"fresh", "current"} THEN ExitOk ELSE ExitVerify)
  /\ UNCHANGED <<prof, Outside>>

Verify(q, p) ==
  /\ Planned(q, p)
  /\ Started("verify", q, p, FALSE) /\ UNCHANGED <<prof, Outside>>

NothingToUpgrade(verb) == verb = "upgrade" /\ Nothing

(* A file of the extension that SketchUp holds open (inspect_install_root). *)
Locked ==
  /\ host.up /\ prof.ext # 0
  /\ End(ExitRequiresRestart) /\ UNCHANGED <<prof, Outside>>

Install(verb, q, p) ==
  /\ Planned(q, p)
  /\ \/ /\ NothingToUpgrade(verb)
        /\ End(ExitPreflight) /\ UNCHANGED <<prof, Outside>>
     \/ /\ State(q, p) = "current"
        /\ Started(verb, q, p, FALSE) /\ UNCHANGED <<prof, Outside>>
     \/ /\ State(q, p) # "current" /\ ~NothingToUpgrade(verb)
        /\ \/ Locked
           \/ /\ prof' = Installed(q, p, env[p].dist)
              /\ Started(verb, q, p, TRUE) /\ UNCHANGED Outside

Uninstall(q, p) ==
  /\ Planned(q, p)
  /\ \/ /\ Nothing
        /\ End(ExitOk) /\ UNCHANGED <<prof, Outside>>
     \/ /\ ~Nothing /\ (prof.receipt # NoReceipt => ~Owned)
        /\ End(ExitPreflight) /\ UNCHANGED <<prof, Outside>>
     \/ /\ prof.receipt # NoReceipt /\ Owned
        /\ \/ Locked
           \/ /\ prof' = EmptyProfile
              /\ End(ExitOk) /\ UNCHANGED Outside

Begin(verb) ==
  /\ run = Idle /\ verb \in Verbs
  /\ \E q, p \in Python :
       \/ Refuse(verb, q, p)
       \/ verb = "status" /\ Status(q, p)
       \/ verb = "verify" /\ Verify(q, p)
       \/ verb \in {"install", "upgrade"} /\ Install(verb, q, p)
       \/ verb = "uninstall" /\ Uninstall(q, p)

Unusable ==
  /\ prof' = IF run.txn THEN run.prior ELSE prof
  /\ End(ExitVerify)

VerifyFiles ==
  /\ run.pc = "placed"
  /\ IF FailureStage(run.python) # "none" THEN Unusable
     ELSE run' = [run EXCEPT !.pc = "waiting"] /\ UNCHANGED <<prof, exit>>
  /\ UNCHANGED Outside

(* wait_for_sidecar_ready and the identity of what answered. *)
Ready ==
  /\ run.pc = "waiting" /\ host.serving
  /\ IF Serves(env[run.installer].ver) THEN End(ExitOk) /\ UNCHANGED prof
     ELSE Unusable
  /\ UNCHANGED Outside

NotReady ==
  /\ run.pc = "waiting"
  /\ Unusable /\ UNCHANGED Outside

-----------------------------------------------------------------------------
(* SketchUp loads what is there when it starts. *)

HasExtension == prof.ext # 0 /\ prof.reg # 0
CanLaunch == prof.server # 0 /\ Present(prof.server)
Loaded(serving) ==
  [up |-> TRUE, serving |-> serving, ruby |-> IF HasExtension THEN prof.ext ELSE 0,
   sidecar |-> IF serving THEN env[prof.server].ver ELSE 0]

(* Fault: a start does not clear the record of an earlier one. *)
BugCleared == log

Cleared == log /\ ~HasExtension

StartHost ==
  /\ ~host.up /\ (HasExtension => CanLaunch)
  /\ host' = Loaded(HasExtension)
  /\ log' = Cleared
  /\ UNCHANGED <<env, prof, run, exit, edits, failures>>

(* main.rb: the extension raises and records it, the bridge does not run;  *)
(* without the launcher of server_path.txt it always does.                 *)
BootFails ==
  /\ ~host.up /\ HasExtension
  /\ failures < MaxBootFailures /\ failures' = failures + 1
  /\ host' = Loaded(FALSE) /\ log' = TRUE
  /\ UNCHANGED <<env, prof, run, exit, edits>>

(* Clearing the record raises after start: the bridge runs, and the        *)
(* failure is recorded as one of startup.                                  *)
ClearFails ==
  /\ ~host.up /\ HasExtension /\ CanLaunch /\ log
  /\ failures < MaxBootFailures /\ failures' = failures + 1
  /\ host' = Loaded(TRUE)
  /\ UNCHANGED <<env, prof, log, run, exit, edits>>

StopHost ==
  /\ host.up /\ host' = HostDown
  /\ UNCHANGED <<env, prof, log, run, exit, edits, failures>>

-----------------------------------------------------------------------------
(* What happens behind the installer's back, between two runs. *)

Edit(kind) == run = Idle /\ kind \in Edits /\ edits < MaxEdits /\ edits' = edits + 1

(* pip installs, moves or removes the package, or its sources are edited. *)
ChangePackage ==
  /\ Edit("package")
  /\ \E p \in Python, e \in Environment :
       /\ e = NoEnvironment \/ 0 \notin {e.ver, e.dist, e.bin}
       /\ env' = [env EXCEPT ![p] = e]
  /\ UNCHANGED <<prof, log, host, run, exit, failures>>

EditFiles ==
  /\ Edit("files") /\ prof # EmptyProfile
  /\ \/ prof.ext # 0 /\ prof' = [prof EXCEPT !.ext = Altered(@)]
     \/ prof.ext # 0 /\ prof' = [prof EXCEPT !.ext = 0, !.server = 0]
     \/ prof.ext # 0 /\ \E p \in Python \cup {0} : prof' = [prof EXCEPT !.server = p]
     \/ \E c \in {0, Altered(prof.reg)} : prof' = [prof EXCEPT !.reg = c]
     \/ prof' = [prof EXCEPT !.receipt = NoReceipt]
  /\ UNCHANGED <<env, log, host, run, exit, failures>>

GarbleReceipt ==
  /\ Edit("receipt") /\ prof.receipt # NoReceipt
  /\ prof' = [prof EXCEPT !.receipt = Garbled]
  /\ UNCHANGED <<env, log, host, run, exit, failures>>

(* install_extension, the library call, for the interpreter that makes it: *)
(* it records no distribution.                                             *)
InstallExtension ==
  /\ Edit("library")
  /\ \E p \in Python : Present(p) /\ prof' = Installed(p, p, 0)
  /\ UNCHANGED <<env, log, host, run, exit, failures>>

Next ==
  \/ \E verb \in Verbs : Begin(verb)
  \/ VerifyFiles \/ Ready \/ NotReady
  \/ StartHost \/ BootFails \/ ClearFails \/ StopHost
  \/ ChangePackage \/ EditFiles \/ GarbleReceipt \/ InstallExtension

Safe == Init /\ [][Next]_vars

(* The default flow: SketchUp is opened and closed while no installer      *)
(* runs, it loads the extension that is in place, and install is run       *)
(* beside it.  All of it happens again and again, SketchUp is not closed   *)
(* in the seconds of every run, and a sidecar that serves answers some     *)
(* time.  No wait is assumed: --ready-timeout is 0 unless given            *)
(* (install.py:1065), so a probe of what serves already has to do.         *)
Working(q, p) == State(q, p) = "current" /\ SameDistribution(p)
InstallWhileServing ==
  run = Idle /\ \E q, p \in Python :
    Working(q, p) /\ Serves(env[p].ver) /\ Install("install", q, p)
RunBesideIt ==
  run # Idle /\ Working(run.installer, run.python) /\ Serves(env[run.installer].ver)
DefaultFlow ==
  /\ WF_vars(VerifyFiles \/ Ready \/ NotReady)
  /\ SF_vars(StartHost /\ run = Idle) /\ SF_vars(StopHost /\ run = Idle)
  /\ SF_vars(InstallWhileServing)
  /\ SF_vars(VerifyFiles /\ RunBesideIt) /\ SF_vars(Ready /\ RunBesideIt)
Spec == Safe /\ DefaultFlow

(* More than the code gives: a wait so long that SketchUp can be opened in *)
(* it and its extension be up in time.  Only a counterexample is looked    *)
(* for under it, which it makes the stronger.                              *)
Installs == run = Idle /\ ~host.up /\ \E q, p \in Python : Install("install", q, p)
Opens == StartHost /\ run.pc = "waiting"
Patience ==
  /\ WF_vars(VerifyFiles \/ Ready \/ NotReady)
  /\ SF_vars(Installs) /\ SF_vars(Opens) /\ SF_vars(Ready /\ RunBesideIt) /\ SF_vars(StopHost)
PatientSpec == Safe /\ Patience

-----------------------------------------------------------------------------
TypeOK ==
  /\ env \in [Python -> Environment] /\ prof \in Profile /\ log \in BOOLEAN /\ host \in Host
  /\ run \in Run /\ exit \in {ExitOk, ExitPreflight, ExitVerify, ExitRequiresRestart}
  /\ edits \in 0 .. MaxEdits /\ failures \in 0 .. MaxBootFailures

(* What ends its wait with exit 0 reports the installation usable. *)
FoundUsable == run.pc = "waiting" /\ run'.pc = "idle" /\ exit' = ExitOk
InstallSucceeds == FoundUsable /\ run.verb = "install"

(* Exit 0 of the wait is said of this installer's package.  After install  *)
(* or upgrade the files are those bundled with it; after verify, status    *)
(* and upgrade would find nothing to do, but that the bundled extension    *)
(* may have changed under its version, which verify_install never asks     *)
(* (install.py:653).                                                       *)
SuccessIsCurrent ==
  [][FoundUsable =>
       IF run.verb = "verify"
       THEN \/ State(run.installer, run.python) = "current"
            \/ prof.receipt.src # env[run.installer].src
       ELSE /\ State(run.installer, run.python) = "current"
            /\ {prof.ext, prof.reg} = {env[run.installer].src}]_vars

(* "Usable" is said of what runs: SketchUp serves, and the version it has  *)
(* loaded is that of what is installed, not of what was replaced under it; *)
(* an altered extension of the same version is not told apart.             *)
UsableIsTheRunningHost ==
  [][FoundUsable =>
       /\ host.serving /\ Reported(host.ruby) = Reported(prof.ext)
       /\ host.sidecar = prof.receipt.ver]_vars

(* Once its files are in place, an installation does not get to wait for    *)
(* SketchUp only because the year is not supported, because a start failed  *)
(* before, or because it took for current a distribution that is not its    *)
(* receipt's; never because of what it wrote itself or left as it was.      *)
OnlyDeadEndsStop ==
  run.pc = "placed" /\ run.verb \in {"install", "upgrade"} /\ Supported /\ ~log =>
    \/ FailureStage(run.python) = "none"
    \/ FailureStage(run.python) = "import" /\ ~run.txn

(* An installation that is in place and whose packages stay becomes usable *)
(* with the default flow, whatever verbs, edits and repairs came before,   *)
(* and though starts of SketchUp have failed: a start that succeeds clears *)
(* their record, and install or verify then passes.                        *)
CurrentBecomesUsable ==
  <>[](\E q, p \in Python : Working(q, p)) => []<><<FoundUsable>>_vars

(* What install.md:114-115 says: "Re-running `install --yes` converges an  *)
(* already-current install and repairs partial state."                     *)
RerunConverges == <>[](\E p \in Python : Present(p)) => []<><<InstallSucceeds>>_vars

=============================================================================
