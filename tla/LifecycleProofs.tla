-------------------------- MODULE LifecycleProofs --------------------------
(***************************************************************************)
(* Proofs about Lifecycle for any interpreters, versions, verbs and edits: *)
(* the type invariant, what exit 0 says of the installer's package and of  *)
(* the SketchUp that runs, and what can stop an installation.              *)
(***************************************************************************)
EXTENDS Lifecycle, TLAPS

(* The interpreter of a run holds the version of its installer, and nobody *)
(* changes either while it lasts; and it waits only for files of that      *)
(* version, which are in order.                                            *)
Verified(p) ==
  /\ Everything /\ prof.receipt.python = p
  /\ ServerBound /\ FilesMatch /\ SameDistribution(p)
Bound ==
  /\ run.pc # "idle" =>
       /\ run.installer \in Python /\ run.python \in Python
       /\ env[run.installer].ver = env[run.python].ver
  /\ run.pc = "waiting" => Verified(run.python)

IInv == TypeOK /\ Bound

-----------------------------------------------------------------------------
(* The parts of the state the actions put together. *)

LEMMA ContentTypes ==
  /\ 0 \in Content /\ Ver \subseteq Content
  /\ \A c \in Content : Altered(c) \in Content
  /\ Reported(0) = 0
<1>1. 0 \in Content /\ Ver \subseteq Content BY DEF Content
<1>2. ASSUME NEW c \in Content PROVE Altered(c) \in Content
  BY ValueAssumption DEF Content, Altered
<1>3. Reported(0) = 0 BY DEF Reported
<1> QED BY <1>1, <1>2, <1>3

LEMMA EmptyTypes ==
  /\ NoReceipt \in Receipt /\ EmptyProfile \in Profile
  /\ NoEnvironment \in Environment /\ HostDown \in Host /\ Idle \in Run
<1>1. NoReceipt \in Receipt BY ContentTypes DEF NoReceipt, Receipt
<1>2. EmptyProfile \in Profile BY <1>1, ContentTypes DEF EmptyProfile, Profile
<1>3. NoEnvironment \in Environment BY ContentTypes DEF NoEnvironment, Environment
<1>4. HostDown \in Host BY ContentTypes DEF HostDown, Host
<1>5. Idle \in Run BY <1>2 DEF Idle, Run
<1> QED BY <1>1, <1>2, <1>3, <1>4, <1>5

LEMMA InstalledType ==
  ASSUME env \in [Python -> Environment], NEW q \in Python, NEW p \in Python,
         NEW dist \in Dist \cup {0}
  PROVE  Installed(q, p, dist) \in Profile
<1>1. env[q] \in Environment /\ env[p] \in Environment OBVIOUS
<1>2. /\ env[q].ver \in Ver \cup {0} /\ env[q].src \in Content
      /\ Reported(env[q].src) = env[q].ver /\ env[p].bin \in Bin \cup {0}
  BY <1>1 DEF Environment
<1>3. [ver |-> env[q].ver, src |-> env[q].src, python |-> p, dist |-> dist,
       bin |-> env[p].bin] \in Receipt
  BY <1>2 DEF Receipt
<1> QED BY <1>2, <1>3 DEF Installed, Profile

LEMMA LoadedType ==
  ASSUME TypeOK, NEW serving \in BOOLEAN, serving => CanLaunch
  PROVE  Loaded(serving) \in Host
<1>1. prof.ext \in Content /\ 0 \in Content BY ContentTypes DEF TypeOK, Profile
<1>2. CASE serving
  <2>1. prof.server \in Python BY <1>2 DEF TypeOK, Profile, CanLaunch
  <2>2. env[prof.server].ver \in Ver \cup {0} BY <2>1 DEF TypeOK, Environment
  <2> QED BY <1>1, <1>2, <2>2 DEF Loaded, Host
<1>3. CASE ~serving
  BY <1>1, <1>3 DEF Loaded, Host
<1> QED BY <1>2, <1>3

-----------------------------------------------------------------------------
LEMMA InitInv == Init => IInv
<1> SUFFICES ASSUME Init PROVE IInv OBVIOUS
<1>1. env \in [Python -> Environment]
  <2>1. ASSUME NEW v \in Ver, NEW d \in Dist, NEW b \in Bin
        PROVE  [ver |-> v, src |-> v, dist |-> d, bin |-> b] \in Environment
    <3>1. Reported(v) = v BY ValueAssumption DEF Reported
    <3> QED BY <3>1, ContentTypes DEF Environment
  <2>2. {[ver |-> v, src |-> v, dist |-> d, bin |-> b] : v \in Ver, d \in Dist, b \in Bin}
          \cup {NoEnvironment} \subseteq Environment
    BY <2>1, EmptyTypes
  <2> QED BY <2>2 DEF Init
<1>2. TypeOK
  <2>1. log \in BOOLEAN BY DEF Init
  <2>2. edits \in 0 .. MaxEdits /\ failures \in 0 .. MaxBootFailures
    <3>1. edits = 0 /\ failures = 0 BY DEF Init
    <3>2. MaxEdits \in Nat /\ MaxBootFailures \in Nat BY BoundAssumption
    <3> QED BY <3>1, <3>2
  <2> QED BY <1>1, <2>1, <2>2, EmptyTypes DEF Init, TypeOK
<1>3. Bound BY DEF Init, Bound, Idle
<1> QED BY <1>2, <1>3 DEF IInv

(* A run that ends, whatever it leaves in the profile. *)
LEMMA EndStep ==
  ASSUME TypeOK, NEW code \in {ExitOk, ExitPreflight, ExitVerify, ExitRequiresRestart},
         End(code), prof' \in Profile, UNCHANGED Outside
  PROVE  IInv'
<1>1. TypeOK' BY EmptyTypes DEF TypeOK, End, Outside
<1>2. Bound' BY DEF Bound, End, Idle
<1> QED BY <1>1, <1>2 DEF IInv

LEMMA StartedStep ==
  ASSUME TypeOK, NEW verb \in Verbs, NEW q \in Python, NEW p \in Python,
         NEW txn \in BOOLEAN, Planned(q, p), Started(verb, q, p, txn),
         prof' \in Profile, UNCHANGED Outside
  PROVE  IInv'
<1>1. run' \in Run
  BY EmptyTypes DEF TypeOK, Started, Run
<1>2. TypeOK' BY <1>1 DEF TypeOK, Started, Outside, ExitOk
<1>3. Bound' BY DEF Bound, Started, Outside, Planned
<1> QED BY <1>2, <1>3 DEF IInv

(* Begin: each verb refuses, ends at once, or starts a run. *)
LEMMA BeginStep ==
  ASSUME IInv, NEW verb \in Verbs, Begin(verb)
  PROVE  IInv'
<1> USE DEF ExitOk, ExitPreflight, ExitVerify, ExitRequiresRestart
<1>t. TypeOK /\ prof \in Profile /\ EmptyProfile \in Profile
  BY EmptyTypes DEF IInv, TypeOK
<1>l. ASSUME Locked PROVE IInv'
  BY <1>l, <1>t, EndStep DEF Locked
<1> PICK q \in Python, p \in Python :
      \/ Refuse(verb, q, p)
      \/ verb = "status" /\ Status(q, p)
      \/ verb = "verify" /\ Verify(q, p)
      \/ verb \in {"install", "upgrade"} /\ Install(verb, q, p)
      \/ verb = "uninstall" /\ Uninstall(q, p)
  BY DEF Begin
<1>1. CASE Refuse(verb, q, p)
  BY <1>1, <1>t, EndStep DEF Refuse
<1>2. CASE Status(q, p)
  <2> DEFINE code == IF State(q, p) \in {"fresh", "current"} THEN ExitOk ELSE ExitVerify
  <2>1. code \in {ExitOk, ExitVerify} /\ End(code)
    BY <1>2 DEF Status
  <2> QED BY <1>2, <2>1, <1>t, EndStep DEF Status
<1>3. CASE verb = "verify" /\ Verify(q, p)
  BY <1>3, <1>t, StartedStep DEF Verify
<1>4. CASE Install(verb, q, p)
  <2>1. CASE End(ExitPreflight) /\ UNCHANGED <<prof, Outside>>
    BY <2>1, <1>t, EndStep
  <2>2. CASE Started(verb, q, p, FALSE) /\ UNCHANGED <<prof, Outside>>
    BY <1>4, <2>2, <1>t, StartedStep DEF Install
  <2>3. CASE Locked BY <2>3, <1>l
  <2>4. CASE /\ prof' = Installed(q, p, env[p].dist)
             /\ Started(verb, q, p, TRUE) /\ UNCHANGED Outside
    <3>1. env[p].dist \in Dist \cup {0} BY <1>t DEF TypeOK, Environment
    <3>2. prof' \in Profile BY <2>4, <3>1, <1>t, InstalledType DEF TypeOK
    <3> QED BY <1>4, <2>4, <3>2, <1>t, StartedStep DEF Install
  <2> QED BY <1>4, <2>1, <2>2, <2>3, <2>4 DEF Install
<1>5. CASE Uninstall(q, p)
  <2>1. CASE Locked BY <2>1, <1>l
  <2>2. CASE ~Locked
    <3>1. prof' \in {prof, EmptyProfile} /\ UNCHANGED Outside
      BY <1>5, <2>2 DEF Uninstall
    <3>2. \E code \in {ExitOk, ExitPreflight} : End(code)
      BY <1>5, <2>2 DEF Uninstall
    <3> QED BY <3>1, <3>2, <1>t, EndStep
  <2> QED BY <2>1, <2>2
<1> QED BY <1>1, <1>2, <1>3, <1>4, <1>5

(* The end of a run whose verification failed: what a transaction found    *)
(* comes back.                                                             *)
LEMMA UnusableStep ==
  ASSUME TypeOK, Unusable, UNCHANGED Outside
  PROVE  IInv'
<1>1. prof' \in Profile BY DEF TypeOK, Unusable, Run
<1> QED BY <1>1, EndStep DEF Unusable, ExitVerify

(* The installer's own steps after Begin. *)
LEMMA VerifyFilesStep == IInv /\ VerifyFiles => IInv'
<1> SUFFICES ASSUME IInv, VerifyFiles PROVE IInv' OBVIOUS
<1>t. TypeOK /\ Bound /\ UNCHANGED Outside BY DEF IInv, VerifyFiles
<1>1. CASE FailureStage(run.python) # "none"
  BY <1>1, <1>t, UnusableStep DEF VerifyFiles
<1>2. CASE FailureStage(run.python) = "none"
  <2>1. Verified(run.python) BY <1>2 DEF FailureStage, Verified
  <2>2. UNCHANGED <<prof, env>> BY <1>2 DEF VerifyFiles, Outside
  <2>3. run.pc = "placed" /\ run' = [run EXCEPT !.pc = "waiting"] /\ UNCHANGED <<prof, exit>>
    BY <1>2 DEF VerifyFiles
  <2>4. run' \in Run /\ run'.installer = run.installer /\ run'.python = run.python
    BY <2>3, <1>t DEF TypeOK, Run
  <2>5. TypeOK' BY <2>3, <2>4, <1>t DEF TypeOK, Outside
  <2>6. Bound'
    BY <2>1, <2>2, <2>3, <2>4, <1>t
       DEF Bound, Verified, Everything, ServerBound, Present, FilesMatch, SameDistribution
  <2> QED BY <2>5, <2>6 DEF IInv
<1> QED BY <1>1, <1>2

LEMMA WaitStep == IInv /\ (Ready \/ NotReady) => IInv'
<1> SUFFICES ASSUME IInv, Ready \/ NotReady PROVE IInv' OBVIOUS
<1>t. TypeOK /\ prof \in Profile /\ UNCHANGED Outside
  BY DEF IInv, TypeOK, Ready, NotReady
<1>1. CASE Unusable
  BY <1>1, <1>t, UnusableStep
<1>2. CASE End(ExitOk) /\ UNCHANGED prof
  BY <1>2, <1>t, EndStep
<1> QED BY <1>1, <1>2 DEF Ready, NotReady

-----------------------------------------------------------------------------
(* SketchUp, and what happens behind the installer's back. *)

LEMMA HostStep ==
  ASSUME IInv, StartHost \/ BootFails \/ ClearFails \/ StopHost
  PROVE  IInv'
<1>t. TypeOK BY DEF IInv
<1>1. UNCHANGED <<env, prof, run, exit, edits>>
  BY DEF StartHost, BootFails, ClearFails, StopHost
<1>2. host' \in Host
  <2>1. CASE StartHost
    BY <2>1, <1>t, LoadedType DEF StartHost, HasExtension
  <2>2. CASE BootFails BY <2>2, <1>t, LoadedType DEF BootFails
  <2>3. CASE ClearFails BY <2>3, <1>t, LoadedType DEF ClearFails
  <2>4. CASE StopHost BY <2>4, EmptyTypes DEF StopHost
  <2> QED BY <2>1, <2>2, <2>3, <2>4
<1>3. log' \in BOOLEAN
  BY <1>t DEF StartHost, BootFails, ClearFails, StopHost, TypeOK, Cleared
<1>4. failures' \in 0 .. MaxBootFailures
  <2>1. failures' = failures \/ (failures < MaxBootFailures /\ failures' = failures + 1)
    BY DEF StartHost, BootFails, ClearFails, StopHost
  <2>2. failures \in 0 .. MaxBootFailures /\ MaxBootFailures \in Nat
    BY <1>t, BoundAssumption DEF TypeOK
  <2> QED BY <2>1, <2>2
<1>5. TypeOK' BY <1>1, <1>2, <1>3, <1>4, <1>t DEF TypeOK
<1>6. Bound'
  BY <1>1 DEF IInv, Bound, Verified, Everything, ServerBound, Present, FilesMatch,
              SameDistribution
<1> QED BY <1>5, <1>6 DEF IInv

LEMMA EditStep ==
  ASSUME IInv, ChangePackage \/ EditFiles \/ GarbleReceipt \/ InstallExtension
  PROVE  IInv'
<1>t. TypeOK BY DEF IInv
<1>1. run = Idle /\ UNCHANGED <<log, host, run, exit, failures>>
  BY DEF ChangePackage, EditFiles, GarbleReceipt, InstallExtension, Edit
<1>2. edits' \in 0 .. MaxEdits
  BY <1>t, BoundAssumption
     DEF ChangePackage, EditFiles, GarbleReceipt, InstallExtension, Edit, TypeOK
<1>3. env' \in [Python -> Environment]
  BY <1>t DEF ChangePackage, EditFiles, GarbleReceipt, InstallExtension, TypeOK
<1>4. prof' \in Profile
  <2>1. CASE ChangePackage BY <2>1, <1>t DEF ChangePackage, TypeOK
  <2>2. CASE EditFiles
    <3>1. prof.ext \in Content /\ prof.reg \in Content BY <1>t DEF TypeOK, Profile
    <3>2. Altered(prof.ext) \in Content /\ Altered(prof.reg) \in Content /\ 0 \in Content
      BY <3>1, ContentTypes
    <3> QED BY <2>2, <3>2, <1>t, EmptyTypes DEF EditFiles, TypeOK, Profile
  <2>3. CASE GarbleReceipt BY <2>3, <1>t DEF GarbleReceipt, TypeOK, Profile
  <2>4. CASE InstallExtension
    BY <2>4, <1>t, InstalledType DEF InstallExtension, TypeOK
  <2> QED BY <2>1, <2>2, <2>3, <2>4
<1>5. TypeOK' BY <1>1, <1>2, <1>3, <1>4, <1>t DEF TypeOK
<1>6. Bound' BY <1>1 DEF Bound, Idle
<1> QED BY <1>5, <1>6 DEF IInv

LEMMA NextInv == IInv /\ [Next]_vars => IInv'
<1> SUFFICES ASSUME IInv, [Next]_vars PROVE IInv' OBVIOUS
<1>1. CASE \E verb \in Verbs : Begin(verb) BY <1>1, BeginStep
<1>2. CASE VerifyFiles BY <1>2, VerifyFilesStep
<1>3. CASE Ready \/ NotReady BY <1>3, WaitStep
<1>4. CASE StartHost \/ BootFails \/ ClearFails \/ StopHost BY <1>4, HostStep
<1>5. CASE ChangePackage \/ EditFiles \/ GarbleReceipt \/ InstallExtension
  BY <1>5, EditStep
<1>6. CASE UNCHANGED vars
  BY <1>6 DEF IInv, TypeOK, Bound, vars, Verified, Everything, ServerBound, Present,
              FilesMatch, SameDistribution
<1> QED BY <1>1, <1>2, <1>3, <1>4, <1>5, <1>6 DEF Next

LEMMA Invariance == Safe => []IInv
BY InitInv, NextInv, PTL DEF Safe

-----------------------------------------------------------------------------
(* Whatever the verbs, the edits and the failed starts, the installer's    *)
(* state is well formed (TypeOK).                                          *)
THEOREM TypeCorrect == Spec => []TypeOK
<1>1. IInv => TypeOK BY DEF IInv
<1> QED BY <1>1, Invariance, PTL DEF Spec

(* A run that ends its wait with exit 0 was found ready by Ready. *)
LEMMA SuccessIsReady ==
  ASSUME Next, FoundUsable
  PROVE  Ready /\ Serves(env[run.installer].ver)
<1>1. ~Unusable
  BY DEF FoundUsable, Unusable, End, ExitOk, ExitVerify
<1>2. run # Idle BY DEF FoundUsable, Idle
<1>3. ~VerifyFiles /\ ~NotReady BY <1>1 DEF FoundUsable, VerifyFiles, NotReady
<1>4. \A verb : ~Begin(verb) BY <1>2 DEF Begin
<1>5. ~(StartHost \/ BootFails \/ ClearFails \/ StopHost)
  BY DEF FoundUsable, StartHost, BootFails, ClearFails, StopHost
<1>6. ~(ChangePackage \/ EditFiles \/ GarbleReceipt \/ InstallExtension)
  BY <1>2 DEF ChangePackage, EditFiles, GarbleReceipt, InstallExtension, Edit
<1>7. Ready BY <1>3, <1>4, <1>5, <1>6 DEF Next
<1> QED BY <1>1, <1>7 DEF Ready

(* Exit 0 says that the SketchUp that runs has loaded what is installed.   *)
THEOREM UsableMeansLoaded == Spec => UsableIsTheRunningHost
<1> DEFINE Loads == /\ host.serving /\ Reported(host.ruby) = Reported(prof.ext)
                    /\ host.sidecar = prof.receipt.ver
           Claim == FoundUsable => Loads
<1>1. IInv /\ [Next]_vars => [Claim]_vars
  <2> SUFFICES ASSUME IInv, Next, FoundUsable
               PROVE  Loads
    OBVIOUS
  <2> DEFINE v == env[run.installer].ver
  <2>1. Serves(v) BY SuccessIsReady
  <2>2. Verified(run.python) /\ env[run.python].ver = v BY DEF IInv, Bound, FoundUsable
  <2>3. prof.receipt.ver = v /\ prof.ext = prof.receipt.src /\ v # 0
    BY <2>2 DEF Verified, SameDistribution, FilesMatch, ServerBound, Present
  <2>4. prof.receipt \in Receipt \cup {Garbled} BY DEF IInv, TypeOK, Profile
  <2>5. v \in Ver \cup {0} BY DEF IInv, TypeOK, Environment, Bound, FoundUsable
  <2>6. prof.receipt # Garbled
    BY <2>3, <2>5, ValueAssumption DEF Garbled, NoReceipt
  <2>7. Reported(prof.receipt.src) = prof.receipt.ver BY <2>4, <2>6 DEF Receipt
  <2> QED BY <2>1, <2>3, <2>7 DEF Serves
<1> QED BY <1>1, Invariance, PTL DEF Spec, Safe, UsableIsTheRunningHost

-----------------------------------------------------------------------------
(* What stops an installation.  An interpreter that holds the package has  *)
(* an identity and a launcher, and nobody touches what a run has put in    *)
(* place before it is verified.                                            *)
EnvironmentInv == \A p \in Python : Present(p) => env[p].dist # 0 /\ env[p].bin # 0

(* What an installation that put its files in place, or found them so,     *)
(* goes on to verify.                                                      *)
InPlace(r) ==
  /\ r.installer \in Python /\ r.python \in Python
  /\ Present(r.python) /\ env[r.installer].ver = env[r.python].ver
  /\ IF r.txn THEN prof = Installed(r.installer, r.python, env[r.python].dist)
     ELSE State(r.installer, r.python) = "current"

PlacedInv ==
  /\ run.pc # "idle" => run.verb \in {"install", "upgrade", "verify"}
  /\ run.pc # "idle" /\ run.verb \in {"install", "upgrade"} => InPlace(run)

(* plan refuses a receipt that cannot be read, so no run ever starts on one *)
(* or could roll back to one.                                               *)
ReadableInv ==
  run.pc # "idle" => prof.receipt # Garbled /\ run.prior.receipt # Garbled

StopInv == TypeOK /\ EnvironmentInv /\ PlacedInv /\ ReadableInv

LEMMA ReadableWritten ==
  ASSUME TypeOK, NEW q \in Python, NEW p \in Python, NEW dist
  PROVE  Installed(q, p, dist).receipt # Garbled
<1>1. env[q].ver \in Ver \cup {0} BY DEF TypeOK, Environment
<1>2. env[q].ver # -1 BY <1>1, ValueAssumption
<1>3. Installed(q, p, dist).receipt.ver = env[q].ver BY DEF Installed
<1> QED BY <1>2, <1>3 DEF Garbled, NoReceipt

LEMMA StopInit == Init => StopInv
<1> SUFFICES ASSUME Init PROVE StopInv OBVIOUS
<1>1. TypeOK BY InitInv DEF IInv
<1>2. EnvironmentInv
  BY ValueAssumption DEF Init, EnvironmentInv, Present, NoEnvironment
<1>3. PlacedInv /\ ReadableInv BY DEF Init, PlacedInv, ReadableInv, Idle
<1> QED BY <1>1, <1>2, <1>3 DEF StopInv

(* The steps of a verb before its files are verified. *)
LEMMA StopBegin ==
  ASSUME StopInv, TypeOK', NEW verb \in Verbs, Begin(verb)
  PROVE  StopInv'
<1>1. PICK q \in Python, p \in Python :
        \/ Refuse(verb, q, p)
        \/ verb = "status" /\ Status(q, p)
        \/ verb = "verify" /\ Verify(q, p)
        \/ verb \in {"install", "upgrade"} /\ Install(verb, q, p)
        \/ verb = "uninstall" /\ Uninstall(q, p)
  BY DEF Begin
<1>2. UNCHANGED env
  BY <1>1 DEF Refuse, Status, Verify, Install, Locked, Uninstall, Outside
<1>3. EnvironmentInv' BY <1>2 DEF StopInv, EnvironmentInv, Present
<1>4. CASE run' = Idle
  BY <1>3, <1>4 DEF StopInv, PlacedInv, ReadableInv, Idle
<1>5. CASE run' # Idle
  <2>1. Planned(q, p) /\ Present(p) /\ env[q].ver = env[p].ver
    BY <1>1, <1>5 DEF Refuse, Status, Verify, Install, Uninstall, Locked, End, Planned, Present
  <2>2. \/ Started("verify", q, p, FALSE) /\ UNCHANGED prof
        \/ Started(verb, q, p, FALSE) /\ UNCHANGED prof /\ State(q, p) = "current"
        \/ Started(verb, q, p, TRUE) /\ prof' = Installed(q, p, env[p].dist)
    BY <1>1, <1>5 DEF Refuse, Status, Verify, Install, Uninstall, Locked, End
  <2>3. prof.receipt # Garbled /\ EmptyProfile.receipt # Garbled
    BY <2>1 DEF Planned, EmptyProfile, NoReceipt, Garbled
  <2>4. prof'.receipt # Garbled
    BY <2>2, <2>3, ReadableWritten DEF StopInv
  <2>5. /\ run'.pc = "placed" /\ run'.installer = q /\ run'.python = p
        /\ run'.prior \in {prof, EmptyProfile}
    BY <2>2 DEF Started
  <2>6. ReadableInv' BY <2>3, <2>4, <2>5 DEF ReadableInv
  <2>7. CASE Started("verify", q, p, FALSE)
    <3>1. run'.verb = "verify" BY <2>7 DEF Started
    <3> QED BY <1>3, <2>6, <3>1 DEF StopInv, PlacedInv
  <2>8. CASE Started(verb, q, p, FALSE) /\ UNCHANGED prof /\ State(q, p) = "current"
    <3>1. run'.txn = FALSE /\ run'.verb = verb /\ verb \in {"install", "upgrade", "verify"}
      BY <1>1, <1>5, <2>8 DEF Started, Refuse, Status, Uninstall, Locked, End
    <3>2. State(q, p)' = State(q, p) /\ Present(p)' = Present(p)
      BY <1>2, <2>8
         DEF State, Outdated, Nothing, Everything, Current, ServerBound, FilesMatch, Present
    <3> QED BY <1>2, <1>3, <2>1, <2>5, <2>6, <2>8, <3>1, <3>2 DEF StopInv, PlacedInv, InPlace
  <2>9. CASE Started(verb, q, p, TRUE) /\ prof' = Installed(q, p, env[p].dist)
    <3>1. run'.txn = TRUE /\ run'.verb = verb /\ verb \in {"install", "upgrade", "verify"}
      BY <1>1, <1>5, <2>9 DEF Started, Refuse, Status, Uninstall, Locked, End
    <3>2. prof' = Installed(q, p, env[p].dist)' /\ Present(p)' = Present(p)
      BY <1>2, <2>9 DEF Installed, Present
    <3> QED BY <1>2, <1>3, <2>1, <2>5, <2>6, <3>1, <3>2 DEF StopInv, PlacedInv, InPlace
  <2> QED BY <2>2, <2>7, <2>8, <2>9
<1> QED BY <1>4, <1>5

LEMMA StopStep == StopInv /\ [Next]_vars /\ TypeOK' => StopInv'
<1> SUFFICES ASSUME StopInv, [Next]_vars, TypeOK' PROVE StopInv' OBVIOUS
<1>1. CASE \E verb \in Verbs : Begin(verb) BY <1>1, StopBegin
<1>2. CASE VerifyFiles \/ Ready \/ NotReady
  <2>1. UNCHANGED env BY <1>2 DEF VerifyFiles, Ready, NotReady, Outside
  <2>2. EnvironmentInv' BY <2>1 DEF StopInv, EnvironmentInv, Present
  <2>3. \/ run' = Idle
        \/ VerifyFiles /\ run' = [run EXCEPT !.pc = "waiting"] /\ UNCHANGED prof
    BY <1>2 DEF VerifyFiles, Ready, NotReady, Unusable, End
  <2>4. CASE run' = Idle
    BY <2>2, <2>4 DEF StopInv, PlacedInv, ReadableInv, Idle
  <2>5. CASE VerifyFiles /\ run' = [run EXCEPT !.pc = "waiting"] /\ UNCHANGED prof
    <3>1. run \in Run /\ run.pc = "placed" BY <2>5 DEF StopInv, TypeOK, VerifyFiles
    <3>2. /\ run'.pc = "waiting" /\ run'.prior = run.prior /\ run'.verb = run.verb
          /\ run'.installer = run.installer /\ run'.python = run.python /\ run'.txn = run.txn
      BY <2>5, <3>1 DEF Run
    <3>3. InPlace(run) => InPlace(run)'
      BY <2>1, <2>5, <3>2
         DEF InPlace, Installed, State, Outdated, Nothing, Everything, Current, ServerBound,
             FilesMatch, Present
    <3> QED BY <2>2, <2>5, <3>1, <3>2, <3>3 DEF StopInv, PlacedInv, ReadableInv
  <2> QED BY <2>3, <2>4, <2>5
<1>3. CASE StartHost \/ BootFails \/ ClearFails \/ StopHost \/ UNCHANGED vars
  <2>1. UNCHANGED <<env, prof, run>>
    BY <1>3 DEF StartHost, BootFails, ClearFails, StopHost, vars
  <2>2. EnvironmentInv' /\ ReadableInv'
    BY <2>1 DEF StopInv, EnvironmentInv, ReadableInv, Present
  <2>3. InPlace(run) => InPlace(run)'
    BY <2>1 DEF InPlace, Installed, State, Outdated, Nothing, Everything, Current, ServerBound,
                FilesMatch, Present
  <2> QED BY <2>1, <2>2, <2>3 DEF StopInv, PlacedInv
<1>4. CASE ChangePackage \/ EditFiles \/ GarbleReceipt \/ InstallExtension
  <2>1. run = Idle /\ UNCHANGED run
    BY <1>4 DEF ChangePackage, EditFiles, GarbleReceipt, InstallExtension, Edit
  <2>2. PlacedInv' /\ ReadableInv' BY <2>1 DEF PlacedInv, ReadableInv, Idle
  <2>3. CASE ~ChangePackage
    <3>1. UNCHANGED env BY <1>4, <2>3 DEF EditFiles, GarbleReceipt, InstallExtension
    <3> QED BY <2>2, <3>1 DEF StopInv, EnvironmentInv, Present
  <2>4. CASE ChangePackage
    <3>1. PICK p \in Python, e \in Environment :
            /\ e = NoEnvironment \/ 0 \notin {e.ver, e.dist, e.bin}
            /\ env' = [env EXCEPT ![p] = e]
      BY <2>4 DEF ChangePackage
    <3>2. \A r \in Python : env'[r] = IF r = p THEN e ELSE env[r]
      BY <3>1 DEF StopInv, TypeOK
    <3>3. EnvironmentInv'
      BY <3>1, <3>2 DEF StopInv, EnvironmentInv, Present, NoEnvironment
    <3> QED BY <2>2, <3>3 DEF StopInv
  <2> QED BY <2>3, <2>4
<1> QED BY <1>1, <1>2, <1>3, <1>4 DEF Next

LEMMA StopInvariance == Safe => []StopInv
<1>1. StopInv /\ TypeOK' /\ [Next]_vars => StopInv' BY StopStep
<1>2. IInv => TypeOK BY DEF IInv
<1> QED BY <1>1, <1>2, StopInit, Invariance, PTL DEF Safe

(* No installation is stopped by what it has just put in place, nor by     *)
(* files, launcher or receipt that it took for current.                    *)
THEOREM InstallationsStopAtDeadEnds == Spec => []OnlyDeadEndsStop
<1>1. StopInv => OnlyDeadEndsStop
  <2> SUFFICES ASSUME StopInv, run.pc = "placed", run.verb \in {"install", "upgrade"},
                      Supported, ~log
               PROVE  \/ FailureStage(run.python) = "none"
                      \/ FailureStage(run.python) = "import" /\ ~run.txn
    BY DEF OnlyDeadEndsStop
  <2> DEFINE q == run.installer
             p == run.python
  <2>1. /\ InPlace(run) /\ p \in Python /\ Present(p) /\ prof.receipt # Garbled
        /\ env[q].ver = env[p].ver
    BY DEF StopInv, PlacedInv, ReadableInv, InPlace
  <2> HIDE DEF p, q
  <2>2. CASE run.txn
    <3>1. prof = Installed(q, p, env[p].dist) BY <2>1, <2>2 DEF InPlace, p, q
    <3>2. /\ prof.ext = env[q].src /\ prof.reg = env[q].src /\ prof.server = p
          /\ prof.receipt.ver = env[q].ver /\ prof.receipt.src = env[q].src
          /\ prof.receipt.python = p
          /\ prof.receipt.dist = env[p].dist /\ prof.receipt.bin = env[p].bin
      BY <3>1 DEF Installed
    <3>3. p # 0 /\ env[p].ver # 0 /\ env[p].dist # 0
      BY <2>1, ValueAssumption DEF StopInv, EnvironmentInv, Present
    <3>0. env[q].src # 0
      <4>1. env[q] \in Environment /\ env[q].ver # 0
        BY <2>1, <3>3 DEF StopInv, TypeOK, InPlace, q
      <4> QED BY <4>1 DEF Environment, Reported
    <3>4. Everything /\ ServerBound /\ FilesMatch /\ SameDistribution(p)
      BY <2>1, <3>0, <3>2, <3>3
         DEF Everything, ServerBound, FilesMatch, SameDistribution, NoReceipt
    <3> QED BY <2>1, <3>2, <3>4 DEF FailureStage, p
  <2>3. CASE ~run.txn
    <3>1. Everything /\ prof.receipt.python = p /\ ServerBound /\ FilesMatch
      BY <2>1, <2>3 DEF InPlace, State, Outdated, Current, p, q
    <3> QED BY <2>1, <2>3, <3>1 DEF FailureStage, p
  <2> QED BY <2>2, <2>3
<1> QED BY <1>1, StopInvariance, PTL DEF Spec

(* What verification finds in order is current for the installer, but for  *)
(* a bundled extension that has changed under its version.                 *)
LEMMA VerifiedIsCurrent ==
  ASSUME NEW q \in Python, NEW p \in Python, env[q].ver = env[p].ver, Verified(p),
         prof.receipt.src = env[q].src
  PROVE  State(q, p) = "current" /\ {prof.ext, prof.reg} = {env[q].src}
<1>1. ~Nothing /\ Everything /\ Current
  BY DEF Verified, Everything, Nothing, Current
<1>2. ~Outdated(q, p) BY DEF Verified, SameDistribution, Outdated
<1>3. prof.ext = env[q].src /\ prof.reg = env[q].src BY DEF Verified, FilesMatch
<1> QED BY <1>1, <1>2, <1>3 DEF State

(* Exit 0 is said of the package of the installer that says it: an install *)
(* or upgrade that took the files for current, or that put them in place   *)
(* before SketchUp came and went, ends with its own bundled extension.     *)
THEOREM SuccessMeansCurrent == Spec => SuccessIsCurrent
<1> DEFINE Good == IF run.verb = "verify"
                   THEN \/ State(run.installer, run.python) = "current"
                        \/ prof.receipt.src # env[run.installer].src
                   ELSE /\ State(run.installer, run.python) = "current"
                        /\ {prof.ext, prof.reg} = {env[run.installer].src}
           Claim == FoundUsable => Good
<1>1. IInv /\ StopInv => (run.pc = "waiting" => Good)
  <2> SUFFICES ASSUME IInv, StopInv, run.pc = "waiting" PROVE Good OBVIOUS
  <2> DEFINE q == run.installer
             p == run.python
  <2>1. q \in Python /\ p \in Python /\ env[q].ver = env[p].ver /\ Verified(p)
    BY DEF IInv, Bound
  <2>2. prof.receipt.src = env[q].src
          => State(q, p) = "current" /\ {prof.ext, prof.reg} = {env[q].src}
    BY <2>1, VerifiedIsCurrent
  <2>3. CASE run.verb = "verify" BY <2>2, <2>3
  <2>4. CASE run.verb # "verify"
    <3>1. InPlace(run) BY <2>4 DEF StopInv, PlacedInv
    <3>2. prof.receipt.src = env[q].src
      BY <3>1 DEF InPlace, Installed, State, Outdated
    <3> QED BY <2>2, <2>4, <3>2
  <2> QED BY <2>3, <2>4
<1>2. IInv /\ StopInv /\ [Next]_vars => [Claim]_vars
  BY <1>1 DEF FoundUsable
<1> QED BY <1>2, Invariance, StopInvariance, PTL DEF Spec, Safe, SuccessIsCurrent

(* No verb repairs a receipt that cannot be read, or removes it: it stays  *)
(* until somebody changes the files by hand.                               *)
GarbledStays ==
  [][prof.receipt = Garbled /\ prof'.receipt # Garbled => run = Idle /\ edits' = edits + 1]_vars

THEOREM NoVerbRepairsAReceipt == Spec => GarbledStays
<1> DEFINE Claim == prof.receipt = Garbled /\ prof'.receipt # Garbled
                      => run = Idle /\ edits' = edits + 1
<1>1. StopInv /\ [Next]_vars => [Claim]_vars
  <2> SUFFICES ASSUME StopInv, Next, prof.receipt = Garbled, prof'.receipt # Garbled
               PROVE  run = Idle /\ edits' = edits + 1
    OBVIOUS
  <2>1. run.pc = "idle" BY DEF StopInv, ReadableInv
  <2>2. ~VerifyFiles /\ ~Ready /\ ~NotReady BY <2>1 DEF VerifyFiles, Ready, NotReady
  <2>3. \A q, p \in Python : ~Planned(q, p) BY DEF Planned
  <2>4. ASSUME NEW verb \in Verbs, Begin(verb) PROVE FALSE
    BY <2>3, <2>4 DEF Begin, Refuse, Status, Verify, Install, Uninstall
  <2>5. ~(StartHost \/ BootFails \/ ClearFails \/ StopHost \/ ChangePackage)
    BY DEF StartHost, BootFails, ClearFails, StopHost, ChangePackage
  <2>6. EditFiles \/ GarbleReceipt \/ InstallExtension
    BY <2>2, <2>4, <2>5 DEF Next
  <2> QED BY <2>6 DEF EditFiles, GarbleReceipt, InstallExtension, Edit
<1> QED BY <1>1, StopInvariance, PTL DEF Spec, Safe, GarbledStays

=============================================================================
