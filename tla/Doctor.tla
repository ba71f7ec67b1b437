------------------------------- MODULE Doctor -------------------------------
(***************************************************************************)
(* doctor_report of doctor.py: a chain of checks that ends at the first    *)
(* failure.  It asks a live SketchUp twice, for its health and for its     *)
(* Ruby API, and SketchUp may go, or not answer in time, in between.       *)
(*                                                                         *)
(* A value that may be absent is a set of at most one.                     *)
(***************************************************************************)
EXTENDS Compat

CONSTANTS
  HostVersions,  \* versions a running SketchUp may have
  HostApis,      \* the required symbols it may offer
  Found          \* lists discover_host_installations may return, newest year first

Maybe(S) == {{}} \cup {{s} : s \in S}
Installation == [native : Maybe(Text), year : Nat]

ASSUME HostAssumption ==
  /\ HostVersions \subseteq Text \ {<<>>}
  /\ HostApis \subseteq SUBSET Required
ASSUME FoundAssumption == Found \subseteq Seq(Installation)

VARIABLES
  host,      \* the SketchUp whose port and token the environment holds
  up,        \* whether it still runs; a restart draws a new port and token
  env,       \* what the doctor is started with
  pc,        \* the next check
  installs,  \* discover_host_installations
  health,    \* the version bridge.health reported: live when there is one
  version,   \* the version the verdict is about
  probe,     \* api_probe: symbol -> present
  report     \* exit code, failure stage and error code; exit -1 while it runs

doctorVars == <<pc, installs, health, version, probe, report>>
vars == <<host, up, env, doctorVars>>

Host == [version : HostVersions, api : HostApis]
Environment == [valid : BOOLEAN, bound : BOOLEAN, core : BOOLEAN]

ExitOk == 0
ExitPreflight == 10
ExitVerify == 40
Running == [exit |-> -1, stage |-> "none", code |-> "none"]

Init ==
  /\ host \in Host /\ up \in BOOLEAN /\ env \in Environment
  /\ pc = "configuration" /\ installs = <<>> /\ health = {} /\ version = {}
  /\ probe = <<>> /\ report = Running

Check(step) == pc = step /\ UNCHANGED <<host, up, env>>
Fail(exit, stage, code) ==
  /\ pc' = "done"
  /\ report' = [exit |-> exit, stage |-> stage, code |-> code]

(* A port that is no port, or a host that is not the loopback address; an  *)
(* environment without port and token is valid and bound to no SketchUp.   *)
ValidateConfiguration ==
  /\ Check("configuration")
  /\ IF env.valid THEN pc' = "core" /\ UNCHANGED report
                  ELSE Fail(ExitPreflight, "configuration", "none")
  /\ UNCHANGED <<installs, health, version, probe>>

(* dcc-mcp-core is at least MIN_CORE_VERSION. *)
ValidateCore ==
  /\ Check("core")
  /\ IF env.core THEN pc' = "discover" /\ UNCHANGED report
                 ELSE Fail(ExitPreflight, "core", "none")
  /\ UNCHANGED <<installs, health, version, probe>>

(* Discovery that raises finds nothing, and is not fatal. *)
DiscoverInstalledHost ==
  /\ Check("discover")
  /\ \E found \in Found \cup {<<>>} : installs' = found
  /\ pc' = "live"
  /\ UNCHANGED <<health, version, probe, report>>

(* SketchupBridge.from_env().status(): the SketchUp of the environment     *)
(* answers, or the call fails: not bound, gone, busy.                      *)
Answers == env.bound /\ up
ProbeLive ==
  /\ Check("live")
  /\ health' \in {{}} \cup (IF Answers THEN {{host.version}} ELSE {})
  /\ pc' = "version"
  /\ UNCHANGED <<installs, version, probe, report>>

(* The live host's version, else the first installation that has any: the  *)
(* version its executable carries or the year of its profile.              *)
Candidate(i) == IF i.native # {} THEN i.native ELSE IF i.year # 0 THEN {<<i.year>>} ELSE {}
First(list) ==
  {k \in DOMAIN list : /\ Candidate(list[k]) # {}
                       /\ \A j \in 1 .. k - 1 : Candidate(list[j]) = {}}
Inferred(list) == UNION {Candidate(list[k]) : k \in First(list)}

(* Fault: an installation is believed before the running SketchUp. *)
BugResolved == IF Inferred(installs) # {} THEN Inferred(installs) ELSE health

Resolved == IF health # {} THEN health ELSE Inferred(installs)
ResolveHostVersion ==
  /\ Check("version")
  /\ version' = Resolved
  /\ IF version' # {} THEN pc' = "matrix" /\ UNCHANGED report
     ELSE Fail(ExitPreflight, "host", "sketchup_host_not_found")
  /\ UNCHANGED <<installs, health, probe>>

ErrorCode(status) ==
  CASE status = "too_new"  -> "sketchup_host_version_unverified"
    [] status = "unlisted" -> "sketchup_host_version_unlisted"
    [] status = "unknown"  -> "sketchup_host_version_unparsable"
    [] OTHER               -> "sketchup_host_version_unsupported"

Status == Classify(CHOOSE t \in version : TRUE)
VerifyHostMatrix ==
  /\ Check("matrix")
  /\ IF Status = "supported" THEN pc' = "running" /\ UNCHANGED report
     ELSE Fail(ExitPreflight, "host_version", ErrorCode(Status))
  /\ UNCHANGED <<installs, health, version, probe>>

Live == health # {}
VerifyLiveHost ==
  /\ Check("running")
  /\ IF Live THEN pc' = "api" /\ UNCHANGED report
     ELSE Fail(ExitVerify, "live_host", "sketchup_host_not_running")
  /\ UNCHANGED <<installs, health, version, probe>>

(* diagnostics.api_probe about the symbols of the matrix; a call that      *)
(* fails returns an empty probe.                                           *)
Probes == {<<>>} \cup (IF Answers THEN {[s \in Required |-> s \in host.api]} ELSE {})
VerifyApiSurface ==
  /\ Check("api")
  /\ probe' \in Probes
  /\ IF Missing(probe') = {} THEN Fail(ExitOk, "none", "none")
     ELSE Fail(ExitVerify, "api_surface", "none")
  /\ UNCHANGED <<installs, health, version>>

(* SketchUp closes, or its bridge stops. *)
HostGoes == up /\ up' = FALSE /\ UNCHANGED <<host, env, doctorVars>>

Reported == pc = "done" /\ UNCHANGED vars

Next ==
  \/ ValidateConfiguration \/ ValidateCore \/ DiscoverInstalledHost \/ ProbeLive
  \/ ResolveHostVersion \/ VerifyHostMatrix \/ VerifyLiveHost \/ VerifyApiSurface
  \/ HostGoes \/ Reported

Spec == Init /\ [][Next]_vars

-----------------------------------------------------------------------------
TypeOK ==
  /\ host \in Host /\ up \in BOOLEAN /\ env \in Environment
  /\ pc \in {"configuration", "core", "discover", "live", "version", "matrix",
             "running", "api", "done"}
  /\ installs \in Found \cup {<<>>}
  /\ health \in Maybe(HostVersions) /\ version \subseteq Seq(Nat)
  /\ probe \in {<<>>} \cup [Required -> BOOLEAN]
  /\ report.exit \in {-1, ExitOk, ExitPreflight, ExitVerify}
  /\ pc = "done" <=> report.exit # -1

(* "directly usable" was observed: exit 0 means that the SketchUp of this  *)
(* environment answered, is of a supported version itself, and offers      *)
(* every required symbol, also when it went away between the two calls.    *)
UsableWasObserved ==
  report.exit = ExitOk =>
    /\ env.bound
    /\ Classify(host.version) = "supported"
    /\ Required \subseteq host.api

-----------------------------------------------------------------------------
(* What the verdict about one version owes to the verdict about another;   *)
(* verify and a failed read-back ask the same matrix.                      *)

(* A version has one place on the axis, however it is spelled and whoever  *)
(* reads it: build line and product year have the same verdict, the same   *)
(* year and the same breaking changes, and the installer, which folds on   *)
(* its own, reads the year the matrix reads, so that a profile, its        *)
(* executable and its live SketchUp match for one exactly when they match  *)
(* for the other.                                                          *)
YearSpelling(t) == [t EXCEPT ![1] = @ + YearCutoff]
OnePlaceOnTheAxis ==
  \A t \in version \ {<<>>} :
    /\ t[1] \in BuildLines =>
         /\ Classify(t) = Classify(YearSpelling(t))
         /\ ProductYear(t) = ProductYear(YearSpelling(t))
         /\ BreakingChanges(t) = BreakingChanges(YearSpelling(t))
    /\ ProductYear(t) # 0 => InstallerYear(t) = ProductYear(t)

(* By place on the axis. *)
NoOlder(t, u) ==
  /\ Normalize(t) # NoVersion /\ Normalize(u) # NoVersion
  /\ ~Below(Normalize(u), Normalize(t))

(* The verdicts are positions on the axis: what is no older than a too new *)
(* version is too new, what is no newer than a too old one is too old.     *)
VerdictsAreOrdered ==
  pc = "matrix" =>
    \A t \in version, u \in HostVersions :
      /\ NoOlder(t, u) /\ Classify(t) = "too_new" => Classify(u) = "too_new"
      /\ NoOlder(u, t) /\ Classify(t) = "too_old" => Classify(u) = "too_old"

=============================================================================
