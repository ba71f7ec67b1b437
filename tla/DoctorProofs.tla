---------------------------- MODULE DoctorProofs ----------------------------
(***************************************************************************)
(* Proofs about Compat and Doctor for any matrix and any versions: what a  *)
(* version's place on the axis decides, and what "usable" has observed.    *)
(***************************************************************************)
EXTENDS Doctor, SequenceTheorems, TLAPS

-----------------------------------------------------------------------------
(* Python's order on versions is a strict linear order. *)

LEMMA BelowTransitive ==
  ASSUME NEW a \in Version, NEW b \in Version, NEW c \in Version
  PROVE  /\ Below(a, b) /\ Below(b, c) => Below(a, c)
         /\ ~Below(b, a) /\ Below(c, a) => Below(c, b)
         /\ ~Below(b, a) /\ Below(b, c) => Below(a, c)
  BY DEF Version, Below

LEMMA ParseType ==
  ASSUME NEW t \in Seq(Nat)
  PROVE  Parse(t) \in Version \cup {NoVersion}
  BY DEF Parse, Version, NoVersion

LEMMA NormalizeType ==
  ASSUME NEW t \in Seq(Nat)
  PROVE  Normalize(t) \in Version \cup {NoVersion}
<1>1. Parse(t) \in Version \cup {NoVersion} BY ParseType
<1>2. CASE Parse(t) = NoVersion BY <1>2 DEF Normalize
<1>3. CASE Parse(t) # NoVersion
  <2>1. /\ Parse(t)[1] \in Nat /\ Parse(t)[2] \in Nat /\ Parse(t)[3] \in Nat
    BY <1>1, <1>3 DEF Version
  <2>2. <<Parse(t)[1] + YearCutoff, Parse(t)[2], Parse(t)[3]>> \in Version
    BY <2>1 DEF Version, YearCutoff
  <2> QED BY <1>1, <1>3, <2>2 DEF Normalize
<1> QED BY <1>2, <1>3

LEMMA TextType == Text \subseteq Seq(Nat)
<1> SUFFICES ASSUME NEW n \in 0 .. 3, NEW t \in [1 .. n -> Number] PROVE t \in Seq(Nat)
  BY DEF Text
<1>1. t \in [1 .. n -> Nat] BY NumberAssumption
<1> QED BY <1>1, SeqDef

(* A build line and its product year normalise to the same version. *)
LEMMA SpellingsAgree ==
  ASSUME NEW t \in Seq(Nat), t # <<>>, t[1] \in BuildLines
  PROVE  Normalize(YearSpelling(t)) = Normalize(t)
<1> DEFINE u == YearSpelling(t)
<1>1. /\ Len(t) \in Nat /\ Len(t) > 0 /\ t[1] \in Nat
      /\ u \in Seq(Nat) /\ Len(u) = Len(t) /\ u[1] = t[1] + 2000
      /\ \A k \in 2 .. Len(t) : u[k] = t[k]
  BY DEF YearSpelling, YearCutoff
<1>2. Parse(t) = <<t[1], IF Len(t) > 1 THEN t[2] ELSE 0, IF Len(t) > 2 THEN t[3] ELSE 0>>
  BY <1>1 DEF Parse
<1>3. u # <<>> BY <1>1
<1>4. Parse(u) = <<u[1], IF Len(u) > 1 THEN u[2] ELSE 0, IF Len(u) > 2 THEN u[3] ELSE 0>>
  BY <1>3 DEF Parse
<1>5. Parse(u) = <<t[1] + 2000, Parse(t)[2], Parse(t)[3]>>
  BY <1>1, <1>2, <1>4
<1>6. Parse(t) # NoVersion /\ Parse(u) # NoVersion /\ Parse(t)[1] = t[1]
  BY <1>2, <1>5 DEF NoVersion
<1>7. Normalize(u) = Parse(u)
  BY <1>1, <1>5, <1>6 DEF Normalize, YearCutoff
<1>8. ~(t[1] >= YearCutoff) /\ Foldable(t[1])
  <2>1. \A major \in BuildLines : ~(major >= YearCutoff)
    BY DEF BuildLines, YearCutoff
  <2>2. Foldable(t[1]) BY DEF Foldable
  <2> QED BY <2>1, <2>2
<1>9. Normalize(t) = <<t[1] + YearCutoff, Parse(t)[2], Parse(t)[3]>>
  BY <1>6, <1>8 DEF Normalize
<1> QED BY <1>5, <1>7, <1>9 DEF YearCutoff

(* The installer, which folds more, folds the same where the matrix folds. *)
LEMMA InstallerAgrees ==
  ASSUME NEW t \in Seq(Nat), t # <<>>, ProductYear(t) # 0
  PROVE  InstallerYear(t) = ProductYear(t)
<1>1. Normalize(t) # NoVersion BY DEF ProductYear
<1>2. Parse(t) = <<t[1], IF Len(t) > 1 THEN t[2] ELSE 0, IF Len(t) > 2 THEN t[3] ELSE 0>>
  BY DEF Parse
<1>3. Parse(t) # NoVersion /\ Parse(t)[1] = t[1] /\ t[1] \in Nat
  BY <1>2 DEF NoVersion
<1>4. CASE t[1] >= YearCutoff
  <2>1. Normalize(t) = Parse(t) BY <1>3, <1>4 DEF Normalize
  <2> QED BY <1>1, <1>3, <1>4, <2>1 DEF ProductYear, InstallerYear
<1>5. CASE ~(t[1] >= YearCutoff)
  <2>1. Normalize(t) = <<t[1] + YearCutoff, Parse(t)[2], Parse(t)[3]>>
    BY <1>1, <1>3, <1>5 DEF Normalize
  <2> QED BY <1>1, <1>3, <1>5, <2>1 DEF ProductYear, InstallerYear, YearCutoff
<1> QED BY <1>4, <1>5

(* The ends of the ranges are versions. *)
LEMMA EndsAreVersions == Minimums \subseteq Version /\ Maximums \subseteq Version
<1>1. ASSUME NEW r \in Ranges
      PROVE  /\ Normalize(r.min) \in Version \cup {NoVersion}
             /\ Normalize(r.max) \in Version \cup {NoVersion}
  <2>1. r.min \in Seq(Nat) /\ r.max \in Seq(Nat)
    BY MatrixAssumption, TextType
  <2> QED BY <2>1, NormalizeType
<1> QED BY <1>1 DEF Minimums, Maximums

(* Newer than a too new version is too new, older than a too old one too   *)
(* old.                                                                    *)
LEMMA VerdictOrder ==
  ASSUME NEW t \in Seq(Nat), NEW u \in Seq(Nat)
  PROVE  /\ NoOlder(t, u) /\ Classify(t) = "too_new" => Classify(u) = "too_new"
         /\ NoOlder(u, t) /\ Classify(t) = "too_old" => Classify(u) = "too_old"
<1> DEFINE v == Normalize(t)
           w == Normalize(u)
<1>1. ASSUME NoOlder(t, u), Classify(t) = "too_new" PROVE Classify(u) = "too_new"
  <2>1. v \in Version /\ w \in Version /\ v # NoVersion /\ w # NoVersion /\ ~Below(w, v)
    BY <1>1, NormalizeType DEF NoOlder
  <2>2. AboveAll(v) /\ ~BelowAll(v) /\ ~\E r \in Readable : Within(v, r)
    BY <1>1 DEF Classify
  <2>3. AboveAll(w)
    <3>1. ASSUME NEW m \in Maximums PROVE Below(m, w)
      BY <2>1, <2>2, <3>1, EndsAreVersions, BelowTransitive DEF AboveAll
    <3> QED BY <2>2, <3>1 DEF AboveAll
  <2>4. ~BelowAll(w)
    <3>1. Minimums = {} \/ \E m \in Minimums : ~Below(v, m) BY <2>2 DEF BelowAll
    <3>2. ASSUME NEW m \in Minimums, ~Below(v, m) PROVE ~Below(w, m)
      BY <2>1, <3>2, EndsAreVersions, BelowTransitive
    <3> QED BY <3>1, <3>2 DEF BelowAll
  <2>5. ASSUME NEW r \in Readable, Within(w, r) PROVE FALSE
    <3>1. Normalize(r.max) \in Maximums BY DEF Readable, Maximums
    <3>2. Below(Normalize(r.max), w) BY <2>3, <3>1 DEF AboveAll
    <3> QED BY <2>5, <3>2 DEF Within
  <2> QED BY <2>1, <2>3, <2>4, <2>5 DEF Classify
<1>2. ASSUME NoOlder(u, t), Classify(t) = "too_old" PROVE Classify(u) = "too_old"
  <2>1. v \in Version /\ w \in Version /\ w # NoVersion /\ ~Below(v, w)
    BY <1>2, NormalizeType DEF NoOlder
  <2>2. BelowAll(v)
    BY <1>2 DEF Classify
  <2>3. BelowAll(w)
    <3>1. ASSUME NEW m \in Minimums PROVE Below(w, m)
      BY <2>1, <2>2, <3>1, EndsAreVersions, BelowTransitive DEF BelowAll
    <3> QED BY <2>2, <3>1 DEF BelowAll
  <2>4. ASSUME NEW r \in Readable, Within(w, r) PROVE FALSE
    <3>1. Normalize(r.min) \in Minimums BY DEF Readable, Minimums
    <3>2. Below(w, Normalize(r.min)) BY <2>3, <3>1 DEF BelowAll
    <3> QED BY <2>4, <3>2 DEF Within
  <2> QED BY <2>1, <2>3, <2>4 DEF Classify
<1> QED BY <1>1, <1>2

-----------------------------------------------------------------------------
(* The type invariant: absent parts of a version are absent, and what was  *)
(* inferred is a version too.                                              *)

LEMMA InferredType ==
  ASSUME NEW list \in Seq(Installation)
  PROVE  Inferred(list) \subseteq Seq(Nat)
<1> SUFFICES ASSUME NEW k \in DOMAIN list PROVE Candidate(list[k]) \subseteq Seq(Nat)
  BY DEF Inferred, First
<1>1. list[k] \in Installation OBVIOUS
<1>2. list[k].native \subseteq Text BY <1>1 DEF Installation, Maybe
<1>3. list[k].year \in Nat BY <1>1 DEF Installation
<1>4. <<list[k].year>> \in Seq(Nat) BY <1>3
<1> QED BY <1>2, <1>4, TextType DEF Candidate

(* Up to the report the doctor only gathers; what it has gathered is about *)
(* the SketchUp of its environment.                                        *)
Gathered ==
  /\ pc # "done" => report = Running
  /\ health \subseteq {host.version}
  /\ health # {} => env.bound
  /\ pc \in {"matrix", "running", "api"} /\ health # {} => version = health
  /\ pc \in {"running", "api"} => Status = "supported"
  /\ pc = "api" => health # {}

IInv == TypeOK /\ Gathered /\ UsableWasObserved

LEMMA InitInv == Init => IInv
<1> SUFFICES ASSUME Init PROVE IInv OBVIOUS
<1>1. TypeOK BY DEF Init, TypeOK, Maybe, Running
<1>2. Gathered /\ UsableWasObserved BY DEF Init, Gathered, UsableWasObserved, Running, ExitOk
<1> QED BY <1>1, <1>2 DEF IInv

LEMMA NextType == TypeOK /\ [Next]_vars => TypeOK'
<1> SUFFICES ASSUME TypeOK, [Next]_vars PROVE TypeOK' OBVIOUS
<1> USE DEF TypeOK, Check, Fail, Running, ExitOk, ExitPreflight, ExitVerify
<1>1. CASE ValidateConfiguration BY <1>1 DEF ValidateConfiguration
<1>2. CASE ValidateCore BY <1>2 DEF ValidateCore
<1>3. CASE DiscoverInstalledHost BY <1>3 DEF DiscoverInstalledHost
<1>4. CASE ProbeLive BY <1>4 DEF ProbeLive, Maybe, Host
<1>5. CASE ResolveHostVersion
  <2>1. installs \in Seq(Installation)
    <3>1. <<>> \in Seq(Installation) OBVIOUS
    <3>2. installs \in Found \/ installs = <<>> BY DEF TypeOK
    <3> QED BY <3>1, <3>2, FoundAssumption
  <2>2. health \subseteq Seq(Nat) BY HostAssumption, TextType DEF Maybe
  <2>3. version' \subseteq Seq(Nat)
    BY <1>5, <2>1, <2>2, InferredType DEF ResolveHostVersion, Resolved
  <2> QED BY <1>5, <2>3 DEF ResolveHostVersion
<1>6. CASE VerifyHostMatrix BY <1>6 DEF VerifyHostMatrix
<1>7. CASE VerifyLiveHost BY <1>7 DEF VerifyLiveHost
<1>8. CASE VerifyApiSurface
  <2>1. [s \in Required |-> s \in host.api] \in [Required -> BOOLEAN] OBVIOUS
  <2>2. probe' \in {<<>>} \cup [Required -> BOOLEAN]
    BY <1>8, <2>1 DEF VerifyApiSurface, Probes
  <2> QED BY <1>8, <2>2 DEF VerifyApiSurface
<1>9. CASE HostGoes \/ Reported \/ UNCHANGED vars
  BY <1>9 DEF HostGoes, Reported, vars, doctorVars
<1> QED BY <1>1, <1>2, <1>3, <1>4, <1>5, <1>6, <1>7, <1>8, <1>9 DEF Next

(* Only the last check ends well.                                          *)
LEMMA NextGathered == IInv /\ [Next]_vars => Gathered' /\ UsableWasObserved'
<1> SUFFICES ASSUME IInv, [Next]_vars PROVE Gathered' /\ UsableWasObserved' OBVIOUS
<1>i. Gathered /\ UsableWasObserved /\ host \in Host BY DEF IInv, TypeOK
<1> USE DEF Check, Fail, Running, ExitOk, ExitPreflight, ExitVerify
<1>1. CASE ValidateConfiguration
  BY <1>1, <1>i DEF ValidateConfiguration, Gathered, UsableWasObserved
<1>2. CASE ValidateCore BY <1>2, <1>i DEF ValidateCore, Gathered, UsableWasObserved
<1>3. CASE DiscoverInstalledHost
  BY <1>3, <1>i DEF DiscoverInstalledHost, Gathered, UsableWasObserved
<1>4. CASE ProbeLive
  BY <1>4, <1>i DEF ProbeLive, Answers, Gathered, UsableWasObserved
<1>5. CASE ResolveHostVersion
  BY <1>5, <1>i DEF ResolveHostVersion, Resolved, Gathered, UsableWasObserved
<1>6. CASE VerifyHostMatrix
  BY <1>6, <1>i DEF VerifyHostMatrix, Gathered, UsableWasObserved, Status
<1>7. CASE VerifyLiveHost
  BY <1>7, <1>i DEF VerifyLiveHost, Live, Gathered, UsableWasObserved, Status
<1>8. CASE VerifyApiSurface
  <2>1. /\ pc = "api" /\ UNCHANGED <<host, env, version, health>> /\ pc' = "done"
        /\ probe' \in Probes
    BY <1>8 DEF VerifyApiSurface
  <2>2. Gathered' BY <1>i, <2>1 DEF Gathered
  <2>3. ASSUME report'.exit = ExitOk PROVE Required \subseteq host.api
    <3>1. Missing(probe') = {} BY <1>8, <2>3 DEF VerifyApiSurface
    <3>2. \A s \in Required : s \in DOMAIN probe' /\ probe'[s]
      BY <3>1 DEF Missing
    <3>3. CASE probe' = <<>>
      <4>1. Required = {} BY <3>2, <3>3
      <4> QED BY <4>1
    <3>4. CASE probe' = [s \in Required |-> s \in host.api] BY <3>2, <3>4
    <3> QED BY <2>1, <3>3, <3>4 DEF Probes
  <2>4. env.bound /\ Classify(host.version) = "supported"
    <3>1. health = {host.version} /\ version = {host.version} /\ env.bound
      BY <1>i, <2>1 DEF Gathered
    <3>2. (CHOOSE t \in version : TRUE) = host.version BY <3>1
    <3> QED BY <1>i, <2>1, <3>1, <3>2 DEF Gathered, Status
  <2> QED BY <2>1, <2>2, <2>3, <2>4 DEF UsableWasObserved
<1>9. CASE HostGoes \/ Reported \/ UNCHANGED vars
  BY <1>9, <1>i DEF HostGoes, Reported, vars, doctorVars, Gathered, UsableWasObserved, Status
<1> QED BY <1>1, <1>2, <1>3, <1>4, <1>5, <1>6, <1>7, <1>8, <1>9 DEF Next

LEMMA Invariance == Spec => []IInv
<1>1. IInv /\ [Next]_vars => IInv'
  BY NextType, NextGathered DEF IInv
<1> QED BY <1>1, InitInv, PTL DEF Spec

-----------------------------------------------------------------------------
(* For any matrix, hosts and installations the doctor's state is well      *)
(* formed, and the version it judges is one (TypeOK).                      *)
THEOREM TypeCorrect == Spec => []TypeOK
<1>1. IInv => TypeOK BY DEF IInv
<1> QED BY <1>1, Invariance, PTL

(* Exit 0 of the doctor was observed (doctor_report), for any matrix.      *)
THEOREM UsableIsObserved == Spec => []UsableWasObserved
<1>1. IInv => UsableWasObserved BY DEF IInv
<1> QED BY <1>1, Invariance, PTL

(* normalize_version puts both spellings of a version at one place, for    *)
(* any matrix, and install.py's own folding agrees with it.                *)
THEOREM OnePlace == Spec => []OnePlaceOnTheAxis
<1>1. TypeOK => OnePlaceOnTheAxis
  <2> SUFFICES ASSUME TypeOK, NEW t \in version \ {<<>>}
               PROVE  /\ t[1] \in BuildLines =>
                           /\ Classify(t) = Classify(YearSpelling(t))
                           /\ ProductYear(t) = ProductYear(YearSpelling(t))
                           /\ BreakingChanges(t) = BreakingChanges(YearSpelling(t))
                      /\ ProductYear(t) # 0 => InstallerYear(t) = ProductYear(t)
    BY DEF OnePlaceOnTheAxis
  <2>1. t \in Seq(Nat) /\ t # <<>> BY DEF TypeOK
  <2>2. ASSUME t[1] \in BuildLines
        PROVE  /\ Classify(t) = Classify(YearSpelling(t))
               /\ ProductYear(t) = ProductYear(YearSpelling(t))
               /\ BreakingChanges(t) = BreakingChanges(YearSpelling(t))
    <3>1. Normalize(YearSpelling(t)) = Normalize(t) BY <2>1, <2>2, SpellingsAgree
    <3> QED BY <3>1 DEF Classify, ProductYear, BreakingChanges
  <2> QED BY <2>1, <2>2, InstallerAgrees
<1> QED BY <1>1, TypeCorrect, PTL

(* classify_host is monotone along the axis, whatever ranges, gaps and     *)
(* unreadable ends the matrix has.                                         *)
THEOREM VerdictsFollowTheAxis == Spec => []VerdictsAreOrdered
<1>1. TypeOK => VerdictsAreOrdered
  <2> SUFFICES ASSUME TypeOK, NEW t \in version, NEW u \in HostVersions
               PROVE  /\ NoOlder(t, u) /\ Classify(t) = "too_new" => Classify(u) = "too_new"
                      /\ NoOlder(u, t) /\ Classify(t) = "too_old" => Classify(u) = "too_old"
    BY DEF VerdictsAreOrdered
  <2>1. t \in Seq(Nat) /\ u \in Seq(Nat) BY HostAssumption, TextType DEF TypeOK
  <2> QED BY <2>1, VerdictOrder
<1> QED BY <1>1, TypeCorrect, PTL

=============================================================================
