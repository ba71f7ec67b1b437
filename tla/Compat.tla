------------------------------- MODULE Compat -------------------------------
(***************************************************************************)
(* compat.py: where a SketchUp version lies on the product-year axis and   *)
(* what the compatibility matrix says of it.                               *)
(*                                                                         *)
(* The text of a version is the numbers it begins with: <<26, 0, 575>>,    *)
(* <<2026>>, or <<>> when it begins with none.                             *)
(***************************************************************************)
EXTENDS Integers, Sequences

CONSTANTS
  Number,    \* the numbers versions are written with
  Ranges,    \* supported_ranges of compat_matrix.json
  Breaks,    \* applies_from of its breaking_changes
  Required   \* its required api_surface

Text == UNION {[1 .. n -> Number] : n \in 0 .. 3}

ASSUME NumberAssumption == Number \subseteq Nat /\ 0 \in Number
ASSUME MatrixAssumption ==
  /\ Ranges \subseteq [min : Text, max : Text]
  /\ Breaks \subseteq Text

Version   == Nat \X Nat \X Nat
NoVersion == <<>>

(* parse_version: absent parts are 0. *)
Parse(t) ==
  IF t = <<>> THEN NoVersion
  ELSE <<t[1], IF Len(t) > 1 THEN t[2] ELSE 0, IF Len(t) > 2 THEN t[3] ELSE 0>>

(* Only a two-digit major is a build line. *)
BuildLines == 10 .. 99
YearCutoff == 2000

(* Fault: the first build line and the last are not folded. *)
BugBuildLineEdges(major) == major \in 11 .. 98

Foldable(major) == major \in BuildLines

(* normalize_version *)
Normalize(t) ==
  LET v == Parse(t)
  IN IF v = NoVersion THEN NoVersion
     ELSE IF v[1] >= YearCutoff THEN v
     ELSE IF Foldable(v[1]) THEN <<v[1] + YearCutoff, v[2], v[3]>>
     ELSE NoVersion

ProductYear(t) == IF Normalize(t) = NoVersion THEN 0 ELSE Normalize(t)[1]

(* _sketchup_product_year and _probe_sketchup_host of install.py, which    *)
(* fold every major below the cutoff.                                      *)
InstallerYear(t) ==
  IF t = <<>> THEN 0 ELSE IF t[1] >= YearCutoff THEN t[1] ELSE YearCutoff + t[1]

(* Python's order of tuples. *)
Below(a, b) ==
  \/ a[1] < b[1]
  \/ a[1] = b[1] /\ a[2] < b[2]
  \/ a[1] = b[1] /\ a[2] = b[2] /\ a[3] < b[3]

(* supported_ranges with both ends readable. *)
Readable == {r \in Ranges : Normalize(r.min) # NoVersion /\ Normalize(r.max) # NoVersion}
Within(v, r) == ~Below(v, Normalize(r.min)) /\ ~Below(Normalize(r.max), v)

Minimums == {Normalize(r.min) : r \in Ranges} \ {NoVersion}
Maximums == {Normalize(r.max) : r \in Ranges} \ {NoVersion}

(* Fault: the highest minimum is compared with. *)
BugBelowAll(v) == \E m \in Minimums : Below(v, m)

(* min(minimums) and max(maximums): below the lowest minimum is below each. *)
BelowAll(v) == Minimums # {} /\ \A m \in Minimums : Below(v, m)
AboveAll(v) == Maximums # {} /\ \A m \in Maximums : Below(m, v)

(* classify_host's status *)
Classify(t) ==
  LET v == Normalize(t)
  IN IF v = NoVersion THEN "unknown"
     ELSE IF \E r \in Readable : Within(v, r) THEN "supported"
     ELSE IF BelowAll(v) THEN "too_old"
     ELSE IF AboveAll(v) THEN "too_new"
     ELSE "unlisted"

(* breaking_changes_for *)
BreakingChanges(t) ==
  IF Normalize(t) = NoVersion THEN {}
  ELSE {b \in Breaks : Normalize(b) # NoVersion /\ ~Below(Normalize(t), Normalize(b))}

(* missing_required_api: probe maps the symbols the host spoke of to       *)
(* whether they are present.  An empty probe answers nothing.              *)
Missing(probe) == {s \in Required : s \in DOMAIN probe => ~probe[s]}

=============================================================================
