---------------------------- MODULE MCLifecycle ----------------------------
(* Two interpreters that may hold different versions, or two installations *)
(* of one version; one of them may be removed or changed between two runs. *)
EXTENDS Lifecycle

MCPython == {1, 2}
MCOne    == {1}
MCTwo    == {1, 2}
AllVerbs == {"install", "upgrade", "uninstall", "status", "verify"}
OnlyInstall == {"install"}
AllEdits == {"package", "files", "receipt", "library"}
NoEdits  == {}

=============================================================================
