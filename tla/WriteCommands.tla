--------------------------- MODULE WriteCommands ---------------------------
(***************************************************************************)
(* The mutating commands of commands.rb: for each, which parts of its      *)
(* target it edits and which of them it reads back.                        *)
(***************************************************************************)
EXTENDS WriteContract

(* Inside with_operation, changes something that exists, describes it after. *)
Changes == [kind |-> "change", wrapped |-> TRUE, summary |-> TRUE,
            optional |-> {}, keeps |-> {}, edits |-> <<>>, reads |-> <<>>]

Creates == [Changes EXCEPT !.kind = "create"]

Removes == [Changes EXCEPT !.kind = "remove", !.summary = FALSE,
                           !.edits = <<"item">>, !.reads = <<"item">>]

InPlace == [Changes EXCEPT !.wrapped = FALSE, !.summary = FALSE]

(* Fault: the read-back of a new box stops after the name. *)
BugAddBox == [Creates EXCEPT !.edits = <<"item", "name", "origin", "extents">>,
                             !.reads = <<"item", "name">>]

AddBox == [Creates EXCEPT !.edits = <<"item", "name", "origin", "extents">>,
                          !.reads = <<"item", "name", "extents">>]

AddCylinder == [Creates EXCEPT !.edits = <<"item", "name", "origin", "extents">>,
                               !.reads = <<"item", "name", "extents">>]

(* add_group; of the members only their number is read back. *)
Group == [Creates EXCEPT !.edits = <<"item", "members", "name">>,
                         !.reads = <<"item", "name", "members">>]

Transform == [Changes EXCEPT !.edits = <<"scale", "turn", "centre">>,
                             !.reads = <<"centre">>]

Rename == [Changes EXCEPT !.edits = <<"name", "item">>, !.keeps = {"item"},
                          !.reads = <<"item", "name">>]

Erase == Removes

(* Only `replace` deselects; the read-back accepts a larger selection. *)
Select == [InPlace EXCEPT !.edits = <<"deselected", "selected">>,
                          !.optional = {"deselected"}, !.reads = <<"selected">>]

CreateMaterial ==
  [Creates EXCEPT !.edits = <<"item", "color", "alpha", "texture">>,
                  !.optional = {"color", "alpha", "texture"},
                  !.reads = <<"item", "color", "alpha", "texture">>]

UpdateMaterial ==
  [Changes EXCEPT !.edits = <<"name", "cleared", "color", "alpha", "texture">>,
                  !.optional = {"name", "cleared", "color", "alpha", "texture"},
                  !.keeps = {"name"},
                  !.reads = <<"name", "color", "alpha", "cleared", "texture">>]

AssignMaterial ==
  [Changes EXCEPT !.edits = <<"front", "back">>, !.optional = {"front", "back"},
                  !.reads = <<"front", "back">>]

RemoveMaterial == Removes

CreateScene ==
  [Creates EXCEPT !.edits = <<"item", "description", "animation">>,
                  !.optional = {"description", "animation"},
                  !.reads = <<"item", "description">>]

(* Fault: an update reads the name back only when it set one. *)
BugUpdateScene ==
  [Changes EXCEPT !.edits = <<"name", "description", "animation", "view">>,
                  !.optional = {"name", "description", "animation", "view"},
                  !.reads = <<"name", "description">>]

UpdateScene ==
  [Changes EXCEPT !.edits = <<"name", "description", "animation", "view">>,
                  !.optional = {"name", "description", "animation", "view"},
                  !.keeps = {"name"},
                  !.reads = <<"name", "description">>]

RemoveScene == Removes

CreateTag == [Creates EXCEPT !.edits = <<"item", "visible">>, !.optional = {"visible"},
                             !.reads = <<"item", "visible">>]

AssignTag == [Changes EXCEPT !.edits = <<"layer">>, !.reads = <<"layer">>]

RemoveTag == Removes

(* These three write files and save clears the model's modified flag. *)
Save     == [InPlace EXCEPT !.edits = <<"file", "saved">>, !.reads = <<"file", "saved">>]

SaveCopy == [InPlace EXCEPT !.edits = <<"file">>, !.reads = <<"file">>]

Export   == [InPlace EXCEPT !.edits = <<"file">>, !.reads = <<"file">>]

(* Reads back that the root has no fewer entities, not that any came. *)
Import == [InPlace EXCEPT !.edits = <<"contents", "kept">>, !.keeps = {"kept"},
                          !.reads = <<"kept">>]

Commands ==
  {AddBox, AddCylinder, Group, Transform, Rename, Erase, Select,
   CreateMaterial, UpdateMaterial, AssignMaterial, RemoveMaterial,
   CreateScene, UpdateScene, RemoveScene, CreateTag, AssignTag, RemoveTag,
   Save, SaveCopy, Export, Import}

(* COMMANDS: the extension executes no other mutating command. *)
ASSUME CommandMapAssumption == Command \subseteq Commands

----------------------------------------------------------------------------

(* What no read-back compares, and what one only looks for or counts. *)
Unproven == {"origin", "turn", "scale", "animation", "view", "deselected", "contents"}
              \cup Unidentified

(* The strength of the read-backs, over the whole command map: after a       *)
(* reported success everything that was asked for is in the model, except    *)
(* possibly the named parts, which no command proves.                        *)
SuccessIsTheChange ==
  outcome = "success" =>
    \A p \in DOMAIN want \ Unproven : doc[Target(p)] = want[p]

(* write_contract.py:3-4: what the read-backs exist to eliminate is "reported *)
(* success, model unchanged".  A reported success that asked for something   *)
(* the target did not have yet has changed the target.                       *)
NoSilentFailure ==
  outcome = "success" /\ (\E p \in DOMAIN want : want[p] # before[Target(p)])
    => doc # before
=============================================================================
