----------------------------- MODULE MCEditors -----------------------------
(***************************************************************************)
(* Two items, one canvas with two steps of undo, one script.  The items    *)
(* are interchangeable; with liveness checked no symmetry is used.         *)
(***************************************************************************)
EXTENDS Editors

AllButScriptPuts ==
    {"canvas", "script"} \X {"put", "add", "remove"} \ {<<"script", "put">>}
OneDoc == {{}}
ScriptPuts == {<<"script", "put">>}
=============================================================================
