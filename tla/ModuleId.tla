------------------------------ MODULE ModuleId ------------------------------
(***************************************************************************)
(* Module identifiers of XJSModuleManager and how -resolveModuleId: turns  *)
(* the id a caller wrote into the key of the module tables.                *)
(*                                                                         *)
(* An id is the sequence of its path components ("a/../b" is the sequence  *)
(* <<"a", "..", "b">>), already trimmed of white space; the empty string   *)
(* is <<>> and an absolute path starts with the component "/".             *)
(***************************************************************************)
EXTENDS Sequences, SequencesExt

CONSTANT DotName   \* names that begin with a dot (".hidden"); all other names do not

ASSUME DotNameAssumption == DotName \cap {".", "..", "/"} = {}

\* -[NSString stringByDeletingLastPathComponent]: "" and "/" are fixed points.
DeleteLast(path) == IF path \in {<<>>, <<"/">>} THEN path ELSE Front(path)

\* [moduleId hasPrefix:@"."]: true of ".", ".." and of every dot name.
IsRelative(raw) == raw # <<>> /\ Head(raw) \in {".", ".."} \cup DotName

\* Two wrong turns: one that lets ".." pile up, one that drops a leading "..".
AddComponentPilingUp(path, c) ==
  IF c = "." THEN path
  ELSE IF c = ".." /\ path # <<>> /\ Last(path) # ".." THEN DeleteLast(path)
  ELSE Append(path, c)

AddComponentFromRoot(path, c) ==
  IF c = "." THEN path ELSE IF c = ".." THEN DeleteLast(path) ELSE Append(path, c)

\* One turn of the loop over the path components.
AddComponent(path, c) ==
  IF c = "." THEN path
  ELSE IF c = ".." /\ path # <<>> THEN DeleteLast(path)
  ELSE Append(path, c)

Normalize(components) == FoldLeft(AddComponent, <<>>, components)

\* A resolution that forgets to ask whether the id is relative.
ResolveAlwaysRelative(raw, current) == Normalize(DeleteLast(current) \o raw)

\* The whole method; `current` is [_stack lastObject], <<>> when the stack is empty.
Resolve(raw, current) ==
  Normalize(IF IsRelative(raw) THEN DeleteLast(current) \o raw ELSE raw)
=============================================================================
