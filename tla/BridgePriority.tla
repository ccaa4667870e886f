--------------------------- MODULE BridgePriority ---------------------------
(***************************************************************************)
(* Which bridges a relayer process tries, and in which order:              *)
(* resolve_bridge_priority of network_module/src/bridge_registry.rs, the   *)
(* relayers built by relayer_factory.rs, and the selection at the start of *)
(* main.rs.                                                                *)
(*                                                                         *)
(* A configuration is what the process finds when it starts: the           *)
(* environment variable BRIDGE_PRIORITY cut at its commas, the registry    *)
(* file, and the flag ENABLE_DUMMY_BRIDGE.  A written name is a member of  *)
(* DOMAIN Normalize; trimming and upper-casing map it to a name, or to     *)
(* NoName when nothing is left.                                            *)
(***************************************************************************)
EXTENDS Naturals, Sequences, SequencesExt

CONSTANTS
  Normalize,        \* written names -> names
  NoName,           \* the empty name
  DefaultPriority,  \* DEFAULT_BRIDGE_PRIORITY
  BuiltIn,          \* the bridges build_builtin_relayers always builds
  Dummy,            \* the bridge it builds on request
  Unset, NoFile, BadFile

ASSUME NameAssumption ==
  /\ Dummy \notin BuiltIn /\ NoName \notin BuiltIn \cup {Dummy}
  /\ DefaultPriority \in Seq(BuiltIn) \ {<< >>}
  /\ \A i, j \in DOMAIN DefaultPriority :
       DefaultPriority[i] = DefaultPriority[j] => i = j
  /\ Unset \notin Seq(DOMAIN Normalize)

NormalizedNames(written) ==
  FoldLeft(LAMBDA names, name :
             IF Normalize[name] = NoName THEN names
             ELSE Append(names, Normalize[name]),
           << >>, written)

\* A value that is blank as a whole counts as unset; one that consists of
\* commas does not.
EnvironmentDecides(env) ==
  env # Unset /\ ~(Len(env) = 1 /\ Normalize[env[1]] = NoName)

Mutant_DisabledListed(file) ==
  IF file.priority # Unset THEN NormalizedNames(file.priority)
  ELSE IF file.bridges # Unset
    THEN NormalizedNames([i \in DOMAIN file.bridges |-> file.bridges[i].name])
  ELSE << >>

Enabled(entries) ==
  FoldLeft(LAMBDA on, entry : IF entry.enabled THEN Append(on, entry.name) ELSE on,
           << >>, entries)

\* "priority" hides "bridges" even when it is empty.
ListedInFile(file) ==
  IF file.priority # Unset THEN NormalizedNames(file.priority)
  ELSE IF file.bridges # Unset THEN NormalizedNames(Enabled(file.bridges))
  ELSE << >>

ResolveBridgePriority(c) ==
  IF EnvironmentDecides(c.env) THEN NormalizedNames(c.env)
  ELSE IF c.file = NoFile \/ ListedInFile(c.file) = << >> THEN DefaultPriority
  ELSE ListedInFile(c.file)

Available(c) == BuiltIn \cup (IF c.dummy THEN {Dummy} ELSE {})

Mutant_RepeatsKept(c) ==
  SelectSeq(ResolveBridgePriority(c), LAMBDA name : name \in Available(c))

\* Each listed name takes its relayer out of the map of available ones: an
\* unknown name and a second mention find none.
SelectRelayers(c) ==
  FoldLeft(LAMBDA taken, name :
             IF name \in Available(c) \ ToSet(taken)
               THEN Append(taken, name) ELSE taken,
           << >>, ResolveBridgePriority(c))

\* The process ends at once if the file is unreadable or no bridge is left.
Starts(c) ==
  /\ EnvironmentDecides(c.env) \/ c.file # BadFile
  /\ SelectRelayers(c) # << >>
=============================================================================
