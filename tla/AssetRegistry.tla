----------------------------- MODULE AssetRegistry -----------------------------
(***************************************************************************)
(* The registries (assets/asset_registry.py, register.py), filled lazily:  *)
(* the first look-up, or the first class a library decorates, imports all  *)
(* libraries, and the libraries import one another.  An import runs a      *)
(* module's statements once; a module that is being imported counts as     *)
(* imported, with the names it has bound so far.                           *)
(*                                                                         *)
(* eval_runner.py reloads every module before each job                     *)
(* (utils/reload_modules.py): their statements run again in the order in   *)
(* which the imports had ended, so every class of the module and every     *)
(* registry exists again, and a module that took a class from another      *)
(* holds the one that was there when it ran.                               *)
(*                                                                         *)
(* A statement is <<"import", m>>, <<"from", m>> (takes a name that m      *)
(* binds at its "bind"), <<"bind", m>> or <<"decorate", m>>: m's classes,  *)
(* none of which imports anything after the first.                         *)
(***************************************************************************)
EXTENDS Embodiments

CONSTANT MaxLoads   \* how often a module is loaded or reloaded

VARIABLES loaded,      \* the modules of sys.modules whose import ended, in that order
          generation,  \* how often each module has bound its names
          holds,       \* the generation of n's names that m holds, at <<m, n>>
          registered,  \* which generation of the registries holds the classes of which module
          flag,        \* _assets_registered
          stack,       \* what is being executed, the innermost last
          outcome      \* "ok" or "ImportError"

registryVars == <<loaded, generation, holds, registered, flag, stack, outcome>>

Libraries == <<"background_library", "device_library", "hdr_image_library",
               "object_library", "retargeter_library", "embodiments", "policy">>
RobotModules == <<"agibot", "droid", "franka", "g1", "galbot", "gr1t2">>

From(m) == <<"from", m>>
Import(m) == <<"import", m>>

\* A wrong form: the classes before the name the others take.
ObjectLibraryBindsLast ==
   <<From("object"), From("register"), <<"decorate", "object_library">>, <<"bind", "object_library">>>>

ObjectLibrary ==
   <<From("object"), From("register"), <<"bind", "object_library">>, <<"decorate", "object_library">>>>

\* The statements of each module, as far as they matter to one another.  A
\* decorated class binds nothing that another module takes, save FrankaMimicEnv,
\* which comes after Franka's decorated classes.
Statements(m) ==
   CASE m \in {"asset_registry", "object"} -> <<<<"bind", m>>>>
     [] m = "register" -> <<From("asset_registry"), <<"bind", m>>>>
     [] m = "object_library" -> ObjectLibrary
     [] m = "background_library" -> <<From("object"), From("object_library"), From("register"),
                                      <<"decorate", m>>>>
     [] m = "hdr_image_library" -> <<From("object_library"), From("register"), <<"decorate", m>>>>
     [] m = "embodiments" -> [i \in 1 .. Len(RobotModules) |-> Import(RobotModules[i])]
     [] m = "agibot" -> <<From("register"), From("franka"), <<"decorate", m>>>>
     [] m = "droid" -> <<From("object_library"), From("register"), From("franka"), <<"decorate", m>>>>
     [] m = "franka" -> <<From("object_library"), From("register"), <<"decorate", m>>, <<"bind", m>>>>
     [] m = "arena_env_builder" -> <<From("asset_registry"), From("object"), Import("embodiments")>>
     [] OTHER -> <<From("register"), <<"decorate", m>>>>

Modules == {Libraries[i] : i \in DOMAIN Libraries} \cup
           {RobotModules[i] : i \in DOMAIN RobotModules} \cup
           {"asset_registry", "register", "object", "arena_env_builder"}

Policies == {"zero_action", "replay", "rsl_rl"}

\* The names a module registers; a retargeter has the device's and the embodiment's.
Registers(m) ==
   CASE m = "object_library" -> Objects
     [] m = "background_library" -> Backgrounds
     [] m = "hdr_image_library" -> Hdrs
     [] m = "device_library" -> Devices
     [] m = "policy" -> Policies
     [] m = "agibot" -> {"agibot"}
     [] m = "galbot" -> {"galbot"}
     [] m = "droid" -> Droids
     [] m = "franka" -> Frankas
     [] m = "g1" -> G1s
     [] m = "gr1t2" -> GR1s
     [] OTHER -> {}

Decorated == {m \in Modules : \E i \in DOMAIN Statements(m) : Statements(m)[i][1] = "decorate"}
Edges == {e \in Modules \X Modules :
             \E i \in DOMAIN Statements(e[1]) : Statements(e[1])[i] = From(e[2])}

RegistryInit ==
   /\ loaded = <<>>
   /\ generation = [m \in Modules |-> 0]
   /\ holds = [e \in Edges |-> 0]
   /\ registered = {}
   /\ flag = FALSE
   /\ stack = <<>>
   /\ outcome = "ok"
-----------------------------------------------------------------------------
(* Frames *)

\* A frame runs a sequence of statements: a module's, those of
\* ensure_assets_registered, or the reloads.
Frame(name, statements) == [name |-> name, code |-> statements, next |-> 1]

\* The imports of ensure_assets_registered, and the flag after them.
Ensure == Frame("ensure", Append([i \in 1 .. Len(Libraries) |-> Import(Libraries[i])],
                                 <<"flag", "asset_registry">>))

Top == stack[Len(stack)]
Idle == stack = <<>>
Executing(kind) == stack /= <<>> /\ Top.next <= Len(Top.code) /\ Top.code[Top.next][1] = kind
Operand == Top.code[Top.next][2]

Loaded(m) == \E i \in DOMAIN loaded : loaded[i] = m
OnStack(m) == \E i \in DOMAIN stack : stack[i].name = m
InSysModules(m) == Loaded(m) \/ OnStack(m)

\* The stack once the statement has run.
Advanced == [stack EXCEPT ![Len(stack)].next = @ + 1]

\* Which registries register.py holds, and which exist now.
Held == holds[<<"register", "asset_registry">>]
Current == generation["asset_registry"]
-----------------------------------------------------------------------------
(* Statements *)

ImportStatement ==
   /\ Executing("import") \/ Executing("from")
   /\ ~InSysModules(Operand)
   /\ stack' = Append(stack, Frame(Operand, Statements(Operand)))
   /\ UNCHANGED <<loaded, generation, holds, registered, flag, outcome>>

\* The module is there, perhaps in the middle of its own import.
ImportDone ==
   /\ Executing("import")
   /\ InSysModules(Operand)
   /\ stack' = Advanced
   /\ UNCHANGED <<loaded, generation, holds, registered, flag, outcome>>

\* Takes the name; ImportError when the module has not bound it yet.
FromDone ==
   /\ Executing("from")
   /\ InSysModules(Operand)
   /\ IF generation[Operand] = 0
      THEN outcome' = "ImportError" /\ stack' = <<>> /\ UNCHANGED holds
      ELSE /\ holds' = [holds EXCEPT ![<<Top.name, Operand>>] = generation[Operand]]
           /\ stack' = Advanced
           /\ UNCHANGED outcome
   /\ UNCHANGED <<loaded, generation, registered, flag>>

\* The registries' module makes new registries and clears the flag.
Bind ==
   /\ Executing("bind")
   /\ generation' = [generation EXCEPT ![Operand] = @ + 1]
   /\ flag' = IF Operand = "asset_registry" THEN FALSE ELSE flag
   /\ stack' = Advanced
   /\ UNCHANGED <<loaded, holds, registered, outcome>>

\* The decorator asks is_registered first, which imports all the libraries unless
\* the flag is set, or the registry is not of the classes there are now.
DecorateEnsures ==
   /\ Executing("decorate")
   /\ ~flag
   /\ Held = Current
   /\ stack' = Append(stack, Ensure)
   /\ UNCHANGED <<loaded, generation, holds, registered, flag, outcome>>

\* Then it registers what is not registered yet.
DecorateRegisters ==
   /\ Executing("decorate")
   /\ flag \/ Held /= Current
   /\ registered' = registered \cup {<<Held, Operand>>}
   /\ stack' = Advanced
   /\ UNCHANGED <<loaded, generation, holds, flag, outcome>>

SetFlag ==
   /\ Executing("flag")
   /\ flag' = TRUE
   /\ stack' = Advanced
   /\ UNCHANGED <<loaded, generation, holds, registered, outcome>>

\* importlib.reload of one module: it stays in sys.modules throughout.
ReloadStatement ==
   /\ Executing("reload")
   /\ stack' = Append(Advanced, Frame(Operand, Statements(Operand)))
   /\ UNCHANGED <<loaded, generation, holds, registered, flag, outcome>>

\* A module joins sys.modules for good as its import ends; one that was reloaded was
\* taken out of its place.
Ended(m) ==
   IF m \notin Modules THEN loaded
   ELSE IF Loaded(m) THEN Append(RemoveAt(loaded, CHOOSE i \in DOMAIN loaded : loaded[i] = m), m)
   ELSE Append(loaded, m)

Return ==
   /\ stack /= <<>>
   /\ Top.next > Len(Top.code)
   /\ loaded' = Ended(Top.name)
   /\ stack' = SubSeq(stack, 1, Len(stack) - 1)
   /\ UNCHANGED <<generation, holds, registered, flag, outcome>>
-----------------------------------------------------------------------------
(* What starts it *)

\* A look-up in a registry, or its is_registered or get_all_keys, by a program that has
\* imported asset_registry.
LookUp ==
   /\ Idle /\ outcome = "ok"
   /\ Loaded("asset_registry")
   /\ ~flag
   /\ stack' = <<Ensure>>
   /\ UNCHANGED <<loaded, generation, holds, registered, flag, outcome>>

\* The modules a program may import first: before a robot's module, Python imports
\* the package embodiments, and with it all robots.
Entries == Modules \ {RobotModules[i] : i \in DOMAIN RobotModules}

ImportModule(m) ==
   /\ Idle /\ outcome = "ok"
   /\ ~InSysModules(m)
   /\ stack' = <<Frame(m, Statements(m))>>
   /\ UNCHANGED <<loaded, generation, holds, registered, flag, outcome>>

\* Wrong forms: the deepest modules first, and the last imported first.
Reloads(modules) == [i \in 1 .. Len(modules) |-> <<"reload", modules[i]>>]
DeepestFirst ==
   LET Deep(m) == \E i \in DOMAIN RobotModules : RobotModules[i] = m
   IN  Reloads(SelectSeq(loaded, Deep) \o SelectSeq(loaded, LAMBDA m : ~Deep(m)))
LastFirst == Reloads([i \in 1 .. Len(loaded) |-> loaded[Len(loaded) + 1 - i]])

\* reload_arena_modules, over the modules as sys.modules orders them.
ReloadOrder == Reloads(loaded)

Reload ==
   /\ Idle /\ outcome = "ok"
   /\ loaded /= <<>>
   /\ \A m \in Modules : generation[m] < MaxLoads
   /\ stack' = <<Frame("reload_arena_modules", ReloadOrder)>>
   /\ UNCHANGED <<loaded, generation, holds, registered, flag, outcome>>

Statement == \/ ImportStatement \/ ImportDone \/ FromDone \/ Bind \/ DecorateEnsures
             \/ DecorateRegisters \/ SetFlag \/ ReloadStatement \/ Return

RegistryNext == Statement \/ LookUp \/ Reload \/ \E m \in Entries : ImportModule(m)
-----------------------------------------------------------------------------
(* Properties *)

\* A look-up finds everything: once ensure_assets_registered has run, or a program
\* has imported any of the libraries, every name of every library is in the
\* registries that exist now, though the flag is set by the innermost of the nested
\* calls, before the outer modules have registered theirs, and though every module
\* may have been reloaded since.
AllRegistered ==
   (Idle /\ outcome = "ok" /\ flag) =>
      {m \in Modules : <<Current, m>> \in registered} = Decorated

\* The libraries import one another, and never too early: no import takes a name
\* that the module has not bound yet, whichever module a program imports first
\* ("Lazy registration to avoid circular imports", asset_registry.py:221).
ImportsSucceed == outcome /= "ImportError"

\* No module keeps a class of a module as it was before the reload: ArenaEnvBuilder's
\* isinstance(asset, (Object, ObjectReference)) (arena_env_builder.py:60) would miss
\* every object of the library.  (What the others take of the object library is a
\* string.)
NoStaleClasses ==
   (Idle /\ outcome = "ok") =>
      \A e \in Edges : e[2] /= "object_library" => holds[e] \in {0, generation[e[2]]}
===============================================================================
