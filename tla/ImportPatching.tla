--------------------------- MODULE ImportPatching ---------------------------
(***************************************************************************)
(* How the monitors get between the program and the runtime libraries:     *)
(* loader_t, iat_patching and the detour of LdrpCallInitRoutine.  Modules  *)
(* come and go; before the init routine of a module runs, the import       *)
(* tables of all loaded modules are gone through and every import of a     *)
(* monitored function is led to its monitor.  At the end all of them are   *)
(* led back and the monitors are deleted.                                  *)
(*                                                                         *)
(* All of it runs under the loader lock, so a call is one step.  An        *)
(* address is a place and a function: two libraries at one place have no   *)
(* address in common.  The Windows loader is external.                     *)
(***************************************************************************)
EXTENDS FiniteSets

CONSTANTS Libraries,     \* the runtime libraries with monitored functions
          Modules,       \* what imports from them: the executable, dlls
          Functions,     \* m_functions_to_patch
          Library,       \* function_to_patch_t::m_module_name
          Type,          \* function_to_patch_t::m_function_type
          Imports,       \* the functions each module imports
          Known,         \* modules in m_global_blacklisted_modules or of Microsoft
          Blacklist,     \* by type, m_blacklist_modules_...
          Places,        \* base addresses
          BugInsight,    \* where the monitors are
          Null

Types == {"memory_leak", "deadlock"}

ASSUME PatchingAssumption ==
    /\ BugInsight \notin Places /\ Null \notin Places
    /\ Null \notin (Places \cup {BugInsight}) \X Functions
    /\ Library \in [Functions -> Libraries]
    /\ Type \in [Functions -> Types]
    /\ Imports \in [Modules -> SUBSET Functions]
    /\ Known \subseteq Modules
    /\ Blacklist \in [Types -> SUBSET Modules]

VARIABLES base,          \* where a runtime library is loaded, or Null
          state,         \* of a module: unloaded, mapped (init routine to come), ready
          slot,          \* IMAGE_THUNK_DATA of an import, Null if there is none
          module_handle, \* function_to_patch_t::m_module_handle
          orginal,       \* *function_to_patch_t::m_orginal
          phase          \* of g_loader: starting, running, reporting, down

vars == <<base, state, slot, module_handle, orginal, phase>>

\* find_real_code follows the jumps an address leads to; here none does.
Code(p, f) == <<p, f>>
Monitor(f) == <<BugInsight, f>>                            \* m_replacement
Addresses  == (Places \cup {BugInsight}) \X Functions
Loaded     == {m \in Modules : state[m] # "unloaded"}

\* GetProcAddress of a handle that is still or again that of f's library.
GetProcAddress(h, f) == IF base[Library[f]] = h /\ h # Null THEN Code(h, f) ELSE Null

Init == /\ base = [l \in Libraries |-> Null]
        /\ state = [m \in Modules |-> "unloaded"]
        /\ slot = [m \in Modules |-> [f \in Functions |-> Null]]
        /\ module_handle = [f \in Functions |-> Null]
        /\ orginal = [f \in Functions |-> Null]
        /\ phase = "starting"

-----------------------------------------------------------------------------
(* The Windows loader.                                                     *)

LoadLibrary(l, p) ==
    /\ base[l] = Null
    /\ \A k \in Libraries : base[k] # p
    /\ base' = [base EXCEPT ![l] = p]
    /\ UNCHANGED <<state, slot, module_handle, orginal, phase>>

\* A library goes when nobody imports from it any more.
UnloadLibrary(l) ==
    /\ base[l] # Null
    /\ \A m \in Loaded : \A f \in Imports[m] : Library[f] # l
    /\ base' = [base EXCEPT ![l] = Null]
    /\ UNCHANGED <<state, slot, module_handle, orginal, phase>>

\* The module is mapped and its imports are resolved.
MapModule(m) ==
    /\ state[m] = "unloaded"
    /\ \A f \in Imports[m] : base[Library[f]] # Null
    /\ state' = [state EXCEPT ![m] = "mapped"]
    /\ slot' = [slot EXCEPT ![m] = [f \in Functions |->
                   IF f \in Imports[m] THEN Code(base[Library[f]], f) ELSE Null]]
    /\ UNCHANGED <<base, module_handle, orginal, phase>>

UnmapModule(m) ==
    /\ state[m] = "ready"
    /\ state' = [state EXCEPT ![m] = "unloaded"]
    /\ slot' = [slot EXCEPT ![m] = [f \in Functions |-> Null]]
    /\ UNCHANGED <<base, module_handle, orginal, phase>>

-----------------------------------------------------------------------------
(* patch_loaded_modules and patch_iat                                      *)

\* set_module_base of the libraries that are loaded now; a handle is never
\* taken back.
Handles == [f \in Functions |-> IF base[Library[f]] # Null THEN base[Library[f]]
                                                           ELSE module_handle[f]]

\* The module is gone through, with the functions of this type.
Enabled(m, f) == m \notin Known /\ m \notin Blacklist[Type[f]]

\* Mutants: an import is known by the address the library exports now; only
\* the first import is looked for.
IsForPatchingByName(f, a) == a # Null /\ GetProcAddress(Handles[f], f) = a
IsForPatchingOnce(f, a)   == orginal[f] = Null /\ a # Null /\ GetProcAddress(Handles[f], f) = a

\* patch_iat, p_revert_patch = false: is a the address of function f?
IsForPatching(f, a) ==
    /\ Handles[f] # Null
    /\ a # Null
    /\ IF orginal[f] # Null THEN orginal[f] = a ELSE GetProcAddress(Handles[f], f) = a

\* Mutant: the import is led back by the address it was patched from.
IsForRevertingByAddress(f, a) == a # Null /\ a = orginal[f]

\* patch_iat, p_revert_patch = true
IsForReverting(f, a) ==
    /\ Handles[f] # Null
    /\ orginal[f] # Null
    /\ a = Monitor(f)

\* Mutant: a function that was found once keeps its original and is matched by
\* name all the same.
PatchLoadedModulesStale ==
    LET hit(m, f) == m \in Loaded /\ Enabled(m, f) /\ IsForPatchingByName(f, slot[m][f])
    IN /\ module_handle' = Handles
       /\ slot' = [m \in Modules |-> [f \in Functions |->
                     IF hit(m, f) THEN Monitor(f) ELSE slot[m][f]]]
       /\ orginal' = [f \in Functions |->
                     IF orginal[f] = Null /\ \E m \in Modules : hit(m, f)
                     THEN slot[CHOOSE m \in Modules : hit(m, f)][f] ELSE orginal[f]]

PatchLoadedModules ==
    LET hit(m, f) == m \in Loaded /\ Enabled(m, f) /\ IsForPatching(f, slot[m][f])
    IN /\ module_handle' = Handles
       /\ slot' = [m \in Modules |-> [f \in Functions |->
                     IF hit(m, f) THEN Monitor(f) ELSE slot[m][f]]]
       /\ orginal' = [f \in Functions |->
                     IF \E m \in Modules : hit(m, f)
                     THEN slot[CHOOSE m \in Modules : hit(m, f)][f] ELSE orginal[f]]

UnpatchLoadedModules ==
    LET hit(m, f) == m \in Loaded /\ Enabled(m, f) /\ IsForReverting(f, slot[m][f])
    IN /\ module_handle' = Handles
       /\ slot' = [m \in Modules |-> [f \in Functions |->
                     IF hit(m, f) THEN orginal[f] ELSE slot[m][f]]]
       /\ UNCHANGED orginal

-----------------------------------------------------------------------------
(* loader_t and MyLdrpCallInitRoutine                                      *)

\* The constructor: BugInsight is the first import of the executable, so no
\* init routine of another module has run.
Start ==
    /\ phase = "starting"
    /\ PatchLoadedModules
    /\ phase' = "running"
    /\ UNCHANGED <<base, state>>

\* During the report dbghelp loads modules, which are of Microsoft.
InitRoutine(m) ==
    /\ state[m] = "mapped"
    /\ \/ /\ m \in Known /\ phase \in {"running", "reporting"}
          /\ UNCHANGED <<slot, module_handle, orginal>>
       \/ /\ m \notin Known /\ phase = "running"
          /\ PatchLoadedModules
    /\ state' = [state EXCEPT ![m] = "ready"]
    /\ UNCHANGED <<base, phase>>

\* The destructor: the monitors are deleted as soon as nothing leads to them.
Shutdown ==
    /\ phase = "running"
    /\ UnpatchLoadedModules
    /\ phase' = "reporting"
    /\ UNCHANGED <<base, state>>

\* ... up to TerminateProcess or the end of the process.
Finish ==
    /\ phase = "reporting"
    /\ phase' = "down"
    /\ UNCHANGED <<base, state, slot, module_handle, orginal>>

Loading == \/ \E l \in Libraries : UnloadLibrary(l) \/ \E p \in Places : LoadLibrary(l, p)
           \/ \E m \in Modules : MapModule(m) \/ UnmapModule(m)
Next == \/ phase # "down" /\ Loading
        \/ \E m \in Modules : InitRoutine(m)
        \/ Start \/ Shutdown \/ Finish

Spec == Init /\ [][Next]_vars

-----------------------------------------------------------------------------
TypeOK == /\ base \in [Libraries -> Places \cup {Null}]
          /\ state \in [Modules -> {"unloaded", "mapped", "ready"}]
          /\ slot \in [Modules -> [Functions -> Addresses \cup {Null}]]
          /\ module_handle \in [Functions -> Places \cup {Null}]
          /\ orginal \in [Functions -> (Places \X Functions) \cup {Null}]
          /\ phase \in {"starting", "running", "reporting", "down"}

\* The address at which an import has to end.
Real(f) == Code(base[Library[f]], f)

(* A module whose init routine has run has every import of an enabled      *)
(* function led to its monitor, whatever was loaded before, after and in   *)
(* between; the one exception is a library that was unloaded after its     *)
(* functions were found and came back at another place.                    *)
ReadyModulesAreMonitored ==
    phase = "running" =>
        \A m \in Modules, f \in Functions :
            state[m] = "ready" /\ f \in Imports[m] /\ Enabled(m, f) =>
                slot[m][f] = Monitor(f) \/ orginal[f] \notin {Null, Real(f)}

(* A monitor that can be called passes the call on to the function the     *)
(* module has imported, never into a library that is gone and never to     *)
(* itself.                                                                 *)
MonitorsCallTheirFunction ==
    \A m \in Loaded, f \in Functions : slot[m][f] = Monitor(f) => orginal[f] = Real(f)

(* The threads of the program call through m_orginal at any time and       *)
(* without a lock: once it is set it never changes, also when its library  *)
(* comes back elsewhere.                                                   *)
OriginalsNeverChange ==
    [][\A f \in Functions : orginal[f] # Null => orginal'[f] = orginal[f]]_vars

(* The monitors are deleted when the modules have been led back: no import *)
(* leads to one, and each leads to its function again.                     *)
NothingLeadsToDeletedMonitors ==
    phase \in {"reporting", "down"} =>
        \A m \in Loaded : \A f \in Imports[m] : slot[m][f] = Real(f)

=============================================================================
