------------------------ MODULE ImportPatchingProofs ------------------------
(***************************************************************************)
(* Proofs about ImportPatching, for any libraries, modules, functions,     *)
(* places and blacklists.                                                  *)
(*                                                                         *)
(* What a monitor calls and what is monitored depend on each other: that   *)
(* an import is found a second time needs the original to be its real      *)
(* address, and that the original stays real needs every import to be at   *)
(* its real address or at a monitor.  PatchInv joins the two and adds in   *)
(* which phase a monitor can be met.                                       *)
(***************************************************************************)
EXTENDS ImportPatching, TLAPS

\* Where an import stands.
SlotIsSound(m, f) ==
    \/ /\ slot[m][f] = Null
       /\ state[m] = "unloaded" \/ f \notin Imports[m]
    \/ /\ state[m] # "unloaded" /\ f \in Imports[m]
       /\ base[Library[f]] # Null
       /\ \/ slot[m][f] = Real(f)
          \/ /\ slot[m][f] = Monitor(f)
             /\ orginal[f] = Real(f)
             /\ Enabled(m, f)
             /\ phase = "running"

SlotsAreSound  == \A m \in Modules, f \in Functions : SlotIsSound(m, f)
NoneReadyEarly == phase = "starting" => \A m \in Modules : state[m] # "ready"

PatchInv == TypeOK /\ SlotsAreSound /\ NoneReadyEarly /\ ReadyModulesAreMonitored

-----------------------------------------------------------------------------
(* The three kinds of address differ.                                      *)
LEMMA Different ==
    ASSUME NEW f \in Functions, NEW p \in Places
    PROVE  /\ Code(p, f) # Null /\ Monitor(f) # Null /\ Code(p, f) # Monitor(f)
           /\ Code(p, f) \in Places \X Functions
           /\ Code(p, f) \in Addresses /\ Monitor(f) \in Addresses
           /\ Monitor(f) \notin Places \X Functions
           /\ Library[f] \in Libraries
<1>1. Code(p, f) \in Places \X Functions /\ Monitor(f) = <<BugInsight, f>>
  BY DEF Code, Monitor
<1>2. Code(p, f) \in Addresses /\ Monitor(f) \in Addresses
  BY <1>1 DEF Addresses
<1> QED BY <1>1, <1>2, PatchingAssumption DEF Addresses, Code

LEMMA PatchInvInit == Init => PatchInv
BY DEF Init, PatchInv, TypeOK, SlotsAreSound, SlotIsSound, NoneReadyEarly,
       ReadyModulesAreMonitored

(* What PatchLoadedModules does with one import.                           *)
Patched(m, f) == /\ slot'[m][f] = Monitor(f)
                 /\ orginal'[f] = Real(f)
                 /\ slot[m][f] = Real(f)
                 /\ base[Library[f]] # Null
                 /\ m \in Loaded /\ f \in Imports[m] /\ Enabled(m, f)

LEMMA PatchedSlots ==
    ASSUME PatchInv, PatchLoadedModules
    PROVE  /\ module_handle' \in [Functions -> Places \cup {Null}]
           /\ slot' \in [Modules -> [Functions -> Addresses \cup {Null}]]
           /\ orginal' \in [Functions -> (Places \X Functions) \cup {Null}]
           /\ \A f \in Functions : orginal[f] # Null => orginal'[f] = orginal[f]
           /\ \A m \in Modules, f \in Functions :
                /\ \/ slot'[m][f] = slot[m][f]
                   \/ Patched(m, f)
                /\ m \in Loaded /\ f \in Imports[m] /\ Enabled(m, f) =>
                      slot'[m][f] = Monitor(f) \/ orginal'[f] \notin {Null, Real(f)}
<1> DEFINE hit(m, f) == m \in Loaded /\ Enabled(m, f) /\ IsForPatching(f, slot[m][f])
<1> USE DEF PatchInv
<1>1. /\ module_handle' = Handles
      /\ slot' = [m \in Modules |-> [f \in Functions |->
                     IF hit(m, f) THEN Monitor(f) ELSE slot[m][f]]]
      /\ orginal' = [f \in Functions |->
                     IF \E m \in Modules : hit(m, f)
                     THEN slot[CHOOSE m \in Modules : hit(m, f)][f] ELSE orginal[f]]
  BY DEF PatchLoadedModules
<1>2. \A f \in Functions : Library[f] \in Libraries
  BY PatchingAssumption
<1>3. Handles \in [Functions -> Places \cup {Null}]
  BY <1>2 DEF Handles, TypeOK
<1>4. \A m \in Modules, f \in Functions :
         hit(m, f) => /\ f \in Imports[m] /\ base[Library[f]] \in Places
                      /\ slot[m][f] = Real(f)
                      /\ orginal[f] = Null \/ orginal[f] = Real(f)
  <2> SUFFICES ASSUME NEW m \in Modules, NEW f \in Functions, hit(m, f)
               PROVE  /\ f \in Imports[m] /\ base[Library[f]] \in Places
                      /\ slot[m][f] = Real(f)
                      /\ orginal[f] = Null \/ orginal[f] = Real(f)
    OBVIOUS
  <2>1. SlotIsSound(m, f) /\ slot[m][f] # Null
    BY DEF SlotsAreSound, IsForPatching
  <2>2. f \in Imports[m] /\ base[Library[f]] \in Places
    BY <1>2, <2>1 DEF SlotIsSound, TypeOK
  <2>3. slot[m][f] # Monitor(f)
    <3>1. CASE orginal[f] # Null
      BY <2>2, <3>1, Different DEF IsForPatching, TypeOK
    <3>2. CASE orginal[f] = Null
      BY <2>1, <2>2, <3>2, Different DEF SlotIsSound, Real
    <3> QED BY <3>1, <3>2
  <2> QED BY <2>1, <2>2, <2>3 DEF SlotIsSound, IsForPatching
<1>5. \A f \in Functions : /\ orginal'[f] = orginal[f] \/ orginal'[f] = Real(f)
                           /\ orginal[f] # Null => orginal'[f] = orginal[f]
                           /\ orginal'[f] \in (Places \X Functions) \cup {Null}
                           /\ (\E m \in Modules : hit(m, f)) => orginal'[f] = Real(f)
  <2> SUFFICES ASSUME NEW f \in Functions
               PROVE  /\ orginal'[f] = orginal[f] \/ orginal'[f] = Real(f)
                      /\ orginal[f] # Null => orginal'[f] = orginal[f]
                      /\ orginal'[f] \in (Places \X Functions) \cup {Null}
                      /\ (\E m \in Modules : hit(m, f)) => orginal'[f] = Real(f)
    OBVIOUS
  <2> HIDE DEF hit
  <2>1. CASE \E m \in Modules : hit(m, f)
    <3> DEFINE c == CHOOSE m \in Modules : hit(m, f)
    <3>1. c \in Modules /\ hit(c, f)
      BY <2>1
    <3>2. orginal'[f] = slot[c][f]
      BY <1>1, <2>1
    <3> HIDE DEF c
    <3> QED BY <1>4, <3>1, <3>2, Different DEF Real
  <2>2. CASE ~ \E m \in Modules : hit(m, f)
    BY <1>1, <2>2 DEF TypeOK
  <2> QED BY <2>1, <2>2
<1>6. orginal' \in [Functions -> (Places \X Functions) \cup {Null}]
  <2> HIDE DEF hit
  <2>1. orginal' = [f \in Functions |-> orginal'[f]]
    BY <1>1
  <2> QED BY <1>5, <2>1
<1>7. \A m \in Modules, f \in Functions :
         /\ hit(m, f) => slot'[m][f] = Monitor(f)
         /\ ~hit(m, f) => slot'[m][f] = slot[m][f]
  <2> HIDE DEF hit
  <2> QED BY <1>1
<1>8. slot' \in [Modules -> [Functions -> Addresses \cup {Null}]]
  <2>1. \A f \in Functions : Monitor(f) \in Addresses
    BY DEF Monitor, Addresses
  <2> HIDE DEF hit
  <2> QED BY <1>1, <2>1 DEF TypeOK
<1>9. ASSUME NEW m \in Modules, NEW f \in Functions,
             m \in Loaded, f \in Imports[m], Enabled(m, f)
      PROVE  slot'[m][f] = Monitor(f) \/ orginal'[f] \notin {Null, Real(f)}
  <2>1. /\ base[Library[f]] \in Places
        /\ \/ slot[m][f] = Real(f)
           \/ slot[m][f] = Monitor(f)
    BY <1>2, <1>9 DEF SlotsAreSound, SlotIsSound, Loaded, TypeOK
  <2>2. Handles[f] = base[Library[f]] /\ Handles[f] # Null
    BY <1>9, <2>1, PatchingAssumption DEF Handles
  <2>3. CASE slot[m][f] = Monitor(f)
    BY <1>7, <1>9, <2>3
  <2>4. CASE slot[m][f] = Real(f) /\ orginal[f] \in {Null, Real(f)}
    <3>1. IsForPatching(f, slot[m][f])
      BY <2>1, <2>2, <2>4, Different DEF IsForPatching, GetProcAddress, Real
    <3> QED BY <1>7, <1>9, <3>1
  <2>5. CASE orginal[f] \notin {Null, Real(f)}
    BY <1>5, <2>5
  <2> QED BY <2>1, <2>3, <2>4, <2>5
<1>10. ASSUME NEW m \in Modules, NEW f \in Functions
       PROVE  slot'[m][f] = slot[m][f] \/ Patched(m, f)
  <2>1. CASE hit(m, f)
    <3>1. m \in Loaded /\ Enabled(m, f)
      BY <2>1
    <3>2. base[Library[f]] # Null
      BY <1>4, <2>1, PatchingAssumption
    <3> HIDE DEF hit
    <3> QED BY <1>4, <1>5, <1>7, <2>1, <3>1, <3>2 DEF Patched
  <2>2. CASE ~hit(m, f)
    BY <1>7, <2>2
  <2> QED BY <2>1, <2>2
<1> HIDE DEF hit
<1> QED BY <1>1, <1>3, <1>5, <1>6, <1>8, <1>9, <1>10

(* The start and the init routine of a module keep PatchInv.               *)
LEMMA PatchingKeeps ==
    ASSUME PatchInv, PatchLoadedModules, UNCHANGED base,
           phase \in {"starting", "running"}, phase' = "running",
           state' \in [Modules -> {"unloaded", "mapped", "ready"}],
           \A m \in Modules : state'[m] = "unloaded" <=> state[m] = "unloaded"
    PROVE  PatchInv'
<1> USE DEF PatchInv
<1>1. TypeOK'
  BY PatchedSlots DEF TypeOK
<1>2. SlotsAreSound'
  <2> SUFFICES ASSUME NEW m \in Modules, NEW f \in Functions
               PROVE  SlotIsSound(m, f)'
    BY DEF SlotsAreSound
  <2>1. SlotIsSound(m, f) /\ Enabled(m, f)' = Enabled(m, f) /\ Real(f)' = Real(f)
        /\ Monitor(f)' = Monitor(f)
    BY DEF SlotsAreSound, Enabled, Real, Monitor, Code
  <2>2. CASE slot'[m][f] = slot[m][f]
    <3>1. base[Library[f]] # Null => Real(f) # Null
      BY PatchingAssumption, Different DEF Real, TypeOK, PatchInv
    <3>2. orginal[f] = Real(f) /\ base[Library[f]] # Null => orginal'[f] = Real(f)
      BY <3>1, PatchedSlots
    <3> QED BY <2>1, <2>2, <3>2 DEF SlotIsSound
  <2>3. CASE slot'[m][f] # slot[m][f]
    BY <2>1, <2>3, PatchedSlots DEF SlotIsSound, Loaded, Patched
  <2> QED BY <2>2, <2>3
<1>3. NoneReadyEarly'
  BY DEF NoneReadyEarly
<1>4. ReadyModulesAreMonitored'
  <2> SUFFICES ASSUME NEW m \in Modules, NEW f \in Functions,
                      state'[m] = "ready", f \in Imports[m], Enabled(m, f)
               PROVE  slot'[m][f] = Monitor(f) \/ orginal'[f] \notin {Null, Real(f)}
    BY DEF ReadyModulesAreMonitored, Enabled, Real, Monitor, Code
  <2>1. m \in Loaded
    BY DEF Loaded
  <2> QED BY <2>1, PatchedSlots
<1> QED BY <1>1, <1>2, <1>3, <1>4

LEMMA LibraryKeeps ==
    ASSUME PatchInv, NEW l \in Libraries,
           UnloadLibrary(l) \/ \E p \in Places : LoadLibrary(l, p)
    PROVE  PatchInv'
<1> USE DEF PatchInv
<1>1. PICK p \in Places \cup {Null} :
        /\ base' = [base EXCEPT ![l] = p]
        /\ UNCHANGED <<state, slot, module_handle, orginal, phase>>
  BY DEF UnloadLibrary, LoadLibrary
<1>3. \A m \in Modules, f \in Functions :
         state[m] # "unloaded" /\ f \in Imports[m] => base'[Library[f]] = base[Library[f]]
  <2> SUFFICES ASSUME NEW m \in Modules, NEW f \in Functions,
                      state[m] # "unloaded", f \in Imports[m]
               PROVE  base'[Library[f]] = base[Library[f]]
    OBVIOUS
  <2>1. SlotIsSound(m, f)
    BY DEF SlotsAreSound
  <2>2. base[Library[f]] # Null /\ Library[f] \in Libraries
    BY <2>1, PatchingAssumption DEF SlotIsSound
  <2>3. Library[f] # l
    BY <2>2 DEF UnloadLibrary, LoadLibrary, Loaded
  <2> QED BY <1>1, <2>2, <2>3 DEF TypeOK
<1>4. TypeOK'
  BY <1>1 DEF TypeOK
<1>5. SlotsAreSound'
  BY <1>1, <1>3 DEF SlotsAreSound, SlotIsSound, Real, Monitor, Enabled, Code
<1>6. NoneReadyEarly' /\ ReadyModulesAreMonitored'
  BY <1>1, <1>3 DEF NoneReadyEarly, ReadyModulesAreMonitored, Real, Monitor, Enabled, Code
<1> QED BY <1>4, <1>5, <1>6

(* A module comes with its imports resolved, or goes.                      *)
LEMMA ModuleKeeps ==
    ASSUME PatchInv, NEW k \in Modules, MapModule(k) \/ UnmapModule(k)
    PROVE  PatchInv'
<1> USE DEF PatchInv
<1>1. /\ state' \in [Modules -> {"unloaded", "mapped", "ready"}]
      /\ slot' \in [Modules -> [Functions -> Addresses \cup {Null}]]
      /\ UNCHANGED <<base, module_handle, orginal, phase>>
      /\ \A m \in Modules \ {k} : state'[m] = state[m] /\ slot'[m] = slot[m]
  <2>1. CASE MapModule(k)
    <3>1. [f \in Functions |-> IF f \in Imports[k] THEN Code(base[Library[f]], f) ELSE Null]
            \in [Functions -> Addresses \cup {Null}]
      BY <2>1, PatchingAssumption, Different DEF MapModule, TypeOK
    <3> QED BY <2>1, <3>1 DEF MapModule, TypeOK
  <2>2. CASE UnmapModule(k)
    BY <2>2 DEF UnmapModule, TypeOK
  <2> QED BY <2>1, <2>2
<1>2. TypeOK'
  BY <1>1 DEF TypeOK
<1>3. SlotsAreSound'
  <2> SUFFICES ASSUME NEW m \in Modules, NEW f \in Functions
               PROVE  SlotIsSound(m, f)'
    BY DEF SlotsAreSound
  <2>1. CASE m # k
    BY <1>1, <2>1 DEF SlotsAreSound, SlotIsSound, Real, Code, Monitor, Enabled
  <2>2. CASE m = k /\ MapModule(k)
    BY <1>1, <2>2 DEF MapModule, SlotIsSound, Real, Code, TypeOK
  <2>3. CASE m = k /\ UnmapModule(k)
    BY <1>1, <2>3 DEF UnmapModule, SlotIsSound, TypeOK
  <2> QED BY <2>1, <2>2, <2>3
<1>4. state'[k] # "ready"
  BY DEF MapModule, UnmapModule, TypeOK
<1>5. NoneReadyEarly' /\ ReadyModulesAreMonitored'
  BY <1>1, <1>4 DEF NoneReadyEarly, ReadyModulesAreMonitored, Real, Code, Monitor, Enabled
<1> QED BY <1>2, <1>3, <1>5

LEMMA InitRoutineKeeps ==
    ASSUME PatchInv, NEW k \in Modules, InitRoutine(k)
    PROVE  PatchInv'
<1> USE DEF PatchInv
<1>1. /\ state' \in [Modules -> {"unloaded", "mapped", "ready"}]
      /\ \A m \in Modules : state'[m] = "unloaded" <=> state[m] = "unloaded"
      /\ \A m \in Modules \ {k} : state'[m] = state[m]
      /\ UNCHANGED <<base, phase>>
  BY DEF InitRoutine, TypeOK
<1>2. CASE k \notin Known
  BY <1>1, <1>2, PatchingKeeps DEF InitRoutine
<1>3. CASE k \in Known
  <2>1. UNCHANGED <<slot, module_handle, orginal>> /\ phase \in {"running", "reporting"}
    BY <1>3 DEF InitRoutine
  <2>2. TypeOK'
    BY <1>1, <2>1 DEF TypeOK
  <2>3. SlotsAreSound'
    BY <1>1, <2>1 DEF SlotsAreSound, SlotIsSound, Real, Code, Monitor, Enabled
  <2>4. NoneReadyEarly'
    BY <1>1, <2>1 DEF NoneReadyEarly
  <2>5. \A f \in Functions : ~Enabled(k, f)
    BY <1>3 DEF Enabled
  <2>6. ReadyModulesAreMonitored'
    BY <1>1, <2>1, <2>5 DEF ReadyModulesAreMonitored, Real, Code, Monitor, Enabled
  <2> QED BY <2>2, <2>3, <2>4, <2>6
<1> QED BY <1>2, <1>3

(* At the end every import stands at its function again.                   *)
LEMMA ShutdownKeeps ==
    ASSUME PatchInv, Shutdown
    PROVE  PatchInv'
<1> DEFINE hit(m, f) == m \in Loaded /\ Enabled(m, f) /\ IsForReverting(f, slot[m][f])
<1> USE DEF PatchInv
<1>1. /\ module_handle' = Handles
      /\ slot' = [m \in Modules |-> [f \in Functions |->
                     IF hit(m, f) THEN orginal[f] ELSE slot[m][f]]]
      /\ UNCHANGED <<base, state, orginal>>
      /\ phase = "running" /\ phase' = "reporting"
  BY DEF Shutdown, UnpatchLoadedModules
<1>2. Handles \in [Functions -> Places \cup {Null}]
  BY PatchingAssumption DEF Handles, TypeOK
<1>3. slot' \in [Modules -> [Functions -> Addresses \cup {Null}]]
  <2>1. \A f \in Functions : orginal[f] \in Addresses \cup {Null}
    BY DEF TypeOK, Addresses
  <2> HIDE DEF hit
  <2> QED BY <1>1, <2>1 DEF TypeOK
<1>4. TypeOK'
  BY <1>1, <1>2, <1>3 DEF TypeOK
<1>5. ASSUME NEW m \in Modules, NEW f \in Functions
      PROVE  SlotIsSound(m, f)'
  <2>1. SlotIsSound(m, f) /\ Real(f)' = Real(f)
    BY <1>1 DEF SlotsAreSound, Real, Code
  <2>2. slot'[m][f] = IF hit(m, f) THEN orginal[f] ELSE slot[m][f]
    <3> HIDE DEF hit
    <3> QED BY <1>1
  <2>3. CASE slot[m][f] = Null \/ f \notin Imports[m] \/ state[m] = "unloaded"
    <3>1. slot[m][f] = Null /\ (state[m] = "unloaded" \/ f \notin Imports[m])
      BY <2>1, <2>3, Different, PatchingAssumption DEF SlotIsSound, Real, TypeOK
    <3>2. ~hit(m, f)
      BY <3>1, Different, PatchingAssumption DEF IsForReverting, Monitor
    <3> QED BY <1>1, <2>2, <3>1, <3>2 DEF SlotIsSound
  <2>4. CASE slot[m][f] # Null /\ f \in Imports[m] /\ state[m] # "unloaded"
    <3>1. base[Library[f]] \in Places /\ base[Library[f]] # Null
      BY <2>1, <2>4, PatchingAssumption DEF SlotIsSound, TypeOK
    <3>2. Real(f) # Null /\ Real(f) # Monitor(f)
      BY <3>1, Different DEF Real
    <3>3. CASE slot[m][f] = Real(f)
      <4>1. ~hit(m, f)
        BY <3>2, <3>3 DEF IsForReverting
      <4> QED BY <1>1, <2>1, <2>2, <2>4, <3>1, <3>3, <4>1 DEF SlotIsSound
    <3>4. CASE slot[m][f] = Monitor(f) /\ orginal[f] = Real(f) /\ Enabled(m, f)
      <4>1. Handles[f] # Null
        BY <3>1 DEF Handles
      <4>2. hit(m, f)
        BY <2>4, <3>2, <3>4, <4>1 DEF IsForReverting, Loaded
      <4> QED BY <1>1, <2>1, <2>2, <2>4, <3>1, <3>4, <4>2 DEF SlotIsSound
    <3> QED BY <2>1, <2>4, <3>3, <3>4 DEF SlotIsSound
  <2> QED BY <2>3, <2>4
<1>6. NoneReadyEarly' /\ ReadyModulesAreMonitored'
  BY <1>1 DEF NoneReadyEarly, ReadyModulesAreMonitored
<1> QED BY <1>4, <1>5, <1>6 DEF SlotsAreSound

LEMMA PatchInvNext ==
    ASSUME PatchInv, [Next]_vars
    PROVE  PatchInv'
<1>1. CASE phase # "down" /\ Loading
  BY <1>1, LibraryKeeps, ModuleKeeps DEF Loading
<1>2. CASE \E m \in Modules : InitRoutine(m)
  BY <1>2, InitRoutineKeeps
<1>3. CASE Start
  BY <1>3, PatchingKeeps DEF Start, PatchInv, TypeOK
<1>4. CASE Shutdown
  BY <1>4, ShutdownKeeps
<1>5. CASE Finish
  <2>1. UNCHANGED <<base, state, slot, module_handle, orginal>>
        /\ phase = "reporting" /\ phase' = "down"
    BY <1>5 DEF Finish
  <2>2. TypeOK' /\ NoneReadyEarly' /\ ReadyModulesAreMonitored'
    BY <2>1 DEF PatchInv, TypeOK, NoneReadyEarly, ReadyModulesAreMonitored
  <2>3. SlotsAreSound'
    BY <2>1 DEF PatchInv, SlotsAreSound, SlotIsSound, Real, Code, Monitor, Enabled
  <2> QED BY <2>2, <2>3 DEF PatchInv
<1>6. CASE UNCHANGED vars
  BY <1>6 DEF vars, PatchInv, TypeOK, SlotsAreSound, SlotIsSound, NoneReadyEarly,
              ReadyModulesAreMonitored, Real, Code, Monitor, Enabled
<1> QED BY <1>1, <1>2, <1>3, <1>4, <1>5, <1>6 DEF Next

LEMMA PatchInvariance == Spec => []PatchInv
<1> QED BY PatchInvInit, PatchInvNext, PTL DEF Spec

-----------------------------------------------------------------------------
(* The variables of loader_t and patch_iat keep their types.               *)
THEOREM PatchingTypeCorrect == Spec => []TypeOK
<1>1. PatchInv => TypeOK
  BY DEF PatchInv
<1> QED BY <1>1, PatchInvariance, PTL

(* Whatever is loaded and unloaded in whatever order, a module whose init  *)
(* routine has run has all its enabled imports led to their monitors.      *)
THEOREM ReadyAreMonitored == Spec => []ReadyModulesAreMonitored
<1>1. PatchInv => ReadyModulesAreMonitored
  BY DEF PatchInv
<1> QED BY <1>1, PatchInvariance, PTL

(* A monitor an import leads to calls the function that import named.      *)
THEOREM MonitorsStayReal == Spec => []MonitorsCallTheirFunction
<1>1. PatchInv => MonitorsCallTheirFunction
  <2> SUFFICES ASSUME PatchInv, NEW m \in Loaded, NEW f \in Functions,
                      slot[m][f] = Monitor(f)
               PROVE  orginal[f] = Real(f)
    BY DEF MonitorsCallTheirFunction
  <2>1. SlotIsSound(m, f)
    BY DEF PatchInv, SlotsAreSound, Loaded
  <2>2. CASE slot[m][f] = Null
    <3>1. Monitor(f) \in (Places \cup {BugInsight}) \X Functions
      BY DEF Monitor
    <3> QED BY <2>2, <3>1, PatchingAssumption
  <2>3. CASE base[Library[f]] # Null /\ slot[m][f] = Real(f)
    <3>1. base[Library[f]] \in Places
      BY <2>3, PatchingAssumption DEF PatchInv, TypeOK
    <3> QED BY <2>3, <3>1, Different DEF Real
  <2> QED BY <2>1, <2>2, <2>3 DEF SlotIsSound
<1> QED BY <1>1, PatchInvariance, PTL

(* After the destructor of g_loader no import leads to a monitor.          *)
THEOREM NothingLeadsToMonitors == Spec => []NothingLeadsToDeletedMonitors
<1>1. PatchInv => NothingLeadsToDeletedMonitors
  BY PatchingAssumption
     DEF PatchInv, SlotsAreSound, SlotIsSound, Loaded, NothingLeadsToDeletedMonitors
<1> QED BY <1>1, PatchInvariance, PTL

(* What a thread reads from m_orginal is what it reads for ever.           *)
THEOREM OriginalsStay == Spec => OriginalsNeverChange
<1>1. ASSUME PatchInv, [Next]_vars
      PROVE  [\A f \in Functions : orginal[f] # Null => orginal'[f] = orginal[f]]_vars
  <2>1. CASE PatchLoadedModules
    BY <1>1, <2>1, PatchedSlots
  <2>2. CASE UNCHANGED orginal
    BY <2>2
  <2>3. PatchLoadedModules \/ UNCHANGED orginal
    BY <1>1 DEF Next, Loading, UnloadLibrary, LoadLibrary, MapModule, UnmapModule,
                InitRoutine, Start, Shutdown, UnpatchLoadedModules, Finish, vars
  <2> QED BY <2>1, <2>2, <2>3
<1> QED BY <1>1, PatchInvariance, PTL DEF Spec, OriginalsNeverChange
=============================================================================
