-------------------------- MODULE MCImportPatching --------------------------
(* An instance of ImportPatching for TLC: two libraries of three functions *)
(* and four modules, of which each is excluded from something else.        *)
EXTENDS ImportPatching, TLC

CONSTANTS ucrtbase, msvcp140, malloc, Mtx_lock, Cnd_wait,
          exe, plugin, quiet, system

MCLibrary   == (malloc :> ucrtbase) @@ (Mtx_lock :> msvcp140) @@ (Cnd_wait :> msvcp140)
MCType      == (malloc :> "memory_leak") @@ (Mtx_lock :> "deadlock") @@ (Cnd_wait :> "deadlock")
MCImports   == (exe :> {malloc}) @@ (plugin :> {malloc, Mtx_lock})
                 @@ (quiet :> {malloc, Mtx_lock}) @@ (system :> {malloc, Cnd_wait})
MCBlacklist == ("memory_leak" :> {quiet}) @@ ("deadlock" :> {exe})
PlaceSymmetry == Permutations(Places)
=============================================================================
