----------------------------- MODULE MCComponents -----------------------------
(***************************************************************************)
(* One instance for the components that are used side by side and do not   *)
(* call each other: a behaviour exercises one of them while the others     *)
(* stay in their initial states.                                           *)
(***************************************************************************)
EXTENDS KeyValueStore, Playground, PluginRegistry, HashTable, SplayTree,
        MyAllocator, BufferedData, BufferHandOff

VARIABLE exercised   \* the component of this behaviour

mcVars == <<storeVars, playgroundVars, registryVars, tableVars, treeVars,
            allocatorVars, bufferVars, handOffVars, exercised>>

MCValues == { <<"a", "b", "c">>, <<"d">>, << >> }

\* Two pairs of keys that collide on their first probe, in every size of table.
MCTableKeys == 0 .. 4
MCHash1 == [k \in MCTableKeys |-> (k * 3) % 5]
MCHash2 == [k \in MCTableKeys |-> (k \div 2) * 4 + 1]

Components == {"store", "playground", "registry", "table", "tree", "allocator", "buffer",
                "handOff"}

MCInit ==
  /\ StoreInit /\ PlaygroundInit /\ RegistryInit /\ TableInit /\ TreeInit
  /\ AllocatorInit /\ BufferInit /\ HandOffInit
  /\ exercised \in Components

\* Every component but c, and the choice of c, stays as it is.
OthersUnchanged(c) ==
  /\ c # "store" => UNCHANGED storeVars
  /\ c # "playground" => UNCHANGED playgroundVars
  /\ c # "registry" => UNCHANGED registryVars
  /\ c # "table" => UNCHANGED tableVars
  /\ c # "tree" => UNCHANGED treeVars
  /\ c # "allocator" => UNCHANGED allocatorVars
  /\ c # "buffer" => UNCHANGED bufferVars
  /\ c # "handOff" => UNCHANGED handOffVars
  /\ UNCHANGED exercised

MCNext ==
  \/ exercised = "store" /\ StoreNext /\ OthersUnchanged("store")
  \/ exercised = "playground" /\ PlaygroundNext /\ OthersUnchanged("playground")
  \/ exercised = "registry" /\ RegistryNext /\ OthersUnchanged("registry")
  \/ exercised = "table" /\ TableNext /\ OthersUnchanged("table")
  \/ exercised = "tree" /\ TreeNext /\ OthersUnchanged("tree")
  \/ exercised = "allocator" /\ AllocatorNext /\ OthersUnchanged("allocator")
  \/ exercised = "buffer" /\ BufferNext /\ OthersUnchanged("buffer")
  \/ exercised = "handOff" /\ HandOffNext /\ OthersUnchanged("handOff")

MCSpec == MCInit /\ [][MCNext]_mcVars /\ (exercised = "store" => StoreFairness)
==============================================================================
