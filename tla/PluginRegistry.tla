---------------------------- MODULE PluginRegistry ----------------------------
(***************************************************************************)
(* How plugins register with a rank (core/ComputeCore.cpp,                 *)
(* plugins/RegisteredPlugin.cpp, the executors of handlers/).  A plugin    *)
(* allocates handles of three kinds, gives them symbols and handlers and   *)
(* configures them; afterwards every plugin looks up the symbols of the    *)
(* others.  A call that fails a validation changes nothing but the flag    *)
(* of fatal errors, which keeps the rank out of its main loop.             *)
(*                                                                         *)
(* The plugins may make any calls, in any order and with any arguments.    *)
(* Slave modes, master modes and message tags go through the same code,    *)
(* written three times.                                                    *)
(***************************************************************************)
EXTENDS Integers, Sequences, FiniteSets

Nobody == "nobody"
NoSymbol == "none"
INVALID_HANDLE == -1
DummySun == "DummySun"

CONSTANTS
  Plugins,     \* the plugins of the application and the built-in ones
  Kinds,       \* of handles: "slave", "master", "tag"
  Maximum,     \* MAXIMUM_NUMBER_OF_..._HANDLERS
  Symbols,
  MaxCalls     \* bound: the calls the plugins make

ASSUME PluginRegistryAssumption ==
  /\ Maximum \in Nat \ {0} /\ MaxCalls \in Nat
  /\ "tag" \in Kinds /\ "master" \in Kinds
  /\ Nobody \notin Plugins      \* Nobody and NoSymbol stand for entries that
  /\ NoSymbol \notin Symbols    \* the tables of the code do not have

VARIABLES
  stage,         \* "register", "resolve", "loop" or "exit"
  hasFatalErrors,
  plugins,       \* those that have called allocatePluginHandle
  toAllocate,    \* m_current...ToAllocate
  owner,         \* the plugin that allocated a handle, or Nobody
  symbolOf,      \* handle to symbol, or NoSymbol
  handleOf,      \* symbol to handle, or INVALID_HANDLE
  handler,       \* the plugin whose handler a handle has in its executor, or Nobody
  settings,      \* the switches, replies and sizes, with the plugin that set them
  public,        \* m_publicMasterModes
  firstMode,     \* the first master mode, and the plugin that set it
  objects,       \* m_objectSymbols: symbol to the plugin whose object it is, or Nobody
  resolved,      \* what the plugins looked up
  calls

registryVars == <<stage, hasFatalErrors, plugins, toAllocate, owner, symbolOf, handleOf, handler,
                  settings, public, firstMode, objects, resolved, calls>>

Everyone == Plugins \union {DummySun}
InRange == 0 .. Maximum - 1

\* The arguments the calls are made with.
Arguments == INVALID_HANDLE .. Maximum

RegistryInit ==
  /\ stage = "register"
  /\ hasFatalErrors = FALSE
  /\ plugins = {}
  /\ toAllocate = [k \in Kinds |-> 0]
  /\ owner = [k \in Kinds |-> [h \in InRange |-> Nobody]]
  /\ symbolOf = [k \in Kinds |-> [h \in InRange |-> NoSymbol]]
  /\ handleOf = [k \in Kinds |-> [s \in Symbols |-> INVALID_HANDLE]]
  /\ handler = owner
  /\ settings = {} /\ public = {} /\ firstMode = {} /\ resolved = {}
  /\ objects = [s \in Symbols |-> Nobody]
  /\ calls = 0

tables == <<plugins, toAllocate, owner, symbolOf, handleOf, handler, settings, public, firstMode,
            objects, resolved>>

\* A call of plugin p: with the validations passed it has its effect, without
\* them it sets the flag.
valid(p, validations) == p \in plugins /\ validations /\ UNCHANGED hasFatalErrors
invalid(p, validations) ==
  ~(p \in plugins /\ validations) /\ hasFatalErrors' = TRUE /\ UNCHANGED tables

called(p) ==
  /\ stage = "register" /\ calls < MaxCalls
  /\ calls' = calls + 1
  /\ UNCHANGED stage

------------------------------------------------------------------------------
validationRange(h) == h \in InRange

validationOwnership(p, k, h) == owner[k][h] = p

validationSymbolAvailable(k, s) == handleOf[k][s] = INVALID_HANDLE
validationSymbolNotRegistered(k, h) == symbolOf[k][h] = NoSymbol
validationSymbolRegistered(k, s) == handleOf[k][s] # INVALID_HANDLE

owned(p, k, h) == validationRange(h) /\ validationOwnership(p, k, h)

\* RegisteredPlugin::hasSlaveMode and so on are what owner says.
AllocatePluginHandle(p) ==
  /\ stage = "register" /\ p \notin plugins
  /\ plugins' = plugins \union {p}
  /\ UNCHANGED <<stage, hasFatalErrors, toAllocate, owner, symbolOf, handleOf, handler, settings,
                 public, firstMode, objects, resolved, calls>>

\* Mutant: the handle that was given out last is not passed over.
nextHandle_Last(k) == IF toAllocate[k] = 0 THEN 0 ELSE toAllocate[k] - 1

\* The first handle from the counter on that is not allocated.
nextHandle(k) ==
  CHOOSE h \in toAllocate[k] .. Maximum :
    /\ h = Maximum \/ owner[k][h] = Nobody
    /\ \A g \in toAllocate[k] .. h - 1 : owner[k][g] # Nobody

\* The counter moves past the handle, unless the first one tried was free.
AllocateHandle(p, k) ==
  LET h == nextHandle(k)
  IN  /\ called(p)
      /\ \/ /\ valid(p, validationRange(h))
            /\ owner' = [owner EXCEPT ![k][h] = p]
            /\ toAllocate' = [toAllocate EXCEPT ![k] = IF h = @ THEN h ELSE h + 1]
            /\ UNCHANGED <<plugins, symbolOf, handleOf, handler, settings, public, firstMode,
                           objects, resolved>>
         \/ invalid(p, validationRange(h))

SetSymbol(p, k, h, s) ==
  LET ok == /\ owned(p, k, h)
            /\ validationSymbolAvailable(k, s) /\ validationSymbolNotRegistered(k, h)
  IN  /\ called(p)
      /\ \/ /\ valid(p, ok)
            /\ symbolOf' = [symbolOf EXCEPT ![k][h] = s]
            /\ handleOf' = [handleOf EXCEPT ![k][s] = h]
            /\ UNCHANGED <<plugins, toAllocate, owner, handler, settings, public, firstMode,
                           objects, resolved>>
         \/ invalid(p, ok)

SetObjectHandler(p, k, h) ==
  /\ called(p)
  /\ \/ /\ valid(p, owned(p, k, h))
        /\ handler' = [handler EXCEPT ![k][h] = p]
        /\ UNCHANGED <<plugins, toAllocate, owner, symbolOf, handleOf, settings, public, firstMode,
                       objects, resolved>>
     \/ invalid(p, owned(p, k, h))

\* A message tag or a master mode is configured.
configured(p, k, h, validations) ==
  /\ called(p)
  /\ k \in {"tag", "master"}
  /\ \/ /\ valid(p, validations)
        /\ settings' = settings \union {[kind |-> k, handle |-> h, by |-> p]}
        /\ UNCHANGED <<plugins, toAllocate, owner, symbolOf, handleOf, handler, public, firstMode,
                       objects, resolved>>
     \/ invalid(p, validations)

\* setMasterModeToMessageTagSwitch, setMessageTagToSlaveModeSwitch and
\* setMessageTagSize: the handle has to be one's own; the tag, the mode or the
\* size it is given is not validated.
Configure(p, k, h) == configured(p, k, h, owned(p, k, h))

\* setMessageTagReplyMessageTag, setMasterModeNextMasterMode: the handle that
\* follows has to be in range, and may belong to anyone.
ConfigureFollower(p, k, h, follower) ==
  configured(p, k, h, owned(p, k, h) /\ validationRange(follower))

SetMasterModePublicAccess(p, h) ==
  /\ called(p)
  /\ \/ /\ valid(p, owned(p, "master", h))
        /\ public' = public \union {h}
        /\ UNCHANGED <<plugins, toAllocate, owner, symbolOf, handleOf, handler, settings, firstMode,
                       objects, resolved>>
     \/ invalid(p, owned(p, "master", h))

\* A second first mode is reported and replaces the one before.
SetFirstMasterMode(p, h) ==
  LET ok == validationRange(h) /\ (h \in public \/ validationOwnership(p, "master", h))
  IN  /\ called(p)
      /\ \/ /\ valid(p, ok)
            /\ firstMode' = {[mode |-> h, by |-> p]}
            /\ UNCHANGED <<plugins, toAllocate, owner, symbolOf, handleOf, handler, settings, public,
                           objects, resolved>>
         \/ invalid(p, ok)

SetObjectSymbol(p, s) ==
  /\ called(p)
  /\ \/ /\ valid(p, objects[s] = Nobody)
        /\ objects' = [objects EXCEPT ![s] = p]
        /\ UNCHANGED <<plugins, toAllocate, owner, symbolOf, handleOf, handler, settings, public,
                       firstMode, resolved>>
     \/ invalid(p, objects[s] = Nobody)

\* resolveSymbols first registers DummySun, with a tag and a symbol of its own;
\* when the tags are used up this fails like any other allocation.
ResolveSymbols ==
  LET h == nextHandle("tag")
  IN  /\ stage = "register"
      /\ stage' = "resolve"
      /\ plugins' = plugins \union {DummySun}
      /\ IF validationRange(h)
         THEN /\ owner' = [owner EXCEPT !["tag"][h] = DummySun]
              /\ toAllocate' = [toAllocate EXCEPT !["tag"] = IF h = @ THEN h ELSE h + 1]
              /\ UNCHANGED hasFatalErrors
         ELSE hasFatalErrors' = TRUE /\ UNCHANGED <<owner, toAllocate>>
      /\ UNCHANGED <<symbolOf, handleOf, handler, settings, public, firstMode, objects, resolved, calls>>

\* getSlaveModeFromSymbol and its siblings.
GetFromSymbol(p, k, s) ==
  /\ stage = "resolve" /\ p \in plugins
  /\ \A r \in resolved : r.by # p      \* bound: one look-up for each plugin
  /\ \/ /\ validationSymbolRegistered(k, s)
        /\ resolved' = resolved \union {[kind |-> k, symbol |-> s, handle |-> handleOf[k][s], by |-> p]}
        /\ UNCHANGED hasFatalErrors
     \/ /\ ~validationSymbolRegistered(k, s)
        /\ hasFatalErrors' = TRUE
        /\ UNCHANGED resolved
  /\ UNCHANGED <<stage, plugins, toAllocate, owner, symbolOf, handleOf, handler, settings, public,
                 firstMode, objects, calls>>

\* run(): with errors it returns before the main loop.
Run ==
  /\ stage = "resolve"
  /\ stage' = IF hasFatalErrors THEN "exit" ELSE "loop"
  /\ UNCHANGED <<hasFatalErrors, calls>> /\ UNCHANGED tables

RegistryNext ==
  \/ \E p \in Plugins :
       \/ AllocatePluginHandle(p)
       \/ \E k \in Kinds :
            \/ AllocateHandle(p, k)
            \/ \E h \in Arguments :
                 \/ SetObjectHandler(p, k, h) \/ Configure(p, k, h)
                 \/ \E follower \in Arguments : ConfigureFollower(p, k, h, follower)
                 \/ \E s \in Symbols : SetSymbol(p, k, h, s)
            \/ \E s \in Symbols : GetFromSymbol(p, k, s)
       \/ \E h \in Arguments : SetMasterModePublicAccess(p, h) \/ SetFirstMasterMode(p, h)
       \/ \E s \in Symbols : SetObjectSymbol(p, s)
  \/ ResolveSymbols
  \/ Run

RegistrySpec == RegistryInit /\ [][RegistryNext]_registryVars

------------------------------------------------------------------------------
\* In a rank that enters its main loop, whatever the plugins called in whatever
\* order: a symbol that was looked up leads to the handle its one owner gave it,
\* the handler that runs for a handle and every setting of it are its owner's,
\* and the first master mode belongs to the plugin that chose it or is public.
SymbolsResolve ==
  stage = "loop" =>
    /\ \A r \in resolved :
         /\ owner[r.kind][r.handle] # Nobody
         /\ symbolOf[r.kind][r.handle] = r.symbol
         /\ \A h \in InRange : symbolOf[r.kind][h] = r.symbol => h = r.handle
    /\ \A k \in Kinds, h \in InRange : handler[k][h] \in {Nobody, owner[k][h]}
    /\ \A s \in settings : owner[s.kind][s.handle] = s.by
    /\ \A f \in firstMode : f.mode \in public \/ owner["master"][f.mode] = f.by
================================================================================
