--------------------------- MODULE ComponentsProofs ---------------------------
(***************************************************************************)
(* Proofs about the small components that are used side by side, as in     *)
(* MCComponents: the tables of plugins, the actors, the allocator of       *)
(* chunks, the buffers of BufferedData and the key-value store.  Each part *)
(* has its own inductive invariant and uses nothing of the others.         *)
(***************************************************************************)
EXTENDS PluginRegistry, Playground, MyAllocator, BufferedData, KeyValueStore, FiniteSetTheorems,
        SequenceTheorems, TLAPS

(***************************************************************************)
(* Plugins                                                                 *)
(***************************************************************************)
\* For all plugins, handles and symbols, and for calls of any number in
\* any order: the tables of core/ComputeCore.cpp stay inverse to each
\* other, nobody configures or handles what somebody else owns, and what a
\* plugin has looked up stays true.

Owner == Everyone \union {Nobody}

\* The tables hold handles, symbols and plugins.
RegistryTypeOK ==
  /\ stage \in {"register", "resolve", "loop", "exit"}
  /\ hasFatalErrors \in BOOLEAN
  /\ plugins \subseteq Everyone
  /\ toAllocate \in [Kinds -> 0 .. Maximum]
  /\ owner \in [Kinds -> [InRange -> Owner]]
  /\ symbolOf \in [Kinds -> [InRange -> Symbols \union {NoSymbol}]]
  /\ handleOf \in [Kinds -> [Symbols -> InRange \union {INVALID_HANDLE}]]
  /\ handler \in [Kinds -> [InRange -> Owner]]
  /\ settings \subseteq [kind : Kinds, handle : InRange, by : Plugins]
  /\ public \subseteq InRange
  /\ firstMode \subseteq [mode : InRange, by : Plugins]
  /\ objects \in [Symbols -> Plugins \union {Nobody}]
  /\ resolved \subseteq [kind : Kinds, symbol : Symbols, handle : InRange, by : Plugins]
  /\ calls \in 0 .. MaxCalls

\* A symbol leads to a handle if and only if the handle has that symbol, and only
\* handles that somebody owns have one.
TablesInverse ==
  \A k \in Kinds, h \in InRange, s \in Symbols :
    /\ symbolOf[k][h] = s <=> handleOf[k][s] = h
    /\ symbolOf[k][h] = s => owner[k][h] # Nobody

\* What was looked up is still in the tables.
LookUpsHold == \A r \in resolved : handleOf[r.kind][r.symbol] = r.handle

\* Handlers, settings and the first master mode respect the owners.
OwnersRespected ==
  /\ \A k \in Kinds, h \in InRange : handler[k][h] \in {Nobody, owner[k][h]}
  /\ \A s \in settings : owner[s.kind][s.handle] = s.by
  /\ \A f \in firstMode : f.mode \in public \/ owner["master"][f.mode] = f.by

\* The inductive invariant.
RegistryInv == RegistryTypeOK /\ TablesInverse /\ LookUpsHold /\ OwnersRespected

------------------------------------------------------------------------------
\* A set of integers that has a lower bound has a least element.  The library
\* states it for an operator; for a set it follows from the well-foundedness of
\* the finite subsets, applied to the intervals that end before an element.
LEMMA LeastElement ==
  ASSUME NEW a \in Int, NEW S, S \subseteq Int, S # {}, \A x \in S : a <= x
  PROVE  \E x \in S : \A y \in S : x <= y
<1> DEFINE Below == { a .. x - 1 : x \in S }
<1>1. Below \subseteq FiniteSubsetsOf(Int)
  <2>1. ASSUME NEW x \in S PROVE a .. x - 1 \in FiniteSubsetsOf(Int)
    <3>1. IsFiniteSet(a .. x - 1)
      BY FS_Interval
    <3> QED
      BY <3>1 DEF FiniteSubsetsOf
  <2> QED
    BY <2>1
<1>2. Below # {}
  OBVIOUS
<1>3. IsWellFoundedOn(StrictSubsetOrdering(Int), FiniteSubsetsOf(Int))
  BY FS_StrictSubsetOrderingWellFounded
<1>4. PICK b \in Below : \A c \in Below : ~ (<<c, b>> \in StrictSubsetOrdering(Int))
  <2> HIDE DEF Below
  <2> QED
    BY <1>1, <1>2, <1>3, WFMin
<1>5. PICK x \in S : b = a .. x - 1
  BY <1>4
<1>6. ASSUME NEW y \in S, y < x PROVE FALSE
  <2>1. a .. y - 1 \in Below
    OBVIOUS
  <2>2. /\ a .. y - 1 \subseteq a .. x - 1
        /\ y \in a .. x - 1 /\ y \notin a .. y - 1
    BY <1>6
  <2>3. <<a .. y - 1, a .. x - 1>> \in StrictSubsetOrdering(Int)
    BY <2>2 DEF StrictSubsetOrdering
  <2> QED
    BY <1>4, <1>5, <2>1, <2>3
<1> QED
  BY <1>6

\* The search of allocateSlaveModeHandle() and its siblings ends: it finds the
\* first handle from the counter on that nobody owns, or the maximum.
LEMMA NextHandleIsFree ==
  ASSUME RegistryTypeOK, NEW k \in Kinds
  PROVE  /\ nextHandle(k) \in toAllocate[k] .. Maximum
         /\ nextHandle(k) = Maximum \/ owner[k][nextHandle(k)] = Nobody
<1> DEFINE t == toAllocate[k]
           S == { h \in t .. Maximum : h = Maximum \/ owner[k][h] = Nobody }
<1>1. t \in 0 .. Maximum /\ Maximum \in Nat
  BY PluginRegistryAssumption DEF RegistryTypeOK
<1>2. t \in Int /\ S \subseteq Int /\ S # {} /\ \A x \in S : t <= x
  BY <1>1
<1>3. PICK x \in S : \A y \in S : x <= y
  <2> HIDE DEF S, t
  <2> QED
    BY <1>2, LeastElement
<1>4. /\ x \in t .. Maximum
      /\ x = Maximum \/ owner[k][x] = Nobody
      /\ \A g \in t .. x - 1 : owner[k][g] # Nobody
  <2>1. ASSUME NEW g \in t .. x - 1 PROVE owner[k][g] # Nobody
    BY <1>1, <1>3, <2>1
  <2> QED
    BY <1>3, <2>1
<1> QED
  BY <1>4 DEF nextHandle

\* Setting one entry of a table leaves the others alone.
LEMMA OneEntry ==
  ASSUME NEW K, NEW D, NEW S, NEW f \in [K -> [D -> S]], NEW k \in K, NEW d \in D, NEW x \in S
  PROVE  /\ [f EXCEPT ![k][d] = x] \in [K -> [D -> S]]
         /\ \A kk \in K, dd \in D :
              [f EXCEPT ![k][d] = x][kk][dd] = IF kk = k /\ dd = d THEN x ELSE f[kk][dd]
<1>1. [f[k] EXCEPT ![d] = x] \in [D -> S]
  OBVIOUS
<1>2. [f EXCEPT ![k][d] = x] = [f EXCEPT ![k] = [f[k] EXCEPT ![d] = x]]
  OBVIOUS
<1>3. \A kk \in K : [f EXCEPT ![k][d] = x][kk] = IF kk = k THEN [f[k] EXCEPT ![d] = x] ELSE f[kk]
  BY <1>2
<1> QED
  BY <1>1, <1>2, <1>3

\* The start: empty tables.
LEMMA InitRegistryInv == RegistryInit => RegistryInv
<1> SUFFICES ASSUME RegistryInit PROVE RegistryInv
  OBVIOUS
<1> USE DEF RegistryInit
<1>1. /\ owner \in [Kinds -> [InRange -> Owner]]
      /\ handler \in [Kinds -> [InRange -> Owner]]
      /\ symbolOf \in [Kinds -> [InRange -> Symbols \union {NoSymbol}]]
      /\ handleOf \in [Kinds -> [Symbols -> InRange \union {INVALID_HANDLE}]]
      /\ objects \in [Symbols -> Plugins \union {Nobody}]
  BY DEF Owner
<1>2. toAllocate \in [Kinds -> 0 .. Maximum] /\ calls \in 0 .. MaxCalls
  BY PluginRegistryAssumption
<1>3. hasFatalErrors \in BOOLEAN
  BY Zenon
<1>4. RegistryTypeOK
  BY <1>1, <1>2, <1>3 DEF RegistryTypeOK
<1>5. \A k \in Kinds :
        /\ \A h \in InRange : symbolOf[k][h] = NoSymbol /\ handler[k][h] = Nobody
        /\ \A s \in Symbols : handleOf[k][s] = INVALID_HANDLE
  OBVIOUS
<1>6. INVALID_HANDLE \notin InRange
  BY PluginRegistryAssumption DEF INVALID_HANDLE, InRange
<1>7. TablesInverse
  BY <1>5, <1>6, PluginRegistryAssumption DEF TablesInverse
<1>8. LookUpsHold /\ OwnersRespected
  BY <1>5 DEF LookUpsHold, OwnersRespected
<1> QED
  BY <1>4, <1>7, <1>8 DEF RegistryInv

\* A call counts, and leaves the stage alone.
LEMMA CalledType ==
  ASSUME RegistryTypeOK, NEW p, called(p)
  PROVE  calls' \in 0 .. MaxCalls /\ stage' = stage
BY PluginRegistryAssumption DEF RegistryTypeOK, called

\* A step that leaves the tables alone, as a call that fails a validation does.
LEMMA TablesUnchanged ==
  ASSUME RegistryInv, UNCHANGED tables, hasFatalErrors' \in BOOLEAN, calls' \in 0 .. MaxCalls,
         stage' \in {"register", "resolve", "loop", "exit"}
  PROVE  RegistryInv'
BY DEF tables, RegistryInv, RegistryTypeOK, TablesInverse, LookUpsHold, OwnersRespected

\* A call that fails a validation.
LEMMA InvalidRegistryInv ==
  ASSUME RegistryInv, NEW p, NEW v \in BOOLEAN, called(p), invalid(p, v)
  PROVE  RegistryInv'
<1>1. RegistryTypeOK
  BY DEF RegistryInv
<1>2. calls' \in 0 .. MaxCalls /\ stage' = stage
  BY <1>1, CalledType
<1>3. stage' \in {"register", "resolve", "loop", "exit"}
  BY <1>1, <1>2 DEF RegistryTypeOK
<1>4. hasFatalErrors' \in BOOLEAN
  BY Zenon DEF invalid
<1> QED
  BY <1>2, <1>3, <1>4, TablesUnchanged DEF invalid

\* Nobody is not a plugin, and an invalid handle is out of range.
LEMMA Strangers == Nobody \notin Everyone /\ INVALID_HANDLE \notin InRange
BY PluginRegistryAssumption DEF Nobody, DummySun, Everyone, INVALID_HANDLE, InRange

\* Giving a handle that nobody owns to a plugin: it has no symbol, no handler, no
\* settings and is nobody's first mode yet.
LEMMA GiveHandle ==
  ASSUME RegistryInv, NEW k \in Kinds, NEW p \in Everyone, NEW h, h = nextHandle(k), h \in InRange,
         owner' = [owner EXCEPT ![k][h] = p],
         toAllocate' = [toAllocate EXCEPT ![k] = IF h = @ THEN h ELSE h + 1],
         UNCHANGED <<symbolOf, handleOf, handler, settings, public, firstMode, objects, resolved>>,
         plugins' \subseteq Everyone, hasFatalErrors' \in BOOLEAN, calls' \in 0 .. MaxCalls,
         stage' \in {"register", "resolve", "loop", "exit"}
  PROVE  RegistryInv'
<1>0. RegistryTypeOK /\ TablesInverse /\ LookUpsHold /\ OwnersRespected
  BY DEF RegistryInv
<1>1. h # Maximum
  BY PluginRegistryAssumption DEF InRange
<1>2. owner[k][h] = Nobody /\ h \in toAllocate[k] .. Maximum
  BY <1>0, <1>1, NextHandleIsFree
<1>3. p \in Owner /\ owner \in [Kinds -> [InRange -> Owner]]
  BY <1>0 DEF Owner, RegistryTypeOK
<1>4. /\ owner' \in [Kinds -> [InRange -> Owner]]
      /\ \A kk \in Kinds, hh \in InRange :
           owner'[kk][hh] = IF kk = k /\ hh = h THEN p ELSE owner[kk][hh]
  BY <1>3, OneEntry
<1>5. toAllocate' \in [Kinds -> 0 .. Maximum]
  BY <1>0, <1>1, <1>2, PluginRegistryAssumption DEF RegistryTypeOK, InRange
<1>6. RegistryTypeOK'
  BY <1>0, <1>4, <1>5 DEF RegistryTypeOK
<1>7. TablesInverse'
  BY <1>0, <1>2, <1>4, Strangers DEF TablesInverse
<1>8. LookUpsHold'
  BY <1>0 DEF LookUpsHold
<1>9. OwnersRespected'
  <2>1. ASSUME NEW kk \in Kinds, NEW hh \in InRange
        PROVE  handler'[kk][hh] \in {Nobody, owner'[kk][hh]}
    BY <1>0, <1>2, <1>4 DEF OwnersRespected
  <2>2. ASSUME NEW s \in settings PROVE owner'[s.kind][s.handle] = s.by
    <3>1. s.kind \in Kinds /\ s.handle \in InRange /\ s.by \in Plugins
      BY <1>0 DEF RegistryTypeOK
    <3>2. owner[s.kind][s.handle] = s.by /\ s.by # Nobody
      BY <1>0, <3>1, Strangers DEF OwnersRespected, Everyone
    <3> QED
      BY <1>2, <1>4, <3>1, <3>2
  <2>3. ASSUME NEW f \in firstMode PROVE f.mode \in public \/ owner'["master"][f.mode] = f.by
    <3>1. f.mode \in InRange /\ f.by \in Plugins /\ "master" \in Kinds
      BY <1>0, PluginRegistryAssumption DEF RegistryTypeOK
    <3>2. f.by # Nobody
      BY <3>1, Strangers DEF Everyone
    <3> QED
      BY <1>0, <1>2, <1>4, <3>1, <3>2 DEF OwnersRespected
  <2> QED
    BY <2>1, <2>2, <2>3 DEF OwnersRespected
<1> QED
  BY <1>6, <1>7, <1>8, <1>9 DEF RegistryInv

\* allocateSlaveModeHandle(), allocateMasterModeHandle(), allocateMessageTagHandle().
LEMMA AllocateHandleRegistryInv ==
  ASSUME RegistryInv, NEW p \in Plugins, NEW k \in Kinds, AllocateHandle(p, k)
  PROVE  RegistryInv'
<1>0. RegistryTypeOK
  BY DEF RegistryInv
<1> DEFINE h == nextHandle(k)
<1>1. CASE invalid(p, validationRange(h))
  <2>1. called(p) /\ validationRange(h) \in BOOLEAN
    BY DEF AllocateHandle, validationRange
  <2> QED
    BY <1>1, <2>1, InvalidRegistryInv
<1>2. CASE /\ valid(p, validationRange(h))
           /\ owner' = [owner EXCEPT ![k][h] = p]
           /\ toAllocate' = [toAllocate EXCEPT ![k] = IF h = @ THEN h ELSE h + 1]
           /\ UNCHANGED <<plugins, symbolOf, handleOf, handler, settings, public, firstMode,
                          objects, resolved>>
  <2>1. calls' \in 0 .. MaxCalls /\ stage' = stage
    BY <1>0, CalledType DEF AllocateHandle
  <2>2. h \in InRange /\ UNCHANGED hasFatalErrors /\ p \in Everyone
    BY <1>2 DEF valid, validationRange, Everyone
  <2>3. /\ plugins' \subseteq Everyone /\ hasFatalErrors' \in BOOLEAN
        /\ stage' \in {"register", "resolve", "loop", "exit"}
    BY <1>0, <1>2, <2>1, <2>2 DEF RegistryTypeOK
  <2> HIDE DEF h
  <2>4. h = nextHandle(k)
    BY DEF h
  <2> QED
    BY <1>2, <2>1, <2>2, <2>3, <2>4, GiveHandle
<1> QED
  BY <1>1, <1>2 DEF AllocateHandle

\* resolveSymbols(): DummySun takes a tag like any plugin, or sets the flag.
LEMMA ResolveSymbolsRegistryInv ==
  ASSUME RegistryInv, ResolveSymbols
  PROVE  RegistryInv'
<1>0. RegistryTypeOK
  BY DEF RegistryInv
<1> DEFINE h == nextHandle("tag")
<1>1. /\ plugins' \subseteq Everyone /\ calls' \in 0 .. MaxCalls /\ DummySun \in Everyone
      /\ stage' \in {"register", "resolve", "loop", "exit"} /\ "tag" \in Kinds
  BY <1>0, PluginRegistryAssumption DEF ResolveSymbols, RegistryTypeOK, Everyone
<1>2. CASE validationRange(h)
  <2>1. /\ owner' = [owner EXCEPT !["tag"][h] = DummySun]
        /\ toAllocate' = [toAllocate EXCEPT !["tag"] = IF h = @ THEN h ELSE h + 1]
        /\ UNCHANGED <<hasFatalErrors, symbolOf, handleOf, handler, settings, public, firstMode,
                       objects, resolved>>
    BY <1>2 DEF ResolveSymbols
  <2>2. h \in InRange /\ hasFatalErrors' \in BOOLEAN
    BY <1>0, <1>2, <2>1 DEF RegistryTypeOK, validationRange
  <2> HIDE DEF h
  <2>3. h = nextHandle("tag")
    BY DEF h
  <2> QED
    BY <1>1, <2>1, <2>2, <2>3, GiveHandle
<1>3. CASE ~ validationRange(h)
  <2>1. /\ hasFatalErrors' = TRUE
        /\ UNCHANGED <<owner, toAllocate, symbolOf, handleOf, handler, settings, public,
                       firstMode, objects, resolved>>
    BY <1>3 DEF ResolveSymbols
  <2>2. hasFatalErrors' \in BOOLEAN
    BY <2>1, Zenon
  <2> QED
    BY <1>1, <2>1, <2>2
       DEF RegistryInv, RegistryTypeOK, TablesInverse, LookUpsHold, OwnersRespected
<1> QED
  BY <1>2, <1>3

\* What a call that passes its validations leaves to show.
LEMMA ValidType ==
  ASSUME RegistryTypeOK, NEW p, NEW v, called(p), valid(p, v)
  PROVE  /\ v /\ calls' \in 0 .. MaxCalls /\ hasFatalErrors' \in BOOLEAN
         /\ stage' \in {"register", "resolve", "loop", "exit"}
BY CalledType DEF valid, RegistryTypeOK

\* setSlaveModeSymbol() and its siblings: the handle had no symbol and the symbol
\* no handle.
LEMMA SetSymbolRegistryInv ==
  ASSUME RegistryInv, NEW p \in Plugins, NEW k \in Kinds, NEW h \in Arguments, NEW s \in Symbols,
         SetSymbol(p, k, h, s)
  PROVE  RegistryInv'
<1>0. RegistryTypeOK /\ TablesInverse /\ LookUpsHold /\ OwnersRespected
  BY DEF RegistryInv
<1> DEFINE ok == /\ owned(p, k, h)
                 /\ validationSymbolAvailable(k, s) /\ validationSymbolNotRegistered(k, h)
<1>1. CASE invalid(p, ok)
  <2>1. called(p) /\ ok \in BOOLEAN
    BY DEF SetSymbol
  <2> HIDE DEF ok
  <2> QED
    BY <1>1, <2>1, InvalidRegistryInv
<1>2. CASE /\ valid(p, ok)
           /\ symbolOf' = [symbolOf EXCEPT ![k][h] = s]
           /\ handleOf' = [handleOf EXCEPT ![k][s] = h]
           /\ UNCHANGED <<plugins, toAllocate, owner, handler, settings, public, firstMode,
                          objects, resolved>>
  <2>1. /\ ok /\ calls' \in 0 .. MaxCalls /\ hasFatalErrors' \in BOOLEAN
        /\ stage' \in {"register", "resolve", "loop", "exit"}
    <3>1. called(p)
      BY DEF SetSymbol
    <3> HIDE DEF ok
    <3> QED
      BY <1>0, <1>2, <3>1, ValidType
  <2>2. /\ h \in InRange /\ owner[k][h] = p /\ p # Nobody
        /\ handleOf[k][s] = INVALID_HANDLE /\ symbolOf[k][h] = NoSymbol
    BY <2>1, Strangers DEF owned, validationRange, validationOwnership, Everyone,
                           validationSymbolAvailable, validationSymbolNotRegistered
  <2>3. /\ symbolOf' \in [Kinds -> [InRange -> Symbols \union {NoSymbol}]]
        /\ \A kk \in Kinds, hh \in InRange :
             symbolOf'[kk][hh] = IF kk = k /\ hh = h THEN s ELSE symbolOf[kk][hh]
    <3>1. s \in Symbols \union {NoSymbol}
          /\ symbolOf \in [Kinds -> [InRange -> Symbols \union {NoSymbol}]]
      BY <1>0 DEF RegistryTypeOK
    <3> QED
      BY <1>2, <2>2, <3>1, OneEntry
  <2>4. /\ handleOf' \in [Kinds -> [Symbols -> InRange \union {INVALID_HANDLE}]]
        /\ \A kk \in Kinds, ss \in Symbols :
             handleOf'[kk][ss] = IF kk = k /\ ss = s THEN h ELSE handleOf[kk][ss]
    <3>1. h \in InRange \union {INVALID_HANDLE}
          /\ handleOf \in [Kinds -> [Symbols -> InRange \union {INVALID_HANDLE}]]
      BY <1>0, <2>2 DEF RegistryTypeOK
    <3> QED
      BY <1>2, <3>1, OneEntry
  <2>5. RegistryTypeOK'
    BY <1>0, <1>2, <2>1, <2>3, <2>4 DEF RegistryTypeOK
  <2>6. TablesInverse'
    BY <1>0, <1>2, <2>2, <2>3, <2>4, Strangers, PluginRegistryAssumption DEF TablesInverse
  <2>7. LookUpsHold'
    <3>1. ASSUME NEW r \in resolved PROVE handleOf'[r.kind][r.symbol] = r.handle
      <4>1. r.kind \in Kinds /\ r.symbol \in Symbols /\ r.handle \in InRange
        BY <1>0 DEF RegistryTypeOK
      <4> QED
        BY <1>0, <2>2, <2>4, <4>1, Strangers DEF LookUpsHold
    <3> QED
      BY <1>2, <3>1 DEF LookUpsHold
  <2>8. OwnersRespected'
    BY <1>0, <1>2 DEF OwnersRespected
  <2> QED
    BY <2>5, <2>6, <2>7, <2>8 DEF RegistryInv
<1> QED
  BY <1>1, <1>2 DEF SetSymbol

\* setSlaveModeObjectHandler() and its siblings.
LEMMA SetObjectHandlerRegistryInv ==
  ASSUME RegistryInv, NEW p \in Plugins, NEW k \in Kinds, NEW h \in Arguments, SetObjectHandler(p, k, h)
  PROVE  RegistryInv'
<1>0. RegistryTypeOK /\ TablesInverse /\ LookUpsHold /\ OwnersRespected
  BY DEF RegistryInv
<1>1. called(p) /\ owned(p, k, h) \in BOOLEAN
  BY DEF SetObjectHandler, owned
<1>2. CASE invalid(p, owned(p, k, h))
  BY <1>1, <1>2, InvalidRegistryInv
<1>3. CASE /\ valid(p, owned(p, k, h))
           /\ handler' = [handler EXCEPT ![k][h] = p]
           /\ UNCHANGED <<plugins, toAllocate, owner, symbolOf, handleOf, settings, public,
                          firstMode, objects, resolved>>
  <2>1. /\ owned(p, k, h) /\ calls' \in 0 .. MaxCalls /\ hasFatalErrors' \in BOOLEAN
        /\ stage' \in {"register", "resolve", "loop", "exit"}
    BY <1>0, <1>1, <1>3, ValidType
  <2>2. h \in InRange /\ owner[k][h] = p
    BY <2>1 DEF owned, validationRange, validationOwnership
  <2>3. p \in Owner /\ handler \in [Kinds -> [InRange -> Owner]]
    BY <1>0 DEF RegistryTypeOK, Owner, Everyone
  <2>4. /\ handler' \in [Kinds -> [InRange -> Owner]]
        /\ \A kk \in Kinds, hh \in InRange :
             handler'[kk][hh] = IF kk = k /\ hh = h THEN p ELSE handler[kk][hh]
    BY <1>3, <2>2, <2>3, OneEntry
  <2>5. RegistryTypeOK'
    BY <1>0, <1>3, <2>1, <2>4 DEF RegistryTypeOK
  <2>6. TablesInverse' /\ LookUpsHold'
    BY <1>0, <1>3 DEF TablesInverse, LookUpsHold
  <2>7. OwnersRespected'
    BY <1>0, <1>3, <2>2, <2>4 DEF OwnersRespected
  <2> QED
    BY <2>5, <2>6, <2>7 DEF RegistryInv
<1> QED
  BY <1>2, <1>3 DEF SetObjectHandler

\* The switches, replies and sizes.
LEMMA ConfiguredRegistryInv ==
  ASSUME RegistryInv, NEW p \in Plugins, NEW k \in Kinds, NEW h \in Arguments,
         NEW ok \in BOOLEAN, ok => owned(p, k, h), configured(p, k, h, ok)
  PROVE  RegistryInv'
<1>0. RegistryTypeOK /\ TablesInverse /\ LookUpsHold /\ OwnersRespected
  BY DEF RegistryInv
<1>1. called(p)
  BY DEF configured
<1>2. CASE invalid(p, ok)
  BY <1>1, <1>2, InvalidRegistryInv
<1>3. CASE /\ valid(p, ok)
           /\ settings' = settings \union {[kind |-> k, handle |-> h, by |-> p]}
           /\ UNCHANGED <<plugins, toAllocate, owner, symbolOf, handleOf, handler, public,
                          firstMode, objects, resolved>>
  <2>1. /\ owned(p, k, h) /\ calls' \in 0 .. MaxCalls /\ hasFatalErrors' \in BOOLEAN
        /\ stage' \in {"register", "resolve", "loop", "exit"}
    BY <1>0, <1>1, <1>3, ValidType
  <2>2. h \in InRange /\ owner[k][h] = p
    BY <2>1 DEF owned, validationRange, validationOwnership
  <2>3. settings' \subseteq [kind : Kinds, handle : InRange, by : Plugins]
    BY <1>0, <1>3, <2>2 DEF RegistryTypeOK
  <2>4. RegistryTypeOK'
    BY <1>0, <1>3, <2>1, <2>3 DEF RegistryTypeOK
  <2>5. TablesInverse' /\ LookUpsHold'
    BY <1>0, <1>3 DEF TablesInverse, LookUpsHold
  <2>6. OwnersRespected'
    BY <1>0, <1>3, <2>2 DEF OwnersRespected
  <2> QED
    BY <2>4, <2>5, <2>6 DEF RegistryInv
<1> QED
  BY <1>2, <1>3 DEF configured

\* The handle that follows adds a validation.
LEMMA ConfigureRegistryInv ==
  ASSUME RegistryInv, NEW p \in Plugins, NEW k \in Kinds, NEW h \in Arguments,
         Configure(p, k, h) \/ \E follower \in Arguments : ConfigureFollower(p, k, h, follower)
  PROVE  RegistryInv'
<1>1. owned(p, k, h) \in BOOLEAN
  BY DEF owned
<1>2. CASE Configure(p, k, h)
  BY <1>1, <1>2, ConfiguredRegistryInv DEF Configure
<1>3. ASSUME NEW follower \in Arguments, ConfigureFollower(p, k, h, follower) PROVE RegistryInv'
  <2>1. PICK ok \in BOOLEAN : ok = (owned(p, k, h) /\ validationRange(follower))
    OBVIOUS
  <2>2. ok => owned(p, k, h)
    BY <2>1
  <2>3. configured(p, k, h, ok)
    BY <1>3, <2>1 DEF ConfigureFollower
  <2> QED
    BY <2>2, <2>3, ConfiguredRegistryInv
<1> QED
  BY <1>2, <1>3

\* setMasterModePublicAccess().
LEMMA PublicAccessRegistryInv ==
  ASSUME RegistryInv, NEW p \in Plugins, NEW h \in Arguments, SetMasterModePublicAccess(p, h)
  PROVE  RegistryInv'
<1>0. RegistryTypeOK /\ TablesInverse /\ LookUpsHold /\ OwnersRespected
  BY DEF RegistryInv
<1>1. called(p) /\ owned(p, "master", h) \in BOOLEAN
  BY DEF SetMasterModePublicAccess, owned
<1>2. CASE invalid(p, owned(p, "master", h))
  BY <1>1, <1>2, InvalidRegistryInv
<1>3. CASE /\ valid(p, owned(p, "master", h))
           /\ public' = public \union {h}
           /\ UNCHANGED <<plugins, toAllocate, owner, symbolOf, handleOf, handler, settings,
                          firstMode, objects, resolved>>
  <2>1. /\ owned(p, "master", h) /\ calls' \in 0 .. MaxCalls /\ hasFatalErrors' \in BOOLEAN
        /\ stage' \in {"register", "resolve", "loop", "exit"}
    BY <1>0, <1>1, <1>3, ValidType
  <2>2. h \in InRange
    BY <2>1 DEF owned, validationRange
  <2>3. RegistryTypeOK'
    BY <1>0, <1>3, <2>1, <2>2 DEF RegistryTypeOK
  <2>4. TablesInverse' /\ LookUpsHold' /\ OwnersRespected'
    BY <1>0, <1>3 DEF TablesInverse, LookUpsHold, OwnersRespected
  <2> QED
    BY <2>3, <2>4 DEF RegistryInv
<1> QED
  BY <1>2, <1>3 DEF SetMasterModePublicAccess

\* setFirstMasterMode().
LEMMA FirstMasterModeRegistryInv ==
  ASSUME RegistryInv, NEW p \in Plugins, NEW h \in Arguments, SetFirstMasterMode(p, h)
  PROVE  RegistryInv'
<1>0. RegistryTypeOK /\ TablesInverse /\ LookUpsHold /\ OwnersRespected
  BY DEF RegistryInv
<1> DEFINE ok == validationRange(h) /\ (h \in public \/ validationOwnership(p, "master", h))
<1>1. called(p) /\ ok \in BOOLEAN
  BY DEF SetFirstMasterMode
<1>2. CASE invalid(p, ok)
  <2> HIDE DEF ok
  <2> QED
    BY <1>1, <1>2, InvalidRegistryInv
<1>3. CASE /\ valid(p, ok)
           /\ firstMode' = {[mode |-> h, by |-> p]}
           /\ UNCHANGED <<plugins, toAllocate, owner, symbolOf, handleOf, handler, settings,
                          public, objects, resolved>>
  <2>1. /\ ok /\ calls' \in 0 .. MaxCalls /\ hasFatalErrors' \in BOOLEAN
        /\ stage' \in {"register", "resolve", "loop", "exit"}
    <3> HIDE DEF ok
    <3> QED
      BY <1>0, <1>1, <1>3, ValidType
  <2>2. h \in InRange /\ (h \in public \/ owner["master"][h] = p)
    BY <2>1 DEF validationRange, validationOwnership
  <2>3. RegistryTypeOK'
    BY <1>0, <1>3, <2>1, <2>2 DEF RegistryTypeOK
  <2>4. TablesInverse' /\ LookUpsHold' /\ OwnersRespected'
    BY <1>0, <1>3, <2>2 DEF TablesInverse, LookUpsHold, OwnersRespected
  <2> QED
    BY <2>3, <2>4 DEF RegistryInv
<1> QED
  BY <1>2, <1>3 DEF SetFirstMasterMode

\* setObjectSymbol().
LEMMA SetObjectSymbolRegistryInv ==
  ASSUME RegistryInv, NEW p \in Plugins, NEW s \in Symbols, SetObjectSymbol(p, s)
  PROVE  RegistryInv'
<1>0. RegistryTypeOK /\ TablesInverse /\ LookUpsHold /\ OwnersRespected
  BY DEF RegistryInv
<1> DEFINE ok == objects[s] = Nobody
<1>1. called(p) /\ ok \in BOOLEAN
  BY DEF SetObjectSymbol
<1>2. CASE invalid(p, ok)
  <2> HIDE DEF ok
  <2> QED
    BY <1>1, <1>2, InvalidRegistryInv
<1>3. CASE /\ valid(p, ok)
           /\ objects' = [objects EXCEPT ![s] = p]
           /\ UNCHANGED <<plugins, toAllocate, owner, symbolOf, handleOf, handler, settings,
                          public, firstMode, resolved>>
  <2>1. /\ calls' \in 0 .. MaxCalls /\ hasFatalErrors' \in BOOLEAN
        /\ stage' \in {"register", "resolve", "loop", "exit"}
    <3> HIDE DEF ok
    <3> QED
      BY <1>0, <1>1, <1>3, ValidType
  <2>2. RegistryTypeOK'
    BY <1>0, <1>3, <2>1 DEF RegistryTypeOK
  <2>3. TablesInverse' /\ LookUpsHold' /\ OwnersRespected'
    BY <1>0, <1>3 DEF TablesInverse, LookUpsHold, OwnersRespected
  <2> QED
    BY <2>2, <2>3 DEF RegistryInv
<1> QED
  BY <1>2, <1>3 DEF SetObjectSymbol

\* getSlaveModeFromSymbol() and its siblings.
LEMMA GetFromSymbolRegistryInv ==
  ASSUME RegistryInv, NEW p \in Plugins, NEW k \in Kinds, NEW s \in Symbols, GetFromSymbol(p, k, s)
  PROVE  RegistryInv'
<1>0. RegistryTypeOK /\ TablesInverse /\ LookUpsHold /\ OwnersRespected
  BY DEF RegistryInv
<1>1. UNCHANGED <<stage, plugins, toAllocate, owner, symbolOf, handleOf, handler, settings, public,
                  firstMode, objects, calls>>
  BY DEF GetFromSymbol
<1>2. CASE ~ validationSymbolRegistered(k, s)
  <2>1. hasFatalErrors' = TRUE /\ UNCHANGED resolved
    BY <1>2 DEF GetFromSymbol
  <2>2. hasFatalErrors' \in BOOLEAN
    BY <2>1, Zenon
  <2>3. /\ UNCHANGED tables /\ calls' \in 0 .. MaxCalls
        /\ stage' \in {"register", "resolve", "loop", "exit"}
    BY <1>0, <1>1, <2>1 DEF tables, RegistryTypeOK
  <2> QED
    BY <2>2, <2>3, TablesUnchanged
<1>3. CASE validationSymbolRegistered(k, s)
  <2> DEFINE r0 == [kind |-> k, symbol |-> s, handle |-> handleOf[k][s], by |-> p]
  <2>1. resolved' = resolved \union {r0} /\ UNCHANGED hasFatalErrors
    BY <1>3 DEF GetFromSymbol
  <2>2. handleOf[k][s] \in InRange
    BY <1>0, <1>3 DEF RegistryTypeOK, validationSymbolRegistered
  <2>3. r0 \in [kind : Kinds, symbol : Symbols, handle : InRange, by : Plugins]
    BY <2>2
  <2>4. RegistryTypeOK'
    <3> HIDE DEF r0
    <3> QED
      BY <1>0, <1>1, <2>1, <2>3 DEF RegistryTypeOK
  <2>5. LookUpsHold'
    BY <1>0, <1>1, <2>1 DEF LookUpsHold
  <2>6. TablesInverse' /\ OwnersRespected'
    BY <1>0, <1>1 DEF TablesInverse, OwnersRespected
  <2> QED
    BY <2>4, <2>5, <2>6 DEF RegistryInv
<1> QED
  BY <1>2, <1>3

\* allocatePluginHandle(), and run() after the registration: the tables stay.
LEMMA OtherRegistryInv ==
  ASSUME RegistryInv, (\E p \in Plugins : AllocatePluginHandle(p)) \/ Run \/ UNCHANGED registryVars
  PROVE  RegistryInv'
<1>0. RegistryTypeOK
  BY DEF RegistryInv
<1>1. CASE \E p \in Plugins : AllocatePluginHandle(p)
  <2>1. PICK p \in Plugins : AllocatePluginHandle(p)
    BY <1>1
  <2>2. plugins' \subseteq Everyone
    BY <1>0, <2>1 DEF AllocatePluginHandle, RegistryTypeOK, Everyone
  <2>3. UNCHANGED <<stage, hasFatalErrors, toAllocate, owner, symbolOf, handleOf, handler,
                    settings, public, firstMode, objects, resolved, calls>>
    BY <2>1 DEF AllocatePluginHandle
  <2> QED
    BY <2>2, <2>3 DEF RegistryInv, RegistryTypeOK, TablesInverse, LookUpsHold, OwnersRespected
<1>2. CASE Run
  <2>1. stage' \in {"register", "resolve", "loop", "exit"}
    BY <1>2 DEF Run
  <2>2. /\ UNCHANGED tables /\ hasFatalErrors' \in BOOLEAN /\ calls' \in 0 .. MaxCalls
    BY <1>0, <1>2 DEF Run, RegistryTypeOK
  <2> QED
    BY <2>1, <2>2, TablesUnchanged
<1>3. CASE UNCHANGED registryVars
  <2>1. /\ UNCHANGED tables /\ hasFatalErrors' \in BOOLEAN /\ calls' \in 0 .. MaxCalls
        /\ stage' \in {"register", "resolve", "loop", "exit"}
    BY <1>0, <1>3 DEF registryVars, tables, RegistryTypeOK
  <2> QED
    BY <2>1, TablesUnchanged
<1> QED
  BY <1>1, <1>2, <1>3

------------------------------------------------------------------------------
\* Every step preserves the invariant.
LEMMA NextRegistryInv == RegistryInv /\ [RegistryNext]_registryVars => RegistryInv'
<1> SUFFICES ASSUME RegistryInv, [RegistryNext]_registryVars PROVE RegistryInv'
  OBVIOUS
<1>1. CASE UNCHANGED registryVars
  BY <1>1, OtherRegistryInv
<1>2. CASE ResolveSymbols
  BY <1>2, ResolveSymbolsRegistryInv
<1>3. CASE Run
  BY <1>3, OtherRegistryInv
<1>4. ASSUME NEW p \in Plugins, AllocatePluginHandle(p) PROVE RegistryInv'
  BY <1>4, OtherRegistryInv
<1>5. ASSUME NEW p \in Plugins, NEW k \in Kinds,
             \/ AllocateHandle(p, k)
             \/ \E h \in Arguments :
                  \/ SetObjectHandler(p, k, h) \/ Configure(p, k, h)
                  \/ \E follower \in Arguments : ConfigureFollower(p, k, h, follower)
                  \/ \E s \in Symbols : SetSymbol(p, k, h, s)
             \/ \E s \in Symbols : GetFromSymbol(p, k, s)
      PROVE  RegistryInv'
  BY <1>5, AllocateHandleRegistryInv, SetObjectHandlerRegistryInv, ConfigureRegistryInv, SetSymbolRegistryInv,
     GetFromSymbolRegistryInv
<1>6. ASSUME NEW p \in Plugins,
             \/ \E h \in Arguments : SetMasterModePublicAccess(p, h) \/ SetFirstMasterMode(p, h)
             \/ \E s \in Symbols : SetObjectSymbol(p, s)
      PROVE  RegistryInv'
  BY <1>6, PublicAccessRegistryInv, FirstMasterModeRegistryInv, SetObjectSymbolRegistryInv
<1> QED
  BY <1>1, <1>2, <1>3, <1>4, <1>5, <1>6 DEF RegistryNext

\* The invariant holds in every state.
LEMMA SpecRegistryInv == RegistrySpec => []RegistryInv
BY InitRegistryInv, NextRegistryInv, PTL DEF RegistrySpec

\* The tables hold handles in range, symbols and plugins, whatever arguments the
\* calls were made with.
THEOREM RegistryTypeCorrect == RegistrySpec => []RegistryTypeOK
<1>1. RegistryInv => RegistryTypeOK
  BY DEF RegistryInv
<1> QED
  BY <1>1, SpecRegistryInv, PTL

\* A symbol that was looked up leads to the handle its one owner gave it, and
\* handlers, settings and the first master mode respect the owners.
THEOREM LookUpsResolve == RegistrySpec => []SymbolsResolve
<1>1. RegistryInv => SymbolsResolve
  <2> SUFFICES ASSUME RegistryInv PROVE SymbolsResolve
    OBVIOUS
  <2>0. RegistryTypeOK /\ TablesInverse /\ LookUpsHold /\ OwnersRespected
    BY DEF RegistryInv
  <2>1. ASSUME NEW r \in resolved
        PROVE  /\ owner[r.kind][r.handle] # Nobody
               /\ symbolOf[r.kind][r.handle] = r.symbol
               /\ \A h \in InRange : symbolOf[r.kind][h] = r.symbol => h = r.handle
    <3>1. r.kind \in Kinds /\ r.symbol \in Symbols /\ r.handle \in InRange
      BY <2>0 DEF RegistryTypeOK
    <3>2. handleOf[r.kind][r.symbol] = r.handle
      BY <2>0 DEF LookUpsHold
    <3> QED
      BY <2>0, <3>1, <3>2 DEF TablesInverse
  <2> QED
    BY <2>0, <2>1 DEF SymbolsResolve, OwnersRespected
<1> QED
  BY <1>1, SpecRegistryInv, PTL

\* No call takes a handle from the plugin that owns it.
OwnersStay ==
  \A k \in Kinds, h \in InRange : owner[k][h] # Nobody => owner'[k][h] = owner[k][h]

\* The allocations pass over the handles that are owned, so that a plugin keeps
\* what it was given for as long as the rank runs.
THEOREM OwnershipIsFinal == RegistrySpec => [][OwnersStay]_registryVars
<1>1. RegistryInv /\ [RegistryNext]_registryVars => [OwnersStay]_registryVars
  <2> SUFFICES ASSUME RegistryInv, RegistryNext, owner' # owner PROVE OwnersStay
    BY DEF OwnersStay
  <2>0. RegistryTypeOK
    BY DEF RegistryInv
  <2>1. PICK k \in Kinds, q \in Everyone :
          owner' = [owner EXCEPT ![k][nextHandle(k)] = q] /\ nextHandle(k) \in InRange
    <3>1. CASE ResolveSymbols
      <4>1. "tag" \in Kinds /\ DummySun \in Everyone
        BY PluginRegistryAssumption DEF Everyone
      <4> QED
        BY <3>1, <4>1 DEF ResolveSymbols, validationRange
    <3>2. ASSUME NEW p \in Plugins, NEW k \in Kinds, AllocateHandle(p, k)
          PROVE  /\ owner' = [owner EXCEPT ![k][nextHandle(k)] = p]
                 /\ nextHandle(k) \in InRange /\ p \in Everyone
      BY <3>2 DEF AllocateHandle, valid, invalid, tables, validationRange, Everyone
    <3>3. CASE \E p \in Plugins, k \in Kinds : AllocateHandle(p, k)
      BY <3>2, <3>3
    <3>4. ASSUME NEW p \in Plugins, NEW k \in Kinds, NEW s \in Symbols,
                 GetFromSymbol(p, k, s) \/ (\E h \in Arguments : SetSymbol(p, k, h, s))
          PROVE  FALSE
      BY <3>4 DEF SetSymbol, GetFromSymbol, invalid, tables
    <3>5. ASSUME NEW p \in Plugins, NEW k \in Kinds, NEW h \in Arguments,
                 \/ SetObjectHandler(p, k, h) \/ Configure(p, k, h)
                 \/ \E follower \in Arguments : ConfigureFollower(p, k, h, follower)
          PROVE  FALSE
      BY <3>5 DEF SetObjectHandler, Configure, ConfigureFollower, configured, invalid, tables
    <3>6. ASSUME NEW p \in Plugins, NEW h \in Arguments,
                 SetMasterModePublicAccess(p, h) \/ SetFirstMasterMode(p, h)
          PROVE  FALSE
      BY <3>6 DEF SetMasterModePublicAccess, SetFirstMasterMode, invalid, tables
    <3>7. ASSUME NEW p \in Plugins,
                 AllocatePluginHandle(p) \/ \E s \in Symbols : SetObjectSymbol(p, s)
          PROVE  FALSE
      BY <3>7 DEF AllocatePluginHandle, SetObjectSymbol, invalid, tables
    <3>8. ~ Run
      BY DEF Run, tables
    <3> QED
      BY <3>1, <3>3, <3>4, <3>5, <3>6, <3>7, <3>8 DEF RegistryNext
  <2>2. owner[k][nextHandle(k)] = Nobody
    BY <2>0, <2>1, NextHandleIsFree, PluginRegistryAssumption DEF InRange
  <2>3. owner \in [Kinds -> [InRange -> Owner]] /\ q \in Owner
    BY <2>0, <2>1 DEF RegistryTypeOK, Owner
  <2>4. \A kk \in Kinds, hh \in InRange :
          owner'[kk][hh] = IF kk = k /\ hh = nextHandle(k) THEN q ELSE owner[kk][hh]
    BY <2>1, <2>3, OneEntry
  <2> QED
    BY <2>2, <2>4 DEF OwnersStay
<1> QED
  BY <1>1, SpecRegistryInv, PTL DEF RegistrySpec

(***************************************************************************)
(* Actors                                                                  *)
(***************************************************************************)
\* For any number of ranks, actors and messages, and whatever the actors
\* do: actors/Playground.cpp counts its living actors right, and the name
\* of an actor leads to it.

Flags == {"setup", "boot", "loop", "left", "crashed"}

\* The tables of the ranks hold lists, counters and flags.
PlaygroundTypeOK ==
  /\ actors \in [ActorRanks -> Seq(Int)]
  /\ aliveActors \in [ActorRanks -> Int]
  /\ bornActors \in [ActorRanks -> Int]
  /\ deadActors \in [ActorRanks -> Int]
  /\ status \in [ActorRanks -> Flags]
  /\ bootNext \in [ActorRanks -> Nat]
  /\ mailed \in Int

\* The name of r's actor at the i-th place of its list.
nameAt(r, i) == r + (i - 1) * Size

\* Who lives at a place has the name of that place, and the first one is empty.
NamedByPlace(r, list) == \A i \in liveIn(list) : i # 1 /\ list[i] = nameAt(r, i)

\* The list of r and its counters agree.
Counted(r) ==
  /\ NamedByPlace(r, actors[r])
  /\ IsFiniteSet(liveIn(actors[r]))
  /\ aliveActors[r] = Cardinality(liveIn(actors[r]))
  /\ bornActors[r] = aliveActors[r] + deadActors[r]
  /\ status[r] = "left" => liveIn(actors[r]) = {}

\* A message is on its way to the rank its address names.
MailAddressed == \A m \in mail : m.to \in Nat /\ m.rank = getActorRank(m.to)

\* The inductive invariant.
PlaygroundInv == PlaygroundTypeOK /\ (\A r \in ActorRanks : Counted(r)) /\ MailAddressed

------------------------------------------------------------------------------
\* Quotient and remainder by the number of ranks are unique.
LEMMA Division ==
  ASSUME NEW r \in ActorRanks, NEW p \in Nat
  PROVE  (r + p * Size) % Size = r /\ (r + p * Size) \div Size = p
<1> DEFINE x == r + p * Size
           q == x \div Size
           m == x % Size
<1>1. Size \in Nat /\ Size > 0 /\ r \in Nat /\ r < Size
  BY PlaygroundAssumption DEF ActorRanks
<1>2. x \in Int /\ q \in Int /\ m \in 0 .. Size - 1 /\ x = Size * q + m
  BY <1>1
<1>3. p * Size = Size * p
  BY <1>1
<1> HIDE DEF q, m
<1>4. Size * (q - p) = r - m
  BY <1>1, <1>2, <1>3
<1>5. ASSUME q - p >= 1 PROVE FALSE
  <2>1. Size * (q - p) >= Size
    BY <1>1, <1>2, <1>5
  <2> QED
    BY <1>1, <1>2, <1>4, <2>1
<1>6. ASSUME q - p <= -1 PROVE FALSE
  <2>1. Size * (q - p) <= -Size
    BY <1>1, <1>2, <1>6
  <2> QED
    BY <1>1, <1>2, <1>4, <2>1
<1>7. q = p
  BY <1>1, <1>2, <1>5, <1>6
<1>8. m = r
  BY <1>1, <1>2, <1>4, <1>7
<1> QED
  BY <1>7, <1>8 DEF q, m

\* A spawned actor takes the next place, under the name of that place.
LEMMA SpawnedList ==
  ASSUME NEW r \in ActorRanks, NEW list \in Seq(Int), NamedByPlace(r, list),
         IsFiniteSet(liveIn(list))
  PROVE  /\ spawnActor(r, list) \in Seq(Int)
         /\ NamedByPlace(r, spawnActor(r, list))
         /\ liveIn(spawnActor(r, list)) = liveIn(list) \union {Len(spawnActor(r, list))}
         /\ IsFiniteSet(liveIn(spawnActor(r, list)))
         /\ Cardinality(liveIn(spawnActor(r, list))) = Cardinality(liveIn(list)) + 1
         /\ Len(list) < Len(spawnActor(r, list))
         /\ \A i \in 1 .. Len(list) : spawnActor(r, list)[i] = list[i]
<1> DEFINE places == placesBefore(list)
           n == Len(places)
           new == spawnActor(r, list)
<1>1. Size \in Nat /\ Size > 0 /\ r \in Nat /\ NULL \in Int /\ NULL = -1
  BY PlaygroundAssumption DEF ActorRanks, NULL
<1>2. /\ places \in Seq(Int) /\ n \in Nat /\ n >= 1 /\ Len(list) <= n
      /\ \A i \in 1 .. Len(list) : places[i] = list[i]
      /\ liveIn(places) = liveIn(list)
  <2>1. CASE list = << >>
    BY <1>1, <2>1 DEF placesBefore, liveIn
  <2>2. CASE list # << >>
    BY <2>2 DEF placesBefore
  <2> QED
    BY <2>1, <2>2
<1>3. r + n * Size \in Nat
  BY <1>1, <1>2
<1>4. new = Append(places, r + n * Size)
  BY DEF spawnActor
<1> HIDE DEF places, new
<1>5. /\ new \in Seq(Int) /\ Len(new) = n + 1 /\ new[n + 1] = r + n * Size
      /\ \A i \in 1 .. n : new[i] = places[i]
      /\ DOMAIN new = 1 .. n + 1 /\ DOMAIN places = 1 .. n
  BY <1>2, <1>3, <1>4 DEF n
<1> HIDE DEF n
<1>6. new[n + 1] # NULL
  BY <1>1, <1>3, <1>5
<1>7. liveIn(new) = liveIn(places) \union {n + 1}
  BY <1>2, <1>5, <1>6 DEF liveIn
<1>8. n + 1 \notin liveIn(places)
  BY <1>2, <1>5 DEF liveIn
<1>9. liveIn(new) = liveIn(list) \union {n + 1} /\ n + 1 \notin liveIn(list)
  BY <1>2, <1>7, <1>8
<1>10. IsFiniteSet(liveIn(new)) /\ Cardinality(liveIn(new)) = Cardinality(liveIn(list)) + 1
  BY <1>9, FS_AddElement
<1>11. NamedByPlace(r, new)
  <2> SUFFICES ASSUME NEW i \in liveIn(new) PROVE i # 1 /\ new[i] = nameAt(r, i)
    BY DEF NamedByPlace
  <2>1. CASE i = n + 1
    <3>1. i # 1 /\ i - 1 = n
      BY <1>2, <2>1
    <3> QED
      BY <1>5, <2>1, <3>1 DEF nameAt
  <2>2. CASE i \in liveIn(list)
    <3>1. i \in 1 .. Len(list)
      BY <2>2 DEF liveIn
    <3>2. new[i] = list[i]
      BY <1>2, <1>5, <3>1
    <3> QED
      BY <2>2, <3>2 DEF NamedByPlace
  <2> QED
    BY <1>9, <2>1, <2>2
<1> QED
  BY <1>2, <1>5, <1>9, <1>10, <1>11 DEF new

\* A dead actor's place is emptied, and nobody else's.
LEMMA BuriedList ==
  ASSUME NEW r \in ActorRanks, NEW list \in Seq(Int), NamedByPlace(r, list),
         IsFiniteSet(liveIn(list)), NEW place \in Nat, place + 1 \in liveIn(list)
  PROVE  /\ buried(list, place) \in Seq(Int)
         /\ NamedByPlace(r, buried(list, place))
         /\ IsFiniteSet(liveIn(buried(list, place)))
         /\ Cardinality(liveIn(buried(list, place))) = Cardinality(liveIn(list)) - 1
<1> DEFINE new == buried(list, place)
<1>1. place + 1 \in DOMAIN list /\ NULL \in Int
  BY DEF liveIn, NULL
<1>2. /\ new \in Seq(Int) /\ DOMAIN new = DOMAIN list /\ new[place + 1] = NULL
      /\ \A i \in DOMAIN list : i # place + 1 => new[i] = list[i]
  BY <1>1 DEF buried
<1> HIDE DEF new
<1>3. liveIn(new) = liveIn(list) \ {place + 1}
  BY <1>1, <1>2 DEF liveIn
<1>4. IsFiniteSet(liveIn(new)) /\ Cardinality(liveIn(new)) = Cardinality(liveIn(list)) - 1
  BY <1>3, FS_RemoveElement
<1>5. NamedByPlace(r, new)
  BY <1>2, <1>3 DEF NamedByPlace, liveIn
<1> QED
  BY <1>2, <1>4, <1>5 DEF new

\* The start: nobody lives.
LEMMA InitPlaygroundInv == PlaygroundInit => PlaygroundInv
<1> SUFFICES ASSUME PlaygroundInit PROVE PlaygroundInv
  OBVIOUS
<1>1. PlaygroundTypeOK
  BY DEF PlaygroundInit, PlaygroundTypeOK, Flags
<1>2. ASSUME NEW r \in ActorRanks PROVE Counted(r)
  <2>1. liveIn(actors[r]) = {}
    BY DEF PlaygroundInit, liveIn
  <2>2. IsFiniteSet({}) /\ Cardinality({}) = 0
    BY FS_EmptySet
  <2>3. aliveActors[r] = 0 /\ bornActors[r] = 0 /\ deadActors[r] = 0
    BY DEF PlaygroundInit
  <2> QED
    BY <2>1, <2>2, <2>3 DEF Counted, NamedByPlace
<1>3. MailAddressed
  BY DEF PlaygroundInit, MailAddressed
<1> QED
  BY <1>1, <1>2, <1>3 DEF PlaygroundInv

\* A rank that a step leaves alone, and that does not leave the loop in it.
LEMMA CountedUnchanged ==
  ASSUME NEW r \in ActorRanks, Counted(r), actors'[r] = actors[r],
         aliveActors'[r] = aliveActors[r], bornActors'[r] = bornActors[r],
         deadActors'[r] = deadActors[r], status'[r] = "left" => status[r] = "left"
  PROVE  Counted(r)'
BY DEF Counted, NamedByPlace, liveIn, nameAt

\* spawnActor() for a rank that has not left its loop.
LEMMA SpawnCounted ==
  ASSUME PlaygroundTypeOK, NEW r \in ActorRanks, Counted(r), status'[r] # "left",
         actors'[r] = spawnActor(r, actors[r]),
         aliveActors'[r] = aliveActors[r] + 1, bornActors'[r] = bornActors[r] + 1,
         deadActors'[r] = deadActors[r]
  PROVE  Counted(r)' /\ actors'[r] \in Seq(Int)
<1> DEFINE new == spawnActor(r, actors[r])
<1>1. /\ actors[r] \in Seq(Int) /\ NamedByPlace(r, actors[r]) /\ IsFiniteSet(liveIn(actors[r]))
      /\ aliveActors[r] \in Int /\ bornActors[r] \in Int /\ deadActors[r] \in Int
  BY DEF Counted, PlaygroundTypeOK
<1>2. /\ new \in Seq(Int) /\ NamedByPlace(r, new) /\ IsFiniteSet(liveIn(new))
      /\ Cardinality(liveIn(new)) = Cardinality(liveIn(actors[r])) + 1
  BY <1>1, SpawnedList
<1>3. Cardinality(liveIn(new)) = aliveActors'[r] /\ bornActors'[r] = aliveActors'[r] + deadActors'[r]
  BY <1>1, <1>2 DEF Counted
<1>4. NamedByPlace(r, actors[r])' /\ liveIn(actors[r])' = liveIn(new)
  <2>1. actors'[r] = new
    OBVIOUS
  <2> QED
    BY <1>2, <2>1 DEF NamedByPlace, liveIn, nameAt
<1> QED
  BY <1>2, <1>3, <1>4 DEF Counted

\* The actor at a place reacts to a message or to being booted, and may spawn,
\* send and die; or there is nobody at that place.
LEMMA ReactionPlaygroundInv ==
  ASSUME PlaygroundInv, NEW r \in ActorRanks, NEW place \in Nat, NEW others, others \subseteq mail,
         receiveActorMessage(r, place, others),
         status[r] # "left", status' \in [ActorRanks -> Flags], bootNext' \in [ActorRanks -> Nat],
         \A s \in ActorRanks : status'[s] = "left" => status[s] = "left"
  PROVE  PlaygroundInv'
<1>0. PlaygroundTypeOK /\ (\A s \in ActorRanks : Counted(s)) /\ MailAddressed
  BY DEF PlaygroundInv
<1>1. status'[r] # "left"
  OBVIOUS
<1>2. CASE ~ (place < Len(actors[r]) /\ actors[r][place + 1] # NULL)
  <2>1. /\ mail' = others /\ UNCHANGED <<actors, aliveActors, bornActors, deadActors, mailed>>
    BY <1>2 DEF receiveActorMessage
  <2>2. PlaygroundTypeOK'
    BY <1>0, <2>1 DEF PlaygroundTypeOK
  <2>3. \A s \in ActorRanks : Counted(s)'
    BY <1>0, <2>1, CountedUnchanged
  <2>4. MailAddressed'
    BY <1>0, <2>1 DEF MailAddressed
  <2> QED
    BY <2>2, <2>3, <2>4 DEF PlaygroundInv
<1>3. CASE place < Len(actors[r]) /\ actors[r][place + 1] # NULL
  <2> DEFINE old == actors[r]
             name == old[place + 1]
  <2>1. PICK spawns \in BOOLEAN, dies \in BOOLEAN, sends \in {{}} \union {{n} : n \in Names} :
          LET list == IF spawns THEN spawnActor(r, actors[r]) ELSE actors[r]
          IN  /\ actors' = [actors EXCEPT ![r] = IF dies THEN buried(list, place) ELSE list]
              /\ bornActors' = [bornActors EXCEPT ![r] = @ + IF spawns THEN 1 ELSE 0]
              /\ deadActors' = [deadActors EXCEPT ![r] = @ + IF dies THEN 1 ELSE 0]
              /\ aliveActors' = [aliveActors EXCEPT ![r] = @ + (IF spawns THEN 1 ELSE 0)
                                                             - (IF dies THEN 1 ELSE 0)]
              /\ mail' = others \union {[id |-> mailed, from |-> name, to |-> n,
                                         rank |-> getActorRank(n)] : n \in sends}
              /\ mailed' = mailed + Cardinality(sends)
    BY <1>3 DEF receiveActorMessage
  <2> DEFINE list == IF spawns THEN spawnActor(r, actors[r]) ELSE actors[r]
             new == IF dies THEN buried(list, place) ELSE list
             b == IF spawns THEN 1 ELSE 0
             d == IF dies THEN 1 ELSE 0
  <2>2. /\ old \in Seq(Int) /\ NamedByPlace(r, old) /\ IsFiniteSet(liveIn(old))
        /\ aliveActors[r] = Cardinality(liveIn(old)) /\ bornActors[r] = aliveActors[r] + deadActors[r]
        /\ aliveActors[r] \in Int /\ bornActors[r] \in Int /\ deadActors[r] \in Int
        /\ b \in Int /\ d \in Int
    BY <1>0 DEF Counted, PlaygroundTypeOK
  <2>3. place + 1 \in liveIn(old) /\ place + 1 \in 1 .. Len(old)
    BY <1>3, <2>2 DEF liveIn
  <2>4. /\ list \in Seq(Int) /\ NamedByPlace(r, list) /\ IsFiniteSet(liveIn(list))
        /\ Cardinality(liveIn(list)) = aliveActors[r] + b /\ place + 1 \in liveIn(list)
    <3>1. CASE spawns
      <4>1. list = spawnActor(r, old)
        BY <3>1
      <4> HIDE DEF list
      <4>2. /\ list \in Seq(Int) /\ NamedByPlace(r, list) /\ IsFiniteSet(liveIn(list))
            /\ Cardinality(liveIn(list)) = Cardinality(liveIn(old)) + 1
            /\ liveIn(list) = liveIn(old) \union {Len(list)}
        <5> HIDE DEF old
        <5> QED
          BY <2>2, <4>1, SpawnedList
      <4> QED
        BY <2>2, <2>3, <3>1, <4>2
    <3>2. CASE ~ spawns
      BY <2>2, <2>3, <3>2
    <3> QED
      BY <3>1, <3>2
  <2>5. /\ new \in Seq(Int) /\ NamedByPlace(r, new) /\ IsFiniteSet(liveIn(new))
        /\ Cardinality(liveIn(new)) = aliveActors[r] + b - d
    <3> HIDE DEF list, b
    <3>1. CASE dies
      <4>1. new = buried(list, place)
        BY <3>1
      <4>2. /\ new \in Seq(Int) /\ NamedByPlace(r, new) /\ IsFiniteSet(liveIn(new))
            /\ Cardinality(liveIn(new)) = Cardinality(liveIn(list)) - 1
        BY <2>4, <4>1, BuriedList
      <4> QED
        BY <2>2, <2>4, <3>1, <4>2
    <3>2. CASE ~ dies
      BY <2>2, <2>4, <3>2
    <3> QED
      BY <3>1, <3>2
  <2>6. /\ actors' = [actors EXCEPT ![r] = new]
        /\ bornActors' = [bornActors EXCEPT ![r] = bornActors[r] + b]
        /\ deadActors' = [deadActors EXCEPT ![r] = deadActors[r] + d]
        /\ aliveActors' = [aliveActors EXCEPT ![r] = aliveActors[r] + b - d]
    BY <2>1
  <2> HIDE DEF new, b, d, list, old
  <2>7. PlaygroundTypeOK'
    <3>1. mailed' \in Int
      <4>1. IsFiniteSet(sends)
        BY FS_EmptySet, FS_Singleton, ZenonT(60)
      <4>2. Cardinality(sends) \in Nat
        BY <4>1, FS_CardinalityType
      <4> QED
        BY <1>0, <2>1, <4>2 DEF PlaygroundTypeOK
    <3>2. actors' \in [ActorRanks -> Seq(Int)]
      BY <1>0, <2>5, <2>6 DEF PlaygroundTypeOK
    <3>3. /\ aliveActors[r] + b - d \in Int /\ bornActors[r] + b \in Int
          /\ deadActors[r] + d \in Int
      BY <2>2
    <3>4. /\ aliveActors' \in [ActorRanks -> Int] /\ bornActors' \in [ActorRanks -> Int]
          /\ deadActors' \in [ActorRanks -> Int]
      BY <1>0, <2>6, <3>3 DEF PlaygroundTypeOK
    <3> QED
      BY <3>1, <3>2, <3>4 DEF PlaygroundTypeOK
  <2>8. Counted(r)'
    <3>1. /\ actors'[r] = new /\ aliveActors'[r] = aliveActors[r] + b - d
          /\ bornActors'[r] = bornActors[r] + b /\ deadActors'[r] = deadActors[r] + d
      BY <1>0, <2>6 DEF PlaygroundTypeOK
    <3>2. bornActors'[r] = aliveActors'[r] + deadActors'[r]
      BY <2>2, <3>1
    <3>3. NamedByPlace(r, actors[r])' /\ liveIn(actors[r])' = liveIn(new)
      BY <2>5, <3>1 DEF NamedByPlace, liveIn, nameAt
    <3> QED
      BY <1>1, <2>5, <3>1, <3>2, <3>3 DEF Counted
  <2>9. ASSUME NEW s \in ActorRanks, s # r PROVE Counted(s)'
    BY <1>0, <2>6, <2>9, CountedUnchanged DEF PlaygroundTypeOK
  <2>10. MailAddressed'
    <3>1. sends \subseteq Nat
      BY PlaygroundAssumption DEF Names
    <3> QED
      BY <1>0, <2>1, <3>1 DEF MailAddressed
  <2> QED
    BY <2>7, <2>8, <2>9, <2>10 DEF PlaygroundInv
<1> QED
  BY <1>2, <1>3

------------------------------------------------------------------------------
\* A step that only moves a rank on in its own course.
LEMMA FlagsPlaygroundInv ==
  ASSUME PlaygroundInv, UNCHANGED <<actors, aliveActors, bornActors, deadActors, mailed>>,
         mail' \subseteq mail,
         status' \in [ActorRanks -> Flags], bootNext' \in [ActorRanks -> Nat],
         \A r \in ActorRanks :
           status'[r] = "left" => status[r] = "left" \/ liveIn(actors[r]) = {}
  PROVE  PlaygroundInv'
<1>1. PlaygroundTypeOK'
  BY DEF PlaygroundInv, PlaygroundTypeOK
<1>2. ASSUME NEW r \in ActorRanks PROVE Counted(r)'
  BY DEF PlaygroundInv, Counted, NamedByPlace, liveIn, nameAt
<1>3. MailAddressed'
  BY DEF PlaygroundInv, MailAddressed
<1> QED
  BY <1>1, <1>2, <1>3 DEF PlaygroundInv

\* ComputeCore::spawn() before run().
LEMMA SpawnFirstPlaygroundInv ==
  ASSUME PlaygroundInv, NEW r \in ActorRanks, SpawnFirst(r)
  PROVE  PlaygroundInv'
<1>0. PlaygroundTypeOK /\ (\A s \in ActorRanks : Counted(s)) /\ MailAddressed
  BY DEF PlaygroundInv
<1>1. /\ actors'[r] = spawnActor(r, actors[r])
      /\ aliveActors'[r] = aliveActors[r] + 1 /\ bornActors'[r] = bornActors[r] + 1
      /\ deadActors'[r] = deadActors[r] /\ status'[r] # "left"
  BY <1>0 DEF SpawnFirst, PlaygroundTypeOK
<1>2. Counted(r)' /\ actors'[r] \in Seq(Int)
  BY <1>0, <1>1, SpawnCounted
<1>3. ASSUME NEW s \in ActorRanks, s # r PROVE Counted(s)'
  BY <1>0, <1>3, CountedUnchanged DEF SpawnFirst, PlaygroundTypeOK
<1>4. actors' = [actors EXCEPT ![r] = actors'[r]]
  BY <1>0 DEF SpawnFirst, PlaygroundTypeOK
<1>5. PlaygroundTypeOK'
  BY <1>0, <1>2, <1>4 DEF SpawnFirst, PlaygroundTypeOK
<1>6. MailAddressed'
  BY <1>0 DEF SpawnFirst, MailAddressed
<1> QED
  BY <1>2, <1>3, <1>5, <1>6 DEF PlaygroundInv

\* processMessages(): the addressed actor reacts, or nobody does.
LEMMA ReceivePlaygroundInv ==
  ASSUME PlaygroundInv, NEW r \in ActorRanks, NEW m \in mail, Receive(r, m)
  PROVE  PlaygroundInv'
<1>1. PlaygroundTypeOK /\ MailAddressed
  BY DEF PlaygroundInv
<1>2. /\ status[r] = "loop" /\ status' \in [ActorRanks -> Flags] /\ bootNext' \in [ActorRanks -> Nat]
      /\ \A s \in ActorRanks : status'[s] = "left" => status[s] = "left"
  BY <1>1 DEF Receive, PlaygroundTypeOK, Flags
<1>3. CASE isActorModelMessage(m)
  <2>1. placeOf(m.to) \in Nat
    BY <1>1, PlaygroundAssumption DEF MailAddressed, placeOf
  <2>2. receiveActorMessage(r, placeOf(m.to), mail \ {m}) /\ mail \ {m} \subseteq mail
    BY <1>3 DEF Receive
  <2> QED
    BY <1>2, <2>1, <2>2, ReactionPlaygroundInv
<1>4. CASE ~ isActorModelMessage(m)
  <2>1. mail' = mail \ {m} /\ UNCHANGED <<actors, aliveActors, bornActors, deadActors, mailed>>
    BY <1>4 DEF Receive
  <2> QED
    BY <1>2, <2>1, FlagsPlaygroundInv
<1> QED
  BY <1>3, <1>4

\* Every step preserves the invariant.
LEMMA NextPlaygroundInv == PlaygroundInv /\ [PlaygroundNext]_playgroundVars => PlaygroundInv'
<1> SUFFICES ASSUME PlaygroundInv, [PlaygroundNext]_playgroundVars PROVE PlaygroundInv'
  OBVIOUS
<1>0. PlaygroundTypeOK /\ \A r \in ActorRanks : Counted(r)
  BY DEF PlaygroundInv
<1>1. CASE UNCHANGED playgroundVars
  BY <1>0, <1>1, FlagsPlaygroundInv DEF playgroundVars, PlaygroundTypeOK
<1>2. ASSUME NEW r \in ActorRanks, SpawnFirst(r) PROVE PlaygroundInv'
  BY <1>2, SpawnFirstPlaygroundInv
<1>3. ASSUME NEW r \in ActorRanks, StartBoot(r) \/ EnterLoop(r) PROVE PlaygroundInv'
  <2>1. /\ UNCHANGED <<actors, aliveActors, bornActors, deadActors, mailed, mail, bootNext>>
        /\ status' \in [ActorRanks -> Flags]
        /\ \A s \in ActorRanks : status'[s] = "left" => status[s] = "left"
    BY <1>0, <1>3 DEF StartBoot, EnterLoop, PlaygroundTypeOK, Flags
  <2> QED
    BY <1>0, <2>1, FlagsPlaygroundInv DEF PlaygroundTypeOK
<1>4. ASSUME NEW r \in ActorRanks, LeaveLoop(r) PROVE PlaygroundInv'
  <2>1. /\ UNCHANGED <<actors, aliveActors, bornActors, deadActors, mailed, mail, bootNext>>
        /\ status' \in [ActorRanks -> Flags]
        /\ \A s \in ActorRanks : s # r => status'[s] = status[s]
    BY <1>0, <1>4 DEF LeaveLoop, PlaygroundTypeOK, Flags
  <2>2. liveIn(actors[r]) = {}
    <3>1. IsFiniteSet(liveIn(actors[r])) /\ aliveActors[r] = Cardinality(liveIn(actors[r]))
      BY <1>0 DEF Counted
    <3>2. Cardinality(liveIn(actors[r])) \in Nat
      BY <3>1, FS_CardinalityType
    <3>3. Cardinality(liveIn(actors[r])) = 0
      BY <1>4, <3>1, <3>2 DEF LeaveLoop, hasAliveActors
    <3> QED
      BY <3>1, <3>3, FS_EmptySet
  <2> QED
    BY <1>0, <2>1, <2>2, FlagsPlaygroundInv DEF PlaygroundTypeOK
<1>5. ASSUME NEW r \in ActorRanks, BootOne(r) PROVE PlaygroundInv'
  <2>1. /\ status[r] # "left" /\ UNCHANGED status /\ bootNext' \in [ActorRanks -> Nat]
        /\ bootNext[r] \in Nat /\ receiveActorMessage(r, bootNext[r], mail)
    BY <1>0, <1>5 DEF BootOne, PlaygroundTypeOK
  <2>2. status' \in [ActorRanks -> Flags]
    BY <1>0, <2>1 DEF PlaygroundTypeOK
  <2> QED
    BY <2>1, <2>2, ReactionPlaygroundInv
<1>6. ASSUME NEW r \in ActorRanks, NEW m \in mail, Receive(r, m) PROVE PlaygroundInv'
  BY <1>6, ReceivePlaygroundInv
<1> QED
  BY <1>1, <1>2, <1>3, <1>4, <1>5, <1>6 DEF PlaygroundNext

\* The invariant holds in every state.
LEMMA SpecPlaygroundInv == PlaygroundSpec => []PlaygroundInv
BY InitPlaygroundInv, NextPlaygroundInv, PTL DEF PlaygroundSpec

\* The lists, counters and flags of the ranks keep their types.
THEOREM PlaygroundTypeCorrect == PlaygroundSpec => []PlaygroundTypeOK
<1>1. PlaygroundInv => PlaygroundTypeOK
  BY DEF PlaygroundInv
<1> QED
  BY <1>1, SpecPlaygroundInv, PTL

\* The counter that keeps a rank in its loop is the number of its living actors,
\* a name leads to its actor, and nobody is left behind.
THEOREM ActorsFound == PlaygroundSpec => []ActorsAccounted
<1>1. PlaygroundInv => ActorsAccounted
  <2> SUFFICES ASSUME PlaygroundInv PROVE ActorsAccounted
    OBVIOUS
  <2>0. PlaygroundTypeOK /\ (\A s \in ActorRanks : Counted(s)) /\ MailAddressed
    BY DEF PlaygroundInv
  <2>1. ASSUME NEW r \in ActorRanks, NEW i \in liveIn(actors[r])
        PROVE  /\ getActorRank(actors[r][i]) = r /\ placeOf(actors[r][i]) = i - 1
               /\ actors[r][i] >= Size
    <3>1. i \in Nat /\ i > 1 /\ actors[r][i] = r + (i - 1) * Size
      <4>1. i \in 1 .. Len(actors[r])
        BY <2>0 DEF liveIn, PlaygroundTypeOK
      <4>2. actors[r] \in Seq(Int)
        BY <2>0 DEF PlaygroundTypeOK
      <4> QED
        BY <2>0, <2>1, <4>1, <4>2 DEF Counted, NamedByPlace, nameAt
    <3>2. i - 1 \in Nat /\ i - 1 >= 1 /\ r \in Nat /\ Size \in Nat
      BY <3>1, PlaygroundAssumption DEF ActorRanks
    <3>3. actors[r][i] % Size = r /\ actors[r][i] \div Size = i - 1
      BY <3>1, <3>2, Division
    <3>4. (i - 1) * Size >= Size
      BY <3>2
    <3>5. actors[r][i] >= Size
      BY <3>1, <3>2, <3>4
    <3> QED
      BY <3>3, <3>5 DEF getActorRank, placeOf
  <2>2. ASSUME NEW m \in mail, NEW r \in ActorRanks, NEW i \in DOMAIN actors[r],
               actors[r][i] = m.to
        PROVE  m.rank = r
    <3>1. m.to # NULL
      BY <2>0 DEF MailAddressed, NULL
    <3>2. i \in liveIn(actors[r])
      BY <2>2, <3>1 DEF liveIn
    <3> QED
      BY <2>0, <2>1, <2>2, <3>2 DEF MailAddressed
  <2> QED
    BY <2>0, <2>1, <2>2 DEF ActorsAccounted, Counted
<1> QED
  BY <1>1, SpecPlaygroundInv, PTL

\* No step gives a place of a list to another actor: it keeps who lives there, or
\* empties it for good.
PlacesStay ==
  \A r \in ActorRanks : \A i \in DOMAIN actors[r] :
    i \in DOMAIN actors'[r] /\ actors'[r][i] \in {actors[r][i], NULL}

\* A name is never given to a second actor, so that a message for an actor that
\* has died in the meantime reaches nobody.
THEOREM NamesAreFinal == PlaygroundSpec => [][PlacesStay]_playgroundVars
<1>1. PlaygroundInv /\ [PlaygroundNext]_playgroundVars => [PlacesStay]_playgroundVars
  <2> SUFFICES ASSUME PlaygroundInv, PlaygroundNext, actors' # actors PROVE PlacesStay
    BY DEF PlacesStay
  <2>0. PlaygroundTypeOK /\ \A s \in ActorRanks : Counted(s)
    BY DEF PlaygroundInv
  <2>1. ASSUME NEW r \in ActorRanks,
               SpawnFirst(r) \/ (\E place, others : receiveActorMessage(r, place, others))
        PROVE  \E place : \E spawns, dies \in BOOLEAN :
                 LET list == IF spawns THEN spawnActor(r, actors[r]) ELSE actors[r]
                 IN  actors' = [actors EXCEPT ![r] = IF dies THEN buried(list, place) ELSE list]
    <3>1. CASE SpawnFirst(r)
      <4>1. actors' = [actors EXCEPT ![r] = spawnActor(r, actors[r])]
        BY <3>1 DEF SpawnFirst
      <4> WITNESS 0
      <4> WITNESS TRUE \in BOOLEAN, FALSE \in BOOLEAN
      <4> QED
        BY <4>1
    <3>2. ASSUME NEW place, NEW others, receiveActorMessage(r, place, others)
          PROVE  \E spawns, dies \in BOOLEAN :
                   LET list == IF spawns THEN spawnActor(r, actors[r]) ELSE actors[r]
                   IN  actors' = [actors EXCEPT ![r] = IF dies THEN buried(list, place) ELSE list]
      BY <3>2 DEF receiveActorMessage
    <3> QED
      BY <2>1, <3>1, <3>2
  <2>2. PICK r \in ActorRanks :
          SpawnFirst(r) \/ (\E place, others : receiveActorMessage(r, place, others))
    BY DEF PlaygroundNext, StartBoot, EnterLoop, LeaveLoop, BootOne, Receive
  <2>3. PICK place : \E spawns, dies \in BOOLEAN :
          LET list == IF spawns THEN spawnActor(r, actors[r]) ELSE actors[r]
          IN  actors' = [actors EXCEPT ![r] = IF dies THEN buried(list, place) ELSE list]
    BY <2>1, <2>2
  <2>3a. PICK spawns \in BOOLEAN, dies \in BOOLEAN :
          LET list == IF spawns THEN spawnActor(r, actors[r]) ELSE actors[r]
          IN  actors' = [actors EXCEPT ![r] = IF dies THEN buried(list, place) ELSE list]
    BY <2>3
  <2> DEFINE list == IF spawns THEN spawnActor(r, actors[r]) ELSE actors[r]
  <2>4. /\ actors[r] \in Seq(Int) /\ NamedByPlace(r, actors[r]) /\ IsFiniteSet(liveIn(actors[r]))
        /\ DOMAIN actors = ActorRanks
    BY <2>0 DEF PlaygroundTypeOK, Counted
  <2>5. \A i \in DOMAIN actors[r] : i \in DOMAIN list /\ list[i] = actors[r][i]
    <3>1. CASE spawns
      <4>1. /\ spawnActor(r, actors[r]) \in Seq(Int)
            /\ Len(actors[r]) < Len(spawnActor(r, actors[r]))
            /\ \A i \in 1 .. Len(actors[r]) : spawnActor(r, actors[r])[i] = actors[r][i]
        BY <2>4, SpawnedList
      <4>2. list = spawnActor(r, actors[r])
        BY <3>1
      <4>3. \A i \in DOMAIN actors[r] : i \in 1 .. Len(actors[r]) /\ i \in DOMAIN spawnActor(r, actors[r])
        BY <2>4, <4>1
      <4> HIDE DEF list
      <4> QED
        BY <4>1, <4>2, <4>3
    <3>2. CASE ~ spawns
      BY <3>2
    <3> QED
      BY <3>1, <3>2
  <2>6. actors' = [actors EXCEPT ![r] = IF dies THEN buried(list, place) ELSE list]
    BY <2>3a
  <2> HIDE DEF list
  <2>7. \A i \in DOMAIN list : /\ i \in DOMAIN buried(list, place)
                               /\ buried(list, place)[i] \in {list[i], NULL}
    BY DEF buried
  <2> QED
    BY <2>4, <2>5, <2>6, <2>7 DEF PlacesStay
<1> QED
  BY <1>1, SpecPlaygroundInv, PTL DEF PlaygroundSpec

(***************************************************************************)
(* The allocator of chunks                                                 *)
(***************************************************************************)
\* For every chunk size, alignment and set of sizes, and for any sequence
\* of calls: no two blocks of memory/MyAllocator.cpp overlap, whether they
\* are held by a caller or kept by the ReusableMemoryStore.

Address == [chunk : Nat, at : Nat]
Block == [chunk : Nat, at : Nat, size : RoundedSizes]

\* The block that is kept at place k of the stack of size s.
kept(s, k) == block(store[s][k], s)

\* Two blocks lie apart.
Apart(b, c) == b.chunk # c.chunk \/ b.at + b.size <= c.at \/ c.at + c.size <= b.at

\* A block lies in what has been cut off so far.
CutOff(b) ==
  /\ b.at + b.size <= ChunkSize
  /\ b.chunk < current \/ (b.chunk = current /\ b.at + b.size <= position)

AllocatorTypeOK ==
  /\ chunks \in Nat /\ current \in Nat /\ position \in 0 .. ChunkSize /\ resets \in Nat
  /\ store \in [RoundedSizes -> Seq(Address)]
  /\ held \subseteq Block /\ \A b \in held : b.size \in Sizes

\* The current chunk exists, once there is one.
CurrentExists == current < chunks \/ (current = 0 /\ position = 0)

\* Nothing lies beyond the place where the next block is cut.
AllCutOff ==
  /\ \A b \in held : CutOff(b)
  /\ \A s \in RoundedSizes : \A k \in DOMAIN store[s] : CutOff(kept(s, k))

\* No two blocks overlap; that the places of the stacks are told apart, and not
\* only the addresses there, says that no address is kept twice.
AllApart ==
  /\ \A b, c \in held : b # c => Apart(b, c)
  /\ \A b \in held, s \in RoundedSizes : \A k \in DOMAIN store[s] : Apart(b, kept(s, k))
  /\ \A s, t \in RoundedSizes : \A k \in DOMAIN store[s], l \in DOMAIN store[t] :
       s # t \/ k # l => Apart(kept(s, k), kept(t, l))

\* The inductive invariant.
AllocatorInv == AllocatorTypeOK /\ CurrentExists /\ AllCutOff /\ AllApart

------------------------------------------------------------------------------
\* roundNumber() rounds up, and never past the end of an empty chunk.
LEMMA Rounding ==
  /\ \A s \in Sizes : /\ s \in Nat /\ s >= 1 /\ roundNumber(s) \in Nat
                      /\ s <= roundNumber(s) /\ roundNumber(s) <= ChunkSize
                      /\ s \in RoundedSizes /\ roundNumber(s) \in RoundedSizes
  /\ \A s \in RoundedSizes : s \in Nat /\ s >= 1
<1>0. /\ Alignment \in Nat \ {0} /\ ChunkSize \in Nat /\ ChunkSize % Alignment = 0
      /\ Sizes \subseteq 1 .. ChunkSize
  BY MyAllocatorAssumption
<1>1. ASSUME NEW s \in Sizes
      PROVE  s \in Nat /\ s >= 1 /\ roundNumber(s) \in Nat /\ s <= roundNumber(s) /\ roundNumber(s) <= ChunkSize
  <2>0. s \in Nat /\ s >= 1 /\ s <= ChunkSize
    BY <1>0
  <2>1. CASE s % Alignment = 0
    BY <2>0, <2>1 DEF roundNumber
  <2>2. CASE s % Alignment # 0
    <3> DEFINE q == s \div Alignment
               c == ChunkSize \div Alignment
               rest == s % Alignment
    <3>1. q \in Nat /\ s = Alignment * q + rest /\ rest \in 0 .. Alignment - 1 /\ rest # 0
      BY <1>0, <2>0, <2>2
    <3>2. c \in Nat /\ ChunkSize = Alignment * c
      BY <1>0
    <3>3. roundNumber(s) = (q + 1) * Alignment
      BY <2>2 DEF roundNumber
    <3> HIDE DEF q, c, rest
    <3>4. (q + 1) * Alignment = Alignment * q + Alignment /\ Alignment * q \in Nat
      BY <1>0, <3>1
    <3>5. s <= (q + 1) * Alignment
      BY <1>0, <3>1, <3>4
    <3>6. q < c
      <4>1. ASSUME c <= q PROVE FALSE
        <5>1. Alignment * c <= Alignment * q
          BY <1>0, <3>1, <3>2, <4>1
        <5> QED
          BY <1>0, <2>0, <3>1, <3>2, <3>4, <5>1
      <4> QED
        BY <3>1, <3>2, <4>1
    <3>7. (q + 1) * Alignment <= Alignment * c
      BY <1>0, <3>1, <3>2, <3>6
    <3> QED
      BY <1>0, <2>0, <3>2, <3>3, <3>4, <3>5, <3>7
  <2> QED
    BY <2>1, <2>2
<1>2. \A s \in Sizes : s \in RoundedSizes /\ roundNumber(s) \in RoundedSizes
  BY DEF RoundedSizes
<1>3. \A s \in RoundedSizes : s \in Nat /\ s >= 1
  <2>1. ASSUME NEW s \in RoundedSizes PROVE s \in Nat /\ s >= 1
    <3>1. s \in Sizes \/ \E t \in Sizes : s = roundNumber(t)
      BY DEF RoundedSizes
    <3>2. ASSUME NEW t \in Sizes PROVE roundNumber(t) \in Nat /\ roundNumber(t) >= 1
      BY <1>1
    <3> QED
      BY <1>1, <3>1, <3>2
  <2> QED
    BY <2>1
<1> QED
  BY <1>1, <1>2, <1>3

\* Taking the first entry of a stack and adding one.
LEMMA Stacks ==
  ASSUME NEW S, NEW q \in Seq(S)
  PROVE  /\ q # << >> => /\ Head(q) \in S /\ 1 \in DOMAIN q /\ Head(q) = q[1] /\ Tail(q) \in Seq(S)
                         /\ \A k \in DOMAIN Tail(q) : k \in Nat /\ k + 1 # 1 /\ k + 1 \in DOMAIN q /\ Tail(q)[k] = q[k + 1]
         /\ \A x \in S : LET r == <<x>> \o q
                         IN  /\ r \in Seq(S)
                             /\ \A k \in DOMAIN r :
                                  \/ k = 1 /\ r[k] = x
                                  \/ k \in Nat /\ k - 1 \in DOMAIN q /\ r[k] = q[k - 1]
         /\ \A k \in DOMAIN q : k \in Nat /\ k >= 1 /\ q[k] \in S
<1>1. q # << >> => /\ Head(q) \in S /\ 1 \in DOMAIN q /\ Head(q) = q[1] /\ Tail(q) \in Seq(S)
                   /\ \A k \in DOMAIN Tail(q) : k \in Nat /\ k + 1 # 1 /\ k + 1 \in DOMAIN q /\ Tail(q)[k] = q[k + 1]
  OBVIOUS
<1>2. ASSUME NEW x \in S
      PROVE  LET r == <<x>> \o q
             IN  /\ r \in Seq(S)
                 /\ \A k \in DOMAIN r :
                      \/ k = 1 /\ r[k] = x
                      \/ k \in Nat /\ k - 1 \in DOMAIN q /\ r[k] = q[k - 1]
  <2>1. <<x>> \in Seq(S) /\ Len(<<x>>) = 1 /\ <<x>>[1] = x
    OBVIOUS
  <2>2. <<x>> \o q \in Seq(S) /\ Len(<<x>> \o q) = 1 + Len(q)
    BY <2>1
  <2>3. \A k \in 1 .. 1 + Len(q) : (<<x>> \o q)[k] = IF k <= 1 THEN <<x>>[k] ELSE q[k - 1]
    BY <2>1
  <2> QED
    BY <2>1, <2>2, <2>3
<1> QED
  BY <1>1, <1>2

\* Blocks that lie apart have no byte in common.
LEMMA ApartMeansDisjoint ==
  ASSUME NEW b \in Block, NEW c \in Block, Apart(b, c)
  PROVE  bytesOf(b) \intersect bytesOf(c) = {}
<1>1. /\ b.chunk \in Nat /\ b.at \in Nat /\ b.size \in Nat
      /\ c.chunk \in Nat /\ c.at \in Nat /\ c.size \in Nat
  BY Rounding DEF Block
<1>2. ASSUME NEW x \in bytesOf(b), x \in bytesOf(c) PROVE FALSE
  <2>1. x[1] = b.chunk /\ x[2] \in b.at .. b.at + b.size - 1
    BY DEF bytesOf
  <2>2. x[1] = c.chunk /\ x[2] \in c.at .. c.at + c.size - 1
    BY <1>2 DEF bytesOf
  <2> QED
    BY <1>1, <2>1, <2>2 DEF Apart
<1> QED
  BY <1>2

\* What a kept block is made of.
LEMMA Kept ==
  ASSUME AllocatorTypeOK, NEW s \in RoundedSizes, NEW k \in DOMAIN store[s]
  PROVE  /\ kept(s, k) \in Block /\ kept(s, k).size = s
         /\ kept(s, k).chunk = store[s][k].chunk /\ kept(s, k).at = store[s][k].at
         /\ store[s][k] \in Address
<1>1. store[s][k] \in Address
  BY Stacks DEF AllocatorTypeOK
<1> QED
  BY <1>1 DEF kept, block, Block, Address

\* A block with fewer bytes lies apart from more.
LEMMA Shorter ==
  ASSUME NEW b \in Block, NEW c \in Block, NEW d \in Block, Apart(b, d),
         c.chunk = b.chunk, c.at = b.at, c.size <= b.size
  PROVE  Apart(c, d) /\ Apart(d, c)
<1>1. /\ b.chunk \in Nat /\ b.at \in Nat /\ b.size \in Nat
      /\ c.chunk \in Nat /\ c.at \in Nat /\ c.size \in Nat
      /\ d.chunk \in Nat /\ d.at \in Nat /\ d.size \in Nat
  BY Rounding DEF Block
<1> QED
  BY <1>1 DEF Apart

\* A block cut at the end lies apart from everything that was cut before.
LEMMA BeyondIsApart ==
  ASSUME AllocatorInv, NEW b \in Block, NEW c \in Block, CutOff(b),
         c.chunk > current \/ (c.chunk = current /\ c.at = position)
  PROVE  Apart(b, c) /\ Apart(c, b)
<1>1. /\ b.chunk \in Nat /\ b.at \in Nat /\ b.size \in Nat
      /\ c.chunk \in Nat /\ c.at \in Nat /\ c.size \in Nat
      /\ current \in Nat /\ position \in Int
  BY Rounding, MyAllocatorAssumption DEF Block, AllocatorInv, AllocatorTypeOK
<1> QED
  BY <1>1 DEF Apart, CutOff

\* What is cut off stays cut off.
LEMMA CutOffStays ==
  ASSUME AllocatorInv, AllocatorTypeOK', NEW b \in Block, CutOff(b),
         (current' = current /\ position' >= position) \/ current' > current
  PROVE  CutOff(b)'
<1>1. /\ b.chunk \in Nat /\ b.at \in Nat /\ b.size \in Nat /\ ChunkSize \in Nat
      /\ current \in Nat /\ position \in 0 .. ChunkSize
      /\ current' \in Nat /\ position' \in 0 .. ChunkSize
  BY Rounding, MyAllocatorAssumption DEF Block, AllocatorInv, AllocatorTypeOK
<1> QED
  BY <1>1 DEF CutOff

------------------------------------------------------------------------------
LEMMA InitAllocatorInv == AllocatorInit => AllocatorInv
<1> SUFFICES ASSUME AllocatorInit PROVE AllocatorInv
  OBVIOUS
<1> USE DEF AllocatorInit
<1>1. AllocatorTypeOK
  BY MyAllocatorAssumption DEF AllocatorTypeOK
<1>2. CurrentExists
  BY DEF CurrentExists
<1>3. \A s \in RoundedSizes : store[s] = << >> /\ DOMAIN store[s] = {}
  OBVIOUS
<1>4. AllCutOff /\ AllApart
  BY <1>3 DEF AllCutOff, AllApart
<1> QED
  BY <1>1, <1>2, <1>4 DEF AllocatorInv

\* A freed block of size t becomes one of size s that somebody holds: it lies
\* apart from what is held and from what is still kept.
LEMMA TakeKept ==
  ASSUME AllocatorInv, NEW s \in Sizes, NEW t \in RoundedSizes, s <= t, store[t] # << >>,
         held' = held \union {block(Head(store[t]), s)},
         store' = [store EXCEPT ![t] = Tail(@)]
  PROVE  /\ store' \in [RoundedSizes -> Seq(Address)]
         /\ held' \subseteq Block /\ \A b \in held' : b.size \in Sizes /\ CutOff(b)
         /\ \A u \in RoundedSizes : \A k \in DOMAIN store'[u] : kept(u, k)' \in Block /\ CutOff(kept(u, k)')
         /\ AllApart'
<1>0. AllocatorTypeOK /\ AllCutOff /\ AllApart /\ store[t] \in Seq(Address)
  BY DEF AllocatorInv, AllocatorTypeOK
<1> DEFINE new == block(Head(store[t]), s)
<1>1. /\ 1 \in DOMAIN store[t] /\ Head(store[t]) = store[t][1] /\ Tail(store[t]) \in Seq(Address)
      /\ \A k \in DOMAIN Tail(store[t]) :
           k + 1 # 1 /\ k \in Nat /\ k + 1 \in DOMAIN store[t] /\ Tail(store[t])[k] = store[t][k + 1]
  BY <1>0, Stacks
<1>2. /\ new \in Block /\ new.chunk = kept(t, 1).chunk /\ new.at = kept(t, 1).at /\ new.size = s
      /\ kept(t, 1) \in Block /\ kept(t, 1).size = t
  <2>1. store[t][1] \in Address
    BY <1>0, <1>1, Kept
  <2> QED
    BY <1>0, <1>1, <2>1, Kept, Rounding DEF Block, block, Address
<1>3. /\ store' \in [RoundedSizes -> Seq(Address)]
      /\ \A u \in RoundedSizes : store'[u] = IF u = t THEN Tail(store[t]) ELSE store[u]
  BY <1>0, <1>1 DEF AllocatorTypeOK
<1> DEFINE was(u, k) == IF u = t THEN k + 1 ELSE k
<1>4. ASSUME NEW u \in RoundedSizes, NEW k \in DOMAIN store'[u]
      PROVE  /\ k \in Nat /\ was(u, k) \in DOMAIN store[u] /\ kept(u, k)' = kept(u, was(u, k))
             /\ u # t \/ was(u, k) # 1
  <2>1. CASE u = t
    BY <1>1, <1>3, <2>1 DEF kept
  <2>2. CASE u # t
    <3>1. store[u] \in Seq(Address) /\ store'[u] = store[u]
      BY <1>0, <1>3, <2>2 DEF AllocatorTypeOK
    <3> QED
      BY <2>2, <3>1, Stacks DEF kept
  <2> QED
    BY <2>1, <2>2
<1>5. \A u \in RoundedSizes : \A k, l \in Nat : k # l => was(u, k) # was(u, l)
  OBVIOUS
<1>6. CutOff(new)
  <2>1. CutOff(kept(t, 1))
    BY <1>0, <1>1 DEF AllCutOff
  <2>2. s \in Nat /\ t \in Nat /\ kept(t, 1).at \in Nat /\ ChunkSize \in Nat /\ position \in Int
    BY <1>0, <1>2, Rounding, MyAllocatorAssumption DEF Block, AllocatorTypeOK
  <2> QED
    BY <1>2, <2>1, <2>2 DEF CutOff
<1> HIDE DEF was, new
<1>7. \A u \in RoundedSizes : \A k \in DOMAIN store'[u] : kept(u, k)' \in Block /\ CutOff(kept(u, k)')
  BY <1>0, <1>4, Kept DEF AllCutOff
<1>8. held' = held \union {new}
  BY DEF new
<1>9. held' \subseteq Block /\ \A b \in held' : b.size \in Sizes /\ CutOff(b)
  BY <1>0, <1>2, <1>6, <1>8 DEF AllocatorTypeOK, AllCutOff
<1>10. ASSUME NEW b \in held PROVE Apart(new, b) /\ Apart(b, new)
  <2>1. Apart(b, kept(t, 1)) /\ b \in Block
    BY <1>0, <1>1 DEF AllApart, AllocatorTypeOK
  <2>2. Apart(kept(t, 1), b)
    BY <2>1 DEF Apart
  <2> QED
    BY <1>2, <2>1, <2>2, Shorter
<1>11. ASSUME NEW u \in RoundedSizes, NEW k \in DOMAIN store'[u] PROVE Apart(new, kept(u, k)')
  <2>1. Apart(kept(t, 1), kept(u, was(u, k))) /\ kept(u, was(u, k)) \in Block
    BY <1>0, <1>1, <1>4, Kept DEF AllApart
  <2>2. Apart(new, kept(u, was(u, k)))
    BY <1>2, <2>1, Shorter
  <2> QED
    BY <1>4, <2>2
<1>12. AllApart'
  <2>1. \A b, c \in held' : b # c => Apart(b, c)
    BY <1>0, <1>8, <1>10 DEF AllApart
  <2>2. \A b \in held', u \in RoundedSizes : \A k \in DOMAIN store'[u] : Apart(b, kept(u, k)')
    BY <1>0, <1>4, <1>8, <1>11 DEF AllApart
  <2>3. ASSUME NEW u \in RoundedSizes, NEW v \in RoundedSizes,
               NEW k \in DOMAIN store'[u], NEW l \in DOMAIN store'[v], u # v \/ k # l
        PROVE  Apart(kept(u, k)', kept(v, l)')
    <3>1. u # v \/ was(u, k) # was(v, l)
      BY <1>4, <1>5, <2>3
    <3> QED
      BY <1>0, <1>4, <3>1 DEF AllApart
  <2> QED
    BY <2>1, <2>2, <2>3 DEF AllApart
<1> QED
  BY <1>3, <1>7, <1>9, <1>12

\* A block is cut beyond everything else.
LEMMA HoldNew ==
  ASSUME AllocatorInv, NEW b \in Block, UNCHANGED store, held' = held \union {b},
         b.chunk > current \/ (b.chunk = current /\ b.at = position)
  PROVE  AllApart'
<1>0. AllocatorTypeOK /\ AllCutOff /\ AllApart
  BY DEF AllocatorInv
<1>1. ASSUME NEW c \in held PROVE Apart(b, c) /\ Apart(c, b)
  BY <1>0, BeyondIsApart DEF AllCutOff, AllocatorTypeOK
<1>2. ASSUME NEW s \in RoundedSizes, NEW k \in DOMAIN store[s] PROVE Apart(b, kept(s, k))
  <2>1. kept(s, k) \in Block /\ CutOff(kept(s, k))
    BY <1>0, Kept DEF AllCutOff
  <2> QED
    BY <2>1, BeyondIsApart
<1>3. \A s \in RoundedSizes : \A k \in DOMAIN store[s] : kept(s, k)' = kept(s, k)
  BY DEF kept
<1> QED
  BY <1>0, <1>1, <1>2, <1>3 DEF AllApart

\* The two parts of AllCutOff' from the blocks of the new state.
LEMMA StillCutOff ==
  ASSUME AllocatorInv, AllocatorTypeOK',
         \A b \in held' : CutOff(b) \/ CutOff(b)',
         \A u \in RoundedSizes : \A k \in DOMAIN store'[u] : kept(u, k)' \in Block /\ CutOff(kept(u, k)'),
         (current' = current /\ position' >= position) \/ current' > current
  PROVE  AllCutOff'
<1>1. \A b \in Block : CutOff(b) => CutOff(b)'
  BY CutOffStays
<1>2. held' \subseteq Block
  BY DEF AllocatorTypeOK
<1>3. \A b \in held' : CutOff(b)'
  BY <1>1, <1>2
<1>4. ASSUME NEW u \in RoundedSizes, NEW k \in DOMAIN store'[u] PROVE CutOff(kept(u, k))'
  <2>1. PICK b \in Block : b = kept(u, k)' /\ CutOff(b)
    OBVIOUS
  <2> QED
    BY <1>1, <2>1 DEF CutOff
<1> QED
  BY <1>3, <1>4 DEF AllCutOff

------------------------------------------------------------------------------
LEMMA ReuseAllocatorInv ==
  ASSUME AllocatorInv, NEW s \in Sizes, Reuse(s)
  PROVE  AllocatorInv'
<1>0. s \in RoundedSizes /\ s <= s
  BY Rounding
<1>1. /\ store[s] # << >>
      /\ held' = held \union {block(Head(store[s]), s)}
      /\ store' = [store EXCEPT ![s] = Tail(@)]
      /\ UNCHANGED <<chunks, current, position, resets>>
  BY DEF Reuse, hasAddressesToReuse
<1>2. /\ store' \in [RoundedSizes -> Seq(Address)]
      /\ held' \subseteq Block /\ \A b \in held' : b.size \in Sizes /\ CutOff(b)
      /\ \A u \in RoundedSizes : \A k \in DOMAIN store'[u] : kept(u, k)' \in Block /\ CutOff(kept(u, k)')
      /\ AllApart'
  BY <1>0, <1>1, TakeKept
<1>3. AllocatorTypeOK'
  BY <1>1, <1>2 DEF AllocatorInv, AllocatorTypeOK
<1>4. CurrentExists'
  BY <1>1 DEF AllocatorInv, CurrentExists
<1>5. AllCutOff'
  <2>1. position' >= position
    BY <1>1, MyAllocatorAssumption DEF AllocatorInv, AllocatorTypeOK
  <2> QED
    BY <1>1, <1>2, <1>3, <2>1, StillCutOff
<1> QED
  BY <1>2, <1>3, <1>4, <1>5 DEF AllocatorInv

\* The blocks that are kept do not move.
LEMMA KeptStays ==
  ASSUME AllocatorInv, UNCHANGED store
  PROVE  \A u \in RoundedSizes : \A k \in DOMAIN store'[u] : kept(u, k)' \in Block /\ CutOff(kept(u, k)')
<1>1. \A u \in RoundedSizes : \A k \in DOMAIN store[u] : kept(u, k)' = kept(u, k)
  BY DEF kept
<1> QED
  BY <1>1, Kept DEF AllocatorInv, AllCutOff

LEMMA CutFromChunkAllocatorInv ==
  ASSUME AllocatorInv, NEW s \in Sizes, CutFromChunk(s)
  PROVE  AllocatorInv'
<1> DEFINE new == [chunk |-> current, at |-> position, size |-> s]
           rounded == roundNumber(s)
<1>0. /\ s \in Nat /\ s >= 1 /\ rounded \in Nat /\ s <= rounded /\ ChunkSize \in Nat
      /\ chunks \in Nat /\ current \in Nat /\ position \in 0 .. ChunkSize
      /\ s \in RoundedSizes
  BY Rounding, MyAllocatorAssumption DEF AllocatorInv, AllocatorTypeOK
<1>1. /\ rounded <= ChunkSize - position
      /\ chunks' = IF chunks = 0 THEN 1 ELSE chunks
      /\ held' = held \union {new}
      /\ position' = position + rounded
      /\ UNCHANGED <<current, store, resets>>
  BY DEF CutFromChunk
<1>2. PICK b \in Block : b = new /\ b.chunk = current /\ b.at = position /\ b.size = s
  <2>1. new \in Block /\ new.chunk = current /\ new.at = position /\ new.size = s
    BY <1>0 DEF Block
  <2> HIDE DEF new
  <2> QED
    BY <2>1
<1> HIDE DEF new, rounded
<1>3. AllocatorTypeOK'
  BY <1>0, <1>1, <1>2 DEF AllocatorInv, AllocatorTypeOK
<1>4. CurrentExists'
  BY <1>0, <1>1 DEF AllocatorInv, CurrentExists
<1>5. AllCutOff'
  <2>1. CutOff(b)'
    BY <1>0, <1>1, <1>2 DEF CutOff
  <2>2. \A c \in held' : CutOff(c) \/ CutOff(c)'
    BY <1>1, <1>2, <2>1 DEF AllocatorInv, AllCutOff
  <2>3. current' = current /\ position' >= position
    BY <1>0, <1>1
  <2> QED
    BY <1>1, <1>3, <2>2, <2>3, KeptStays, StillCutOff
<1>6. AllApart'
  BY <1>1, <1>2, HoldNew
<1> QED
  BY <1>3, <1>4, <1>5, <1>6 DEF AllocatorInv

LEMMA CutFromNextChunkAllocatorInv ==
  ASSUME AllocatorInv, NEW s \in Sizes, CutFromNextChunk(s)
  PROVE  AllocatorInv'
<1> DEFINE new == [chunk |-> current + 1, at |-> 0, size |-> s]
           rounded == roundNumber(s)
<1>0. /\ s \in Nat /\ s >= 1 /\ rounded \in Nat /\ s <= rounded /\ rounded <= ChunkSize
      /\ chunks \in Nat /\ current \in Nat /\ position \in 0 .. ChunkSize /\ ChunkSize \in Nat
      /\ s \in RoundedSizes /\ rounded \in RoundedSizes
  BY Rounding, MyAllocatorAssumption DEF AllocatorInv, AllocatorTypeOK
<1>1. /\ rounded > ChunkSize - position
      /\ chunks' = IF current + 1 < chunks THEN chunks ELSE chunks + 1
      /\ current' = current + 1
      /\ UNCHANGED resets
  BY DEF CutFromNextChunk, nextChunk
<1>2. \/ /\ store[rounded] # << >>
         /\ held' = held \union {block(Head(store[rounded]), s)}
         /\ store' = [store EXCEPT ![rounded] = Tail(@)]
         /\ position' = 0
      \/ /\ held' = held \union {new}
         /\ position' = rounded
         /\ UNCHANGED store
  BY DEF CutFromNextChunk, nextChunk, hasAddressesToReuse
<1>3. CurrentExists'
  <2>1. current < chunks
    BY <1>0, <1>1 DEF AllocatorInv, CurrentExists
  <2> QED
    BY <1>0, <1>1, <2>1 DEF CurrentExists
<1>4. PICK b \in Block : b = new /\ b.chunk = current + 1 /\ b.at = 0 /\ b.size = s
  <2>1. new \in Block /\ new.chunk = current + 1 /\ new.at = 0 /\ new.size = s
    BY <1>0 DEF Block
  <2> HIDE DEF new
  <2> QED
    BY <2>1
<1> HIDE DEF new, rounded
<1>5. CASE /\ store[rounded] # << >>
           /\ held' = held \union {block(Head(store[rounded]), s)}
           /\ store' = [store EXCEPT ![rounded] = Tail(@)]
           /\ position' = 0
  <2>1. /\ store' \in [RoundedSizes -> Seq(Address)]
        /\ held' \subseteq Block /\ \A c \in held' : c.size \in Sizes /\ CutOff(c)
        /\ \A u \in RoundedSizes : \A k \in DOMAIN store'[u] : kept(u, k)' \in Block /\ CutOff(kept(u, k)')
        /\ AllApart'
    BY <1>0, <1>5, TakeKept
  <2>2. AllocatorTypeOK'
    BY <1>0, <1>1, <1>5, <2>1 DEF AllocatorInv, AllocatorTypeOK
  <2>3. AllCutOff'
    BY <1>0, <1>1, <2>1, <2>2, StillCutOff
  <2> QED
    BY <1>3, <2>1, <2>2, <2>3 DEF AllocatorInv
<1>6. CASE held' = held \union {new} /\ position' = rounded /\ UNCHANGED store
  <2>1. AllocatorTypeOK'
    BY <1>0, <1>1, <1>4, <1>6 DEF AllocatorInv, AllocatorTypeOK
  <2>2. CutOff(b)'
    BY <1>0, <1>1, <1>4, <1>6 DEF CutOff
  <2>3. \A c \in held' : CutOff(c) \/ CutOff(c)'
    BY <1>4, <1>6, <2>2 DEF AllocatorInv, AllCutOff
  <2>4. AllCutOff'
    <3>1. current' > current
      BY <1>0, <1>1
    <3> QED
      BY <1>6, <2>1, <2>3, <3>1, KeptStays, StillCutOff
  <2>5. AllApart'
    BY <1>0, <1>4, <1>6, HoldNew
  <2> QED
    BY <1>3, <2>1, <2>4, <2>5 DEF AllocatorInv
<1> QED
  BY <1>2, <1>5, <1>6

\* A block that is freed is kept instead of held, or forgotten.
LEMMA FreeAllocatorInv ==
  ASSUME AllocatorInv, NEW b \in held, Free(b)
  PROVE  AllocatorInv'
<1>0. AllocatorTypeOK /\ AllCutOff /\ AllApart /\ CurrentExists
  BY DEF AllocatorInv
<1>1. held' = held \ {b} /\ UNCHANGED <<chunks, current, position, resets>>
  BY DEF Free
<1>2. b \in Block /\ b.size \in Sizes /\ b.size \in RoundedSizes /\ CutOff(b)
  BY <1>0, Rounding DEF AllocatorTypeOK, AllCutOff
<1>3. CurrentExists'
  BY <1>0, <1>1 DEF CurrentExists
<1>4. CASE UNCHANGED store
  <2>1. AllocatorTypeOK'
    BY <1>0, <1>1, <1>4 DEF AllocatorTypeOK
  <2>2. \A u \in RoundedSizes : \A k \in DOMAIN store[u] : kept(u, k)' = kept(u, k)
    BY <1>4 DEF kept
  <2>3. AllCutOff' /\ AllApart'
    BY <1>0, <1>1, <1>4, <2>2 DEF AllCutOff, AllApart, CutOff
  <2> QED
    BY <1>3, <2>1, <2>3 DEF AllocatorInv
<1>5. CASE store' = [store EXCEPT ![b.size] = <<[chunk |-> b.chunk, at |-> b.at]>> \o @]
  <2> DEFINE t == b.size
             x == [chunk |-> b.chunk, at |-> b.at]
             longer == <<x>> \o store[t]
  <2>1. x \in Address /\ block(x, t) = b /\ t \in RoundedSizes /\ store[t] \in Seq(Address)
    BY <1>0, <1>2 DEF Address, Block, block, AllocatorTypeOK
  <2>2. store' = [store EXCEPT ![t] = longer]
    BY <1>0, <1>5, <2>1 DEF AllocatorTypeOK
  <2> HIDE DEF t, x
  <2>3. /\ longer \in Seq(Address)
        /\ \A k \in DOMAIN longer :
             \/ k = 1 /\ longer[k] = x
             \/ k \in Nat /\ k - 1 \in DOMAIN store[t] /\ longer[k] = store[t][k - 1]
    BY <2>1, Stacks
  <2> HIDE DEF longer
  <2>4. /\ store' \in [RoundedSizes -> Seq(Address)]
        /\ \A u \in RoundedSizes : store'[u] = IF u = t THEN longer ELSE store[u]
    BY <1>0, <2>1, <2>2, <2>3 DEF AllocatorTypeOK
  <2>5. AllocatorTypeOK'
    BY <1>0, <1>1, <2>4 DEF AllocatorTypeOK
  <2> DEFINE was(u, k) == IF u = t THEN k - 1 ELSE k
  <2>6. ASSUME NEW u \in RoundedSizes, NEW k \in DOMAIN store'[u]
        PROVE  \/ u = t /\ k = 1 /\ kept(u, k)' = b
               \/ k \in Nat /\ was(u, k) \in DOMAIN store[u] /\ kept(u, k)' = kept(u, was(u, k))
    <3>1. CASE u = t
      BY <2>1, <2>3, <2>4, <3>1 DEF kept
    <3>2. CASE u # t
      <4>1. store[u] \in Seq(Address) /\ store'[u] = store[u]
        BY <1>0, <2>4, <3>2 DEF AllocatorTypeOK
      <4> QED
        BY <3>2, <4>1, Stacks DEF kept
    <3> QED
      BY <3>1, <3>2
  <2>7. \A u \in RoundedSizes : \A k, l \in Nat : k # l => was(u, k) # was(u, l)
    OBVIOUS
  <2> HIDE DEF was
  <2>8. AllCutOff'
    <3>1. \A u \in RoundedSizes : \A k \in DOMAIN store'[u] : kept(u, k)' \in Block /\ CutOff(kept(u, k)')
      BY <1>0, <1>2, <2>6, Kept DEF AllCutOff
    <3>2. \A c \in held' : CutOff(c)
      BY <1>0, <1>1 DEF AllCutOff
    <3>3. current' = current /\ position' >= position
      BY <1>0, <1>1, MyAllocatorAssumption DEF AllocatorTypeOK
    <3> QED
      BY <2>5, <3>1, <3>2, <3>3, StillCutOff
  <2>9. \A c, d \in held' : c # d => Apart(c, d)
    BY <1>0, <1>1 DEF AllApart
  <2>10. \A c \in held', u \in RoundedSizes : \A k \in DOMAIN store'[u] : Apart(c, kept(u, k)')
    BY <1>0, <1>1, <2>6 DEF AllApart
  <2>11. ASSUME NEW u \in RoundedSizes, NEW v \in RoundedSizes,
                NEW k \in DOMAIN store'[u], NEW l \in DOMAIN store'[v], u # v \/ k # l
         PROVE  Apart(kept(u, k)', kept(v, l)')
    <3>1. ASSUME NEW w \in RoundedSizes, NEW j \in DOMAIN store[w]
          PROVE  Apart(b, kept(w, j)) /\ Apart(kept(w, j), b)
      <4>1. Apart(b, kept(w, j))
        BY <1>0 DEF AllApart
      <4> QED
        BY <4>1 DEF Apart
    <3>2. CASE kept(u, k)' = b /\ u = t /\ k = 1
      BY <2>6, <2>11, <3>1, <3>2
    <3>3. CASE kept(v, l)' = b /\ v = t /\ l = 1
      BY <2>6, <2>11, <3>1, <3>3
    <3>4. CASE /\ k \in Nat /\ was(u, k) \in DOMAIN store[u] /\ kept(u, k)' = kept(u, was(u, k))
               /\ l \in Nat /\ was(v, l) \in DOMAIN store[v] /\ kept(v, l)' = kept(v, was(v, l))
      <4>1. u # v \/ was(u, k) # was(v, l)
        BY <2>7, <2>11, <3>4
      <4> QED
        BY <1>0, <3>4, <4>1 DEF AllApart
    <3> QED
      BY <2>6, <3>2, <3>3, <3>4
  <2>12. AllApart'
    BY <2>9, <2>10, <2>11 DEF AllApart
  <2> QED
    BY <1>3, <2>5, <2>8, <2>12 DEF AllocatorInv
<1> QED
  BY <1>4, <1>5 DEF Free

LEMMA ResetAllocatorInv ==
  ASSUME AllocatorInv, Reset
  PROVE  AllocatorInv'
<1>1. /\ held' = {} /\ current' = 0 /\ position' = 0 /\ chunks' \in {chunks, 0}
      /\ store' = [s \in RoundedSizes |-> << >>] /\ resets' = resets + 1
  BY DEF Reset, storeAfterReset
<1>2. AllocatorTypeOK'
  BY <1>1, MyAllocatorAssumption DEF AllocatorInv, AllocatorTypeOK
<1>3. CurrentExists'
  BY <1>1 DEF CurrentExists
<1>4. \A s \in RoundedSizes : DOMAIN store'[s] = {}
  BY <1>1
<1>5. AllCutOff' /\ AllApart'
  BY <1>1, <1>4 DEF AllCutOff, AllApart
<1> QED
  BY <1>2, <1>3, <1>5 DEF AllocatorInv

LEMMA NextAllocatorInv == AllocatorInv /\ [AllocatorNext]_allocatorVars => AllocatorInv'
<1> SUFFICES ASSUME AllocatorInv, [AllocatorNext]_allocatorVars PROVE AllocatorInv'
  OBVIOUS
<1>1. CASE UNCHANGED allocatorVars
  <2>1. UNCHANGED <<chunks, current, position, store, held, resets>>
    BY <1>1 DEF allocatorVars
  <2>2. \A u \in RoundedSizes : \A k \in DOMAIN store[u] : kept(u, k)' = kept(u, k)
    BY <2>1 DEF kept
  <2> QED
    BY <2>1, <2>2 DEF AllocatorInv, AllocatorTypeOK, CurrentExists, AllCutOff, AllApart, CutOff
<1> QED
  BY <1>1, ReuseAllocatorInv, CutFromChunkAllocatorInv, CutFromNextChunkAllocatorInv,
     FreeAllocatorInv, ResetAllocatorInv DEF AllocatorNext

LEMMA Invariance == AllocatorSpec => []AllocatorInv
BY InitAllocatorInv, NextAllocatorInv, PTL DEF AllocatorSpec

\* A block lies in a chunk that exists, and no byte of a chunk belongs to two
\* blocks that are held or kept for reuse, whatever was allocated, freed, reused
\* with another size and reset before.
THEOREM BlocksNeverOverlap == AllocatorSpec => []BlocksDisjoint
<1>1. AllocatorInv => BlocksDisjoint
  <2> SUFFICES ASSUME AllocatorInv PROVE BlocksDisjoint
    OBVIOUS
  <2>0. AllocatorTypeOK /\ CurrentExists /\ AllCutOff /\ AllApart
    BY DEF AllocatorInv
  <2>1. ASSUME NEW b \in freeBlocks
        PROVE  \E s \in RoundedSizes : \E k \in DOMAIN store[s] : b = kept(s, k)
    BY DEF freeBlocks, kept
  <2>2. held \subseteq Block /\ freeBlocks \subseteq Block
    BY <2>0, <2>1, Kept DEF AllocatorTypeOK
  <2>3. ASSUME NEW b \in held \union freeBlocks PROVE b.chunk < chunks /\ b.at + b.size <= ChunkSize
    <3>1. CutOff(b) /\ b \in Block
      BY <2>0, <2>1, <2>2 DEF AllCutOff
    <3>2. b.chunk \in Nat /\ b.at \in Nat /\ b.size \in Nat /\ b.size >= 1
      BY <3>1, Rounding DEF Block
    <3>3. chunks \in Nat /\ current \in Nat /\ position \in Int
      BY <2>0, MyAllocatorAssumption DEF AllocatorTypeOK
    <3> QED
      BY <2>0, <3>1, <3>2, <3>3 DEF CutOff, CurrentExists
  <2>4. ASSUME NEW b \in held \union freeBlocks, NEW c \in held \union freeBlocks, b # c
        PROVE  Apart(b, c) \/ Apart(c, b)
    <3>1. CASE b \in held /\ c \in held
      BY <2>0, <2>4, <3>1 DEF AllApart
    <3>2. CASE b \in held /\ c \in freeBlocks
      BY <2>0, <2>1, <3>2 DEF AllApart
    <3>3. CASE b \in freeBlocks /\ c \in held
      BY <2>0, <2>1, <3>3 DEF AllApart
    <3>4. CASE b \in freeBlocks /\ c \in freeBlocks
      BY <2>0, <2>1, <2>4, <3>4 DEF AllApart
    <3> QED
      BY <3>1, <3>2, <3>3, <3>4
  <2>5. ASSUME NEW b \in held \union freeBlocks, NEW c \in held \union freeBlocks, b # c
        PROVE  bytesOf(b) \intersect bytesOf(c) = {}
    BY <2>2, <2>4, <2>5, ApartMeansDisjoint
  <2>6. ASSUME NEW b \in held, b \in freeBlocks PROVE FALSE
    <3>1. Apart(b, b) /\ b \in Block
      BY <2>0, <2>1, <2>2, <2>6 DEF AllApart
    <3>2. b.at \in Nat /\ b.size \in Nat /\ b.size >= 1
      BY <3>1, Rounding DEF Block
    <3> QED
      BY <3>1, <3>2 DEF Apart
  <2> QED
    BY <2>3, <2>5, <2>6 DEF BlocksDisjoint
<1> QED
  BY <1>1, Invariance, PTL

(***************************************************************************)
(* Buffered data                                                           *)
(***************************************************************************)
\* For any ranks, capacity and period, and any number of items: no word of
\* BufferedData is lost, repeated or sent out of order.

\* The recursive function inside FlattenSeq.
IsFlatten(f, seqs) ==
  f = [k \in 1 .. Len(seqs) |-> IF k = 1 THEN seqs[k] ELSE f[k - 1] \o seqs[k]]

LEMMA FlattenDef ==
  ASSUME NEW seqs, Len(seqs) # 0
  PROVE  FlattenSeq(seqs) = (CHOOSE f : IsFlatten(f, seqs))[Len(seqs)]
BY DEF FlattenSeq, IsFlatten

\* The first of some places of a sequence.
LEMMA FirstPlace ==
  ASSUME NEW n \in Nat, NEW S, S \subseteq 1 .. n, S # {}
  PROVE  \E x \in S : \A y \in S : x <= y
<1>1. PICK a \in Int : a = 1
  OBVIOUS
<1>2. S \subseteq Int /\ \A x \in S : a <= x
  BY <1>1
<1> QED
  BY <1>2, LeastElement

\* It exists: by induction on the length of the part it is defined for.
LEMMA FlattenExists ==
  ASSUME NEW W, NEW seqs \in Seq(Seq(W)), Len(seqs) # 0
  PROVE  \E f : IsFlatten(f, seqs)
<1> DEFINE n == Len(seqs)
           part(m, f) == f = [k \in 1 .. m |-> IF k = 1 THEN seqs[k] ELSE f[k - 1] \o seqs[k]]
           has(m) == \E f : part(m, f)
           Bad == { m \in 1 .. n : ~ has(m) }
<1>0. n \in Nat /\ n >= 1
  BY LenProperties
<1>1. ASSUME Bad # {} PROVE FALSE
  <2> HIDE DEF has
  <2>1. Bad \subseteq 1 .. n
    OBVIOUS
  <2>2. PICK m \in Bad : \A x \in Bad : m <= x
    <3> HIDE DEF Bad, n
    <3> QED
      BY <1>0, <1>1, <2>1, FirstPlace
  <2>3. m \in 1 .. n /\ ~ has(m)
    BY <2>2
  <2>4. CASE m = 1
    <3> DEFINE g == [k \in 1 .. 1 |-> seqs[k]]
    <3>1. part(1, g)
      OBVIOUS
    <3> HIDE DEF g
    <3> QED
      BY <2>3, <2>4, <3>1 DEF has
  <2>5. CASE m # 1
    <3>1. m - 1 \in 1 .. n /\ m - 1 \notin Bad
      <4>1. m - 1 \in 1 .. n /\ ~ (m <= m - 1)
        BY <1>0, <2>3, <2>5
      <4> QED
        BY <2>2, <4>1
    <3>2. PICK f : part(m - 1, f)
      BY <3>1 DEF has
    <3> DEFINE g == [k \in 1 .. m |-> IF k = m THEN f[m - 1] \o seqs[m] ELSE f[k]]
    <3>3. ASSUME NEW k \in 1 .. m
          PROVE  g[k] = IF k = 1 THEN seqs[k] ELSE g[k - 1] \o seqs[k]
      <4>1. CASE k = m
        <5>1. k # 1 /\ k - 1 \in 1 .. m /\ k - 1 # m
          BY <1>0, <2>3, <2>5, <4>1
        <5>2. g[k - 1] = f[m - 1]
          BY <4>1, <5>1
        <5> QED
          BY <4>1, <5>1, <5>2
      <4>2. CASE k # m
        <5>1. k \in 1 .. m - 1
          BY <1>0, <2>3, <4>2
        <5>2. g[k] = f[k] /\ f[k] = IF k = 1 THEN seqs[k] ELSE f[k - 1] \o seqs[k]
          BY <3>2, <4>2, <5>1
        <5>3. k # 1 => g[k - 1] = f[k - 1]
          BY <1>0, <2>3, <5>1
        <5> QED
          BY <5>2, <5>3
      <4> QED
        BY <4>1, <4>2
    <3>4. part(m, g)
      <4>1. g = [k \in 1 .. m |-> g[k]]
        OBVIOUS
      <4> HIDE DEF g
      <4> QED
        BY <3>3, <4>1
    <3> HIDE DEF g
    <3> QED
      BY <2>3, <3>4 DEF has
  <2> QED
    BY <2>4, <2>5
<1>2. has(n)
  <2> HIDE DEF has
  <2> QED
    BY <1>0, <1>1
<1>3. PICK f : part(n, f)
  BY <1>2
<1> QED
  BY <1>3 DEF IsFlatten

Agree(n, f, g) == \A k \in 1 .. n : f[k] = g[k]

\* It is unique, also where one sequence of sequences starts the other.
LEMMA FlattenUnique ==
  ASSUME NEW n \in Nat, NEW s, NEW t, Len(s) \in Nat, Len(t) \in Nat, n <= Len(s), n <= Len(t),
         Agree(n, s, t), NEW f, IsFlatten(f, s), NEW g, IsFlatten(g, t)
  PROVE  Agree(n, f, g)
<1> USE DEF Agree
<1> DEFINE Bad == { k \in 1 .. n : f[k] # g[k] }
<1>1. /\ \A k \in 1 .. n : f[k] = IF k = 1 THEN s[k] ELSE f[k - 1] \o s[k]
      /\ \A k \in 1 .. n : g[k] = IF k = 1 THEN t[k] ELSE g[k - 1] \o t[k]
  <2>1. \A k \in 1 .. n : k \in 1 .. Len(s) /\ k \in 1 .. Len(t)
    OBVIOUS
  <2>2. \A k \in 1 .. n : f[k] = IF k = 1 THEN s[k] ELSE f[k - 1] \o s[k]
    BY <2>1 DEF IsFlatten
  <2>3. \A k \in 1 .. n : g[k] = IF k = 1 THEN t[k] ELSE g[k - 1] \o t[k]
    BY <2>1 DEF IsFlatten
  <2> QED
    BY <2>2, <2>3
<1>2. ASSUME Bad # {} PROVE FALSE
  <2>1. Bad \subseteq 1 .. n
    OBVIOUS
  <2>2. PICK m \in Bad : \A x \in Bad : m <= x
    <3> HIDE DEF Bad
    <3> QED
      BY <1>2, <2>1, FirstPlace
  <2>3. m \in 1 .. n /\ f[m] # g[m]
    BY <2>2
  <2>4. m # 1
    BY <1>1, <2>3
  <2>5. m - 1 \in 1 .. n /\ m - 1 \notin Bad
    BY <2>2, <2>3, <2>4
  <2>6. f[m - 1] = g[m - 1]
    BY <2>5
  <2> QED
    BY <1>1, <2>3, <2>4, <2>6
<1> QED
  BY <1>2

\* A message sent later comes last.
LEMMA FlattenAppend ==
  ASSUME NEW W, NEW seqs \in Seq(Seq(W)), NEW x \in Seq(W)
  PROVE  FlattenSeq(Append(seqs, x)) = FlattenSeq(seqs) \o x
<1> DEFINE n == Len(seqs)
           t == Append(seqs, x)
<1>1. /\ n \in Nat /\ t \in Seq(Seq(W)) /\ Len(t) = n + 1
      /\ \A k \in 1 .. n : seqs[k] = t[k]
      /\ t[n + 1] = x
  BY LenProperties, AppendProperties
<1> HIDE DEF t
<1>2. PICK g : IsFlatten(g, t) /\ FlattenSeq(t) = g[n + 1]
  <2>1. \E f : IsFlatten(f, t)
    BY <1>1, FlattenExists
  <2>2. IsFlatten(CHOOSE f : IsFlatten(f, t), t)
    BY <2>1, Zenon
  <2>3. FlattenSeq(t) = (CHOOSE f : IsFlatten(f, t))[n + 1]
    BY <1>1, FlattenDef
  <2> QED
    BY <2>2, <2>3
<1>3. g[n + 1] = IF n + 1 = 1 THEN t[n + 1] ELSE g[n] \o t[n + 1]
  <2>1. n + 1 \in 1 .. Len(t) /\ (n + 1) - 1 = n
    BY <1>1
  <2> QED
    BY <1>2, <2>1 DEF IsFlatten
<1>4. CASE n = 0
  <2>1. seqs = << >> /\ FlattenSeq(seqs) = << >>
    BY <1>4, EmptySeq DEF FlattenSeq
  <2>2. << >> \o x = x
    BY ConcatEmptySeq
  <2> QED
    BY <1>1, <1>2, <1>3, <1>4, <2>1, <2>2 DEF t
<1>5. CASE n # 0
  <2>1. PICK f : IsFlatten(f, seqs) /\ FlattenSeq(seqs) = f[n]
    <3>1. \E f : IsFlatten(f, seqs)
      BY <1>5, FlattenExists
    <3>2. IsFlatten(CHOOSE f : IsFlatten(f, seqs), seqs)
      BY <3>1, Zenon
    <3>3. FlattenSeq(seqs) = (CHOOSE f : IsFlatten(f, seqs))[n]
      BY <1>5, FlattenDef
    <3> QED
      BY <3>2, <3>3
  <2>2. f[n] = g[n]
    <3>1. \A k \in 1 .. n : f[k] = g[k]
      <4>1. n \in Nat /\ Len(seqs) \in Nat /\ Len(t) \in Nat /\ n <= Len(seqs) /\ n <= Len(t)
        BY <1>1
      <4>2. Agree(n, seqs, t) /\ IsFlatten(f, seqs) /\ IsFlatten(g, t)
        BY <1>1, <1>2, <2>1 DEF Agree
      <4> HIDE DEF n
      <4> QED
        <5>1. Agree(n, f, g)
          BY <4>1, <4>2, FlattenUnique
        <5> QED
          BY <5>1 DEF Agree
    <3>2. n \in 1 .. n
      BY <1>1, <1>5
    <3> QED
      BY <3>1, <3>2
  <2>3. n + 1 # 1
    BY <1>1, <1>5
  <2> QED
    BY <1>1, <1>2, <1>3, <2>1, <2>2, <2>3 DEF t
<1> QED
  BY <1>4, <1>5

\* The words of one rank: D waits, P was added and M was sent.
Words == Nat \X (1 .. m_period)
Items(n) == \E a \in Nat : n = a * m_period
Whole(m) == Len(m) \in 1 .. m_capacity /\ Len(m) % m_period = 0

Buffer(D, P, M) ==
  /\ D \in Seq(Words) /\ P \in Seq(Words) /\ M \in Seq(Seq(Words))
  /\ FlattenSeq(M) \in Seq(Words) /\ FlattenSeq(M) \o D = P
  /\ \A k \in DOMAIN M : Whole(M[k])
  /\ Items(Len(D))

\* The inductive invariant: a buffer that waits has room for another item.
BufferInv ==
  /\ m_data \in [Ranks -> Seq(Words)] /\ pushed \in [Ranks -> Seq(Words)]
  /\ messages \in [Ranks -> Seq(Seq(Words))] /\ added \in Nat
  /\ \A d \in Ranks : Buffer(m_data[d], pushed[d], messages[d]) /\ Len(m_data[d]) < threshold

LEMMA PeriodAndCapacity ==
  /\ m_period \in Nat /\ m_period >= 1 /\ m_capacity \in Nat /\ m_period <= m_capacity
  /\ threshold \in Nat /\ threshold >= 1 /\ threshold <= m_capacity /\ Items(threshold)
<1>1. m_period \in Nat /\ m_period >= 1 /\ m_capacity \in Nat /\ m_period <= m_capacity
  BY BufferedDataAssumption
<1> DEFINE t == m_capacity \div m_period
           m == m_capacity % m_period
<1>2. t \in Int /\ m \in 0 .. m_period - 1 /\ m_capacity = m_period * t + m
  BY <1>1
<1> HIDE DEF t, m
<1>3. ASSUME t <= 0 PROVE FALSE
  <2>1. m_period * t <= 0
    BY <1>1, <1>2, <1>3
  <2> QED
    BY <1>1, <1>2, <2>1
<1>4. t \in Nat /\ t >= 1
  BY <1>2, <1>3
<1>5. t * m_period = m_period * t /\ t * m_period \in Nat /\ t * m_period >= 1
  BY <1>1, <1>4
<1>6. threshold = t * m_period
  BY DEF threshold, t
<1>7. threshold \in Nat /\ threshold >= 1 /\ threshold <= m_capacity
  BY <1>1, <1>2, <1>5, <1>6
<1> QED
  BY <1>1, <1>4, <1>6, <1>7 DEF Items

\* A number of items leaves no remainder, and one item more still is one.
LEMMA ItemsAdd ==
  ASSUME NEW n \in Nat, Items(n)
  PROVE  n % m_period = 0 /\ Items(n + m_period) /\ (n < threshold => n + m_period <= threshold)
<1>1. m_period \in Nat /\ m_period >= 1 /\ threshold \in Nat
  BY PeriodAndCapacity
<1>2. PICK a \in Nat : n = a * m_period
  BY DEF Items
<1>3. PICK b \in Nat : threshold = b * m_period
  BY PeriodAndCapacity DEF Items
<1>4. n + m_period = (a + 1) * m_period /\ a + 1 \in Nat
  BY <1>1, <1>2
<1>5. n % m_period = 0
  <2> DEFINE q == n \div m_period
             m == n % m_period
  <2>1. q \in Int /\ m \in 0 .. m_period - 1 /\ n = m_period * q + m
    BY <1>1
  <2> HIDE DEF q, m
  <2>2. m_period * (a - q) = m
    BY <1>1, <1>2, <2>1
  <2>3. ASSUME a - q >= 1 PROVE FALSE
    <3>1. m_period * (a - q) >= m_period
      BY <1>1, <2>1, <2>3
    <3> QED
      BY <1>1, <2>1, <2>2, <3>1
  <2>4. ASSUME a - q <= -1 PROVE FALSE
    <3>1. m_period * (a - q) <= -m_period
      BY <1>1, <2>1, <2>4
    <3> QED
      BY <1>1, <2>1, <2>2, <3>1
  <2>5. a - q = 0
    BY <2>1, <2>3, <2>4
  <2>6. m = 0
    BY <1>1, <2>1, <2>2, <2>5
  <2> QED
    BY <2>6 DEF m
<1>6. ASSUME n < threshold PROVE n + m_period <= threshold
  <2>1. ASSUME b <= a PROVE FALSE
    <3>1. b * m_period <= a * m_period
      BY <1>1, <2>1
    <3> QED
      BY <1>2, <1>3, <1>6, <3>1
  <2>2. a + 1 <= b
    BY <2>1
  <2>3. (a + 1) * m_period <= b * m_period
    BY <1>1, <2>2
  <2> QED
    BY <1>3, <1>4, <2>3
<1> QED
  BY <1>4, <1>5, <1>6 DEF Items

LEMMA ThreeParts ==
  ASSUME NEW f \in Seq(Words), NEW d \in Seq(Words), NEW w \in Seq(Words)
  PROVE  f \o (d \o w) = (f \o d) \o w
OBVIOUS

\* addAt() of the words of an item.
LEMMA BufferAdd ==
  ASSUME NEW D, NEW P, NEW M, Buffer(D, P, M), Len(D) < threshold,
         NEW w \in Seq(Words), Len(w) = m_period
  PROVE  /\ Buffer(D \o w, P \o w, M)
         /\ Len(D \o w) \in 1 .. m_capacity
<1>1. /\ D \in Seq(Words) /\ P \in Seq(Words) /\ FlattenSeq(M) \in Seq(Words)
      /\ FlattenSeq(M) \o D = P /\ Items(Len(D)) /\ Len(D) \in Nat
  BY LenProperties DEF Buffer
<1>2. D \o w \in Seq(Words) /\ P \o w \in Seq(Words) /\ Len(D \o w) = Len(D) + m_period
  BY <1>1, ConcatProperties
<1>3. FlattenSeq(M) \o (D \o w) = P \o w
  <2>1. FlattenSeq(M) \o (D \o w) = (FlattenSeq(M) \o D) \o w
    <3>1. w \in Seq(Words)
      OBVIOUS
    <3> QED
      BY <1>1, <3>1, ThreeParts
  <2> QED
    BY <1>1, <2>1
<1>4. Items(Len(D) + m_period) /\ Len(D) + m_period <= threshold
  BY <1>1, ItemsAdd
<1>5. Len(D \o w) \in 1 .. m_capacity
  BY <1>1, <1>2, <1>4, PeriodAndCapacity
<1> QED
  BY <1>1, <1>2, <1>3, <1>4, <1>5 DEF Buffer

\* flush() of what waits.
LEMMA BufferFlush ==
  ASSUME NEW D, NEW P, NEW M, Buffer(D, P, M), Len(D) \in 1 .. m_capacity
  PROVE  Buffer(<< >>, P, Append(M, D))
<1>1. /\ D \in Seq(Words) /\ P \in Seq(Words) /\ M \in Seq(Seq(Words)) /\ FlattenSeq(M) \in Seq(Words)
      /\ FlattenSeq(M) \o D = P /\ Items(Len(D)) /\ \A k \in DOMAIN M : Whole(M[k])
  BY DEF Buffer
<1>2. FlattenSeq(Append(M, D)) = P
  BY <1>1, FlattenAppend
<1>3. P \o << >> = P
  BY <1>1, ConcatEmptySeq
<1>4. /\ Append(M, D) \in Seq(Seq(Words)) /\ Len(Append(M, D)) = Len(M) + 1 /\ Len(M) \in Nat
      /\ \A k \in 1 .. Len(M) : Append(M, D)[k] = M[k]
      /\ Append(M, D)[Len(M) + 1] = D
  BY <1>1, AppendProperties, LenProperties
<1>5. Whole(D)
  <2>1. Len(D) \in Nat
    BY <1>1, LenProperties
  <2> QED
    BY <1>1, <2>1, ItemsAdd DEF Whole
<1>6. ASSUME NEW k \in DOMAIN Append(M, D) PROVE Whole(Append(M, D)[k])
  <2>1. k \in 1 .. Len(M) + 1 /\ DOMAIN M = 1 .. Len(M)
    BY <1>1, <1>4, <1>6, LenProperties
  <2>2. CASE k = Len(M) + 1
    BY <1>4, <1>5, <2>2
  <2>3. CASE k \in 1 .. Len(M)
    BY <1>1, <1>4, <2>1, <2>3
  <2> QED
    BY <1>4, <2>1, <2>2, <2>3
<1>7. Items(Len(<< >>)) /\ << >> \in Seq(Words)
  <2>1. Len(<< >>) = 0 /\ 0 = 0 * m_period /\ 0 \in Nat
    BY PeriodAndCapacity
  <2> QED
    BY <2>1 DEF Items
<1> QED
  BY <1>1, <1>2, <1>3, <1>4, <1>6, <1>7 DEF Buffer

LEMMA InitBufferInv == BufferInit => BufferInv
<1> SUFFICES ASSUME BufferInit PROVE BufferInv
  OBVIOUS
<1>1. << >> \in Seq(Words) /\ << >> \in Seq(Seq(Words)) /\ Len(<< >>) = 0
  OBVIOUS
<1>2. FlattenSeq(<< >>) = << >> /\ << >> \o << >> = << >>
  BY <1>1, ConcatEmptySeq DEF FlattenSeq
<1>3. Items(0)
  <2>1. 0 = 0 * m_period /\ 0 \in Nat
    BY PeriodAndCapacity
  <2> QED
    BY <2>1 DEF Items
<1>4. Buffer(<< >>, << >>, << >>)
  <2>1. DOMAIN << >> = {} /\ \A k \in {} : Whole(<< >>[k])
    OBVIOUS
  <2>2. FlattenSeq(<< >>) \in Seq(Words) /\ FlattenSeq(<< >>) \o << >> = << >>
    BY <1>1, <1>2
  <2> QED
    BY <1>1, <1>3, <2>1, <2>2 DEF Buffer
<1>5. \A d \in Ranks : m_data[d] = << >> /\ pushed[d] = << >> /\ messages[d] = << >>
  BY DEF BufferInit
<1>6. \A d \in Ranks : Buffer(m_data[d], pushed[d], messages[d]) /\ Len(m_data[d]) < threshold
  BY <1>1, <1>4, <1>5, PeriodAndCapacity
<1>7. /\ m_data \in [Ranks -> Seq(Words)] /\ pushed \in [Ranks -> Seq(Words)]
      /\ messages \in [Ranks -> Seq(Seq(Words))] /\ added \in Nat
  BY <1>1 DEF BufferInit
<1> QED
  BY <1>6, <1>7 DEF BufferInv

LEMMA AddItemBufferInv ==
  ASSUME BufferInv, NEW d \in Ranks, AddItem(d)
  PROVE  BufferInv'
<1> DEFINE w == [k \in 1 .. m_period |-> <<added, k>>]
           data == [m_data EXCEPT ![d] = @ \o w]
<1>0. /\ m_data \in [Ranks -> Seq(Words)] /\ pushed \in [Ranks -> Seq(Words)]
      /\ messages \in [Ranks -> Seq(Seq(Words))] /\ added \in Nat
      /\ \A e \in Ranks : Buffer(m_data[e], pushed[e], messages[e]) /\ Len(m_data[e]) < threshold
  BY DEF BufferInv
<1>1. w \in Seq(Words) /\ Len(w) = m_period
  <2>1. w \in [1 .. m_period -> Words]
    BY <1>0 DEF Words
  <2>2. w \in Seq(Words)
    BY <2>1, PeriodAndCapacity, SeqDef
  <2> QED
    BY <2>2, PeriodAndCapacity, LenProperties
<1>2. /\ added' = added + 1 /\ pushed' = [pushed EXCEPT ![d] = @ \o w]
      /\ \/ Len(data[d]) < threshold /\ m_data' = data /\ messages' = messages
         \/ /\ messages' = [messages EXCEPT ![d] = Append(@, data[d])]
            /\ m_data' = [data EXCEPT ![d] = << >>]
  BY DEF AddItem, Flush, flushed
<1> HIDE DEF w
<1> DEFINE D == m_data[d] \o w
           P == pushed[d] \o w
<1>3. Buffer(D, P, messages[d]) /\ Len(D) \in 1 .. m_capacity
  BY <1>0, <1>1, BufferAdd
<1>4. D \in Seq(Words) /\ P \in Seq(Words) /\ << >> \in Seq(Words)
  BY <1>3 DEF Buffer
<1>5. data[d] = D /\ \A e \in Ranks \ {d} : data[e] = m_data[e]
  BY <1>0
<1>6. data \in [Ranks -> Seq(Words)]
  BY <1>0, <1>4
<1>7. pushed' \in [Ranks -> Seq(Words)] /\ pushed'[d] = P /\ \A e \in Ranks \ {d} : pushed'[e] = pushed[e]
  BY <1>0, <1>2, <1>4
<1> HIDE DEF data, D, P
<1>8. CASE Len(data[d]) < threshold /\ m_data' = data /\ messages' = messages
  <2>1. ASSUME NEW e \in Ranks
        PROVE  Buffer(m_data'[e], pushed'[e], messages'[e]) /\ Len(m_data'[e]) < threshold
    <3>1. CASE e = d
      BY <1>3, <1>5, <1>7, <1>8, <3>1
    <3>2. CASE e # d
      BY <1>0, <1>5, <1>7, <1>8, <3>2
    <3> QED
      BY <3>1, <3>2
  <2> QED
    BY <1>0, <1>2, <1>6, <1>7, <1>8, <2>1 DEF BufferInv
<1>9. CASE /\ messages' = [messages EXCEPT ![d] = Append(@, data[d])]
           /\ m_data' = [data EXCEPT ![d] = << >>]
  <2>1. Append(messages[d], D) \in Seq(Seq(Words))
    BY <1>0, <1>4, AppendProperties
  <2>2. /\ messages' \in [Ranks -> Seq(Seq(Words))] /\ messages'[d] = Append(messages[d], D)
        /\ \A e \in Ranks \ {d} : messages'[e] = messages[e]
    BY <1>0, <1>5, <1>9, <2>1
  <2>3. /\ m_data' \in [Ranks -> Seq(Words)] /\ m_data'[d] = << >>
        /\ \A e \in Ranks \ {d} : m_data'[e] = m_data[e]
    BY <1>4, <1>5, <1>6, <1>9
  <2>4. Buffer(<< >>, P, Append(messages[d], D)) /\ Len(<< >>) < threshold
    BY <1>3, BufferFlush, PeriodAndCapacity
  <2>5. ASSUME NEW e \in Ranks
        PROVE  Buffer(m_data'[e], pushed'[e], messages'[e]) /\ Len(m_data'[e]) < threshold
    <3>1. CASE e = d
      BY <1>7, <2>2, <2>3, <2>4, <3>1
    <3>2. CASE e # d
      BY <1>0, <1>7, <2>2, <2>3, <3>2
    <3> QED
      BY <3>1, <3>2
  <2> QED
    BY <1>0, <1>2, <1>7, <2>2, <2>3, <2>5 DEF BufferInv
<1> QED
  BY <1>2, <1>8, <1>9

LEMMA FlushAllBufferInv ==
  ASSUME BufferInv, FlushAll
  PROVE  BufferInv'
<1>0. /\ m_data \in [Ranks -> Seq(Words)] /\ pushed \in [Ranks -> Seq(Words)]
      /\ messages \in [Ranks -> Seq(Seq(Words))] /\ added \in Nat
      /\ \A e \in Ranks : Buffer(m_data[e], pushed[e], messages[e]) /\ Len(m_data[e]) < threshold
  BY DEF BufferInv
<1>1. PICK d \in Ranks :
        /\ m_data[d] # << >> /\ pushed' = pushed /\ added' = added
        /\ messages' = [messages EXCEPT ![d] = Append(@, m_data[d])]
        /\ m_data' = [m_data EXCEPT ![d] = << >>]
  BY DEF FlushAll, Flush, flushed
<1> DEFINE D == m_data[d]
<1>2. D \in Seq(Words) /\ << >> \in Seq(Words) /\ Len(D) \in 1 .. m_capacity
  <2>1. D \in Seq(Words)
    BY <1>0
  <2>2. Len(D) \in Nat /\ Len(D) # 0
    BY <1>1, <2>1, EmptySeq, LenProperties
  <2> QED
    BY <1>0, <2>1, <2>2, PeriodAndCapacity
<1>3. Append(messages[d], D) \in Seq(Seq(Words))
  BY <1>0, <1>2, AppendProperties
<1>4. /\ messages' \in [Ranks -> Seq(Seq(Words))] /\ messages'[d] = Append(messages[d], D)
      /\ \A e \in Ranks \ {d} : messages'[e] = messages[e]
  BY <1>0, <1>1, <1>3
<1>5. /\ m_data' \in [Ranks -> Seq(Words)] /\ m_data'[d] = << >>
      /\ \A e \in Ranks \ {d} : m_data'[e] = m_data[e]
  BY <1>0, <1>1, <1>2
<1>6. Buffer(<< >>, pushed[d], Append(messages[d], D)) /\ Len(<< >>) < threshold
  BY <1>0, <1>2, BufferFlush, PeriodAndCapacity
<1> HIDE DEF D
<1>7. ASSUME NEW e \in Ranks
      PROVE  Buffer(m_data'[e], pushed'[e], messages'[e]) /\ Len(m_data'[e]) < threshold
  <2>1. CASE e = d
    BY <1>1, <1>4, <1>5, <1>6, <2>1
  <2>2. CASE e # d
    BY <1>0, <1>1, <1>4, <1>5, <2>2
  <2> QED
    BY <2>1, <2>2
<1> QED
  BY <1>0, <1>1, <1>4, <1>5, <1>7 DEF BufferInv

LEMMA NextBufferInv == BufferInv /\ [BufferNext]_bufferVars => BufferInv'
<1> SUFFICES ASSUME BufferInv, [BufferNext]_bufferVars PROVE BufferInv'
  OBVIOUS
<1>1. ASSUME NEW d \in Ranks, AddItem(d) PROVE BufferInv'
  BY <1>1, AddItemBufferInv
<1>2. CASE FlushAll
  BY <1>2, FlushAllBufferInv
<1>3. CASE UNCHANGED bufferVars
  BY <1>3 DEF bufferVars, BufferInv
<1> QED
  BY <1>1, <1>2, <1>3 DEF BufferNext

LEMMA SpecBufferInv == BufferSpec => []BufferInv
  BY InitBufferInv, NextBufferInv, PTL DEF BufferSpec

\* Whatever items are added for which ranks and whenever flushAll runs: the
\* messages to a rank, one after the other, and what waits are the words added
\* for it, and every message fits and holds whole items.
THEOREM WordsArriveInOrder == BufferSpec => []BufferedInOrder
<1>1. BufferInv => BufferedInOrder
  BY DEF BufferInv, Buffer, Whole, BufferedInOrder
<1> QED
  BY <1>1, SpecBufferInv, PTL

(***************************************************************************)
(* The key-value store                                                     *)
(***************************************************************************)
\* For any ranks, keys and values, any capacity of a message and any order
\* of insertions, removals, pulls and messages: what KeyValueStore::test
\* declares ready is what the owner had, and no part is written out of
\* bounds, unless the item was meddled with while it was pulled.

ValueByte == UNION {{v[i] : i \in DOMAIN v} : v \in Values}
Byte == ValueByte \union {Garbage}

Pair == Stores \X Stores

ItemType ==
  [value : Seq(Byte), downloaded : Nat, ready : BOOLEAN, sent : BOOLEAN, absent : {FALSE}]

RequestType == [active : {TRUE}, key : Keys, rank : Stores]

PartRequest == [reply : {FALSE}, key : Keys, offset : Nat]

PartReply == [reply : {TRUE}, key : Keys, offset : Nat, length : Nat, bytes : Seq(Byte)]

Message == PartRequest \union PartReply

Source == {Local, Unknown, Tainted} \union [is : {"served"}, value : Seq(Byte)]

\* A part that is announced has its bytes.
WellFormed(m) ==
  m.reply => LET n == partLength(m.length, m.offset) IN n >= 0 => Len(m.bytes) = n

StoreTypeOK ==
  /\ items \in [Stores -> [Keys -> ItemType \union {Absent}]]
  /\ requests \in [Stores -> RequestType \union {NoRequest}]
  /\ channel \in [Pair -> Seq(Message)]
  /\ crashed \in BOOLEAN
  /\ source \in [Stores -> [Keys -> Source]]
  /\ inserts \in Nat /\ removals \in Nat /\ pulls \in Nat

\* Every part in the channels has its bytes.
PartsWellFormed == \A p \in Pair : \A i \in DOMAIN channel[p] : WellFormed(channel[p][i])

\* Is the i-th message of the channel p about the pulling of k by r?
Concerns(r, k, p, i) ==
  /\ i \in DOMAIN channel[p] /\ channel[p][i].key = k
  /\ IF channel[p][i].reply THEN p[2] = r ELSE p[1] = r

\* A transfer has at most one message under way.
OneUnderWay(r, k) ==
  \A p, q \in Pair : \A i \in DOMAIN channel[p], j \in DOMAIN channel[q] :
    Concerns(r, k, p, i) /\ Concerns(r, k, q, j) => p = q /\ i = j

\* The item has, as far as it was downloaded, the bytes of v.
PrefixOf(item, v) ==
  \/ item.value = << >> /\ item.downloaded = 0
  \/ /\ Len(item.value) = Len(v) /\ item.downloaded <= Len(v)
     /\ \A i \in 1 .. item.downloaded : item.value[i] = v[i]

\* The item is as far as its transfer is.
ItemOK(item, s) ==
  /\ s = Local => item.absent \/ item.ready
  /\ s = Unknown => ~item.absent /\ ~item.ready /\ item.value = << >> /\ item.downloaded = 0
  /\ s.is = "served" => ~item.absent /\ IF item.ready THEN item.value = s.value
                                                      ELSE PrefixOf(item, s.value)

\* The message asks for, or brings, the next part of the item.
MessageOK(m, item, s) ==
  /\ s # Local /\ ~item.absent /\ ~item.ready /\ item.sent
  /\ m.offset = item.downloaded
  /\ m.reply => /\ s.is = "served" /\ m.length = Len(s.value)
                /\ \A j \in 1 .. partLength(m.length, m.offset) : m.bytes[j] = s.value[m.offset + j]

\* The state of a transfer that nobody meddled with.
TransferOK(r, k) ==
  /\ ItemOK(items[r][k], source[r][k])
  /\ OneUnderWay(r, k)
  /\ \A p \in Pair : \A i \in DOMAIN channel[p] :
       Concerns(r, k, p, i) => MessageOK(channel[p][i], items[r][k], source[r][k])

\* The inductive invariant.
IInv ==
  /\ StoreTypeOK
  /\ PartsWellFormed
  /\ \A r \in Stores, k \in Keys : source[r][k] # Tainted => TransferOK(r, k)
  /\ crashed => \E r \in Stores, k \in Keys : source[r][k] = Tainted

------------------------------------------------------------------------------
\* The ghosts are told apart.
LEMMA Ghosts ==
  /\ Local # Unknown /\ Local # Tainted /\ Unknown # Tainted
  /\ Local.is # "served" /\ Unknown.is # "served" /\ Tainted.is # "served"
  /\ Local \in Source /\ Unknown \in Source /\ Tainted \in Source
  /\ \A v : ghost("served", v).is = "served" /\ ghost("served", v).value = v
  /\ \A v \in Seq(Byte) : ghost("served", v) \in Source
BY DEF Local, Unknown, Tainted, ghost, Source

\* The values of the application are made of bytes.
LEMMA ValuesOfBytes == \A v \in Values : v \in Seq(Byte)
<1> SUFFICES ASSUME NEW v \in Values PROVE v \in Seq(Byte)
  OBVIOUS
<1>1. v \in Seq({v[i] : i \in DOMAIN v})
  BY KeyValueStoreAssumption
<1>2. ASSUME NEW i \in DOMAIN v PROVE v[i] \in Byte
  <2>1. v[i] \in {v[j] : j \in DOMAIN v}
    OBVIOUS
  <2>2. {v[j] : j \in DOMAIN v} \in {{w[j] : j \in DOMAIN w} : w \in Values}
    OBVIOUS
  <2> QED
    BY <2>1, <2>2 DEF Byte, ValueByte
<1>3. Len(v) \in Nat /\ v = [i \in 1 .. Len(v) |-> v[i]] /\ DOMAIN v = 1 .. Len(v)
  <2> DEFINE S == {v[i] : i \in DOMAIN v}
  <2>1. v \in Seq(S)
    BY <1>1
  <2> HIDE DEF S
  <2> QED
    BY <2>1
<1> QED
  BY <1>2, <1>3, SeqDef

\* Setting one entry of a table leaves the others alone.
LEMMA OneItem ==
  ASSUME NEW K, NEW D, NEW S, NEW f \in [K -> [D -> S]], NEW k \in K, NEW d \in D, NEW x \in S
  PROVE  /\ [f EXCEPT ![k][d] = x] \in [K -> [D -> S]]
         /\ \A kk \in K, dd \in D :
              [f EXCEPT ![k][d] = x][kk][dd] = IF kk = k /\ dd = d THEN x ELSE f[kk][dd]
<1>1. [f[k] EXCEPT ![d] = x] \in [D -> S]
  OBVIOUS
<1>2. [f EXCEPT ![k][d] = x] = [f EXCEPT ![k] = [f[k] EXCEPT ![d] = x]]
  OBVIOUS
<1>3. \A kk \in K : [f EXCEPT ![k][d] = x][kk] = IF kk = k THEN [f[k] EXCEPT ![d] = x] ELSE f[kk]
  BY <1>2
<1> QED
  BY <1>1, <1>2, <1>3

\* What the item's operations assign.
LEMMA ItemOperations ==
  /\ \A v \in Seq(Byte) :
       /\ KeyValueStoreItem(v) \in ItemType
       /\ KeyValueStoreItem(v).ready /\ ~KeyValueStoreItem(v).absent
       /\ KeyValueStoreItem(v).value = v
  /\ \A item \in ItemType :
       /\ sendMessage(item) \in ItemType
       /\ sendMessage(item).value = item.value /\ sendMessage(item).downloaded = item.downloaded
       /\ ~sendMessage(item).ready /\ sendMessage(item).sent
       /\ receiveMessage(item) \in ItemType
       /\ receiveMessage(item).value = item.value
       /\ receiveMessage(item).downloaded = item.downloaded
       /\ receiveMessage(item).ready <=> item.ready \/ item.downloaded = Len(item.value)
  /\ LET e == startDownload(KeyValueStoreItem(<< >>))
     IN  e \in ItemType /\ ~e.ready /\ ~e.absent /\ e.value = << >> /\ e.downloaded = 0
<1>1. ASSUME NEW v \in Seq(Byte)
      PROVE  /\ KeyValueStoreItem(v) \in ItemType
             /\ KeyValueStoreItem(v).ready /\ ~KeyValueStoreItem(v).absent
             /\ KeyValueStoreItem(v).value = v
  BY DEF KeyValueStoreItem, ItemType
<1>2. ASSUME NEW item \in ItemType, NEW y \in BOOLEAN, NEW s \in BOOLEAN, NEW new,
             new = [item EXCEPT !.ready = y, !.sent = s]
      PROVE  /\ new \in ItemType /\ new.value = item.value /\ new.downloaded = item.downloaded
             /\ new.ready = y /\ new.sent = s /\ new.absent = FALSE
  BY <1>2 DEF ItemType
<1>3. ASSUME NEW item \in ItemType
      PROVE  /\ sendMessage(item) \in ItemType
             /\ sendMessage(item).value = item.value /\ sendMessage(item).downloaded = item.downloaded
             /\ ~sendMessage(item).ready /\ sendMessage(item).sent
  <2> DEFINE y == FALSE
             s == TRUE
  <2>1. sendMessage(item) = [item EXCEPT !.ready = y, !.sent = s] /\ y \in BOOLEAN /\ s \in BOOLEAN
    BY DEF sendMessage
  <2> HIDE DEF y, s
  <2> QED
    BY <1>2, <2>1 DEF y, s
<1>4. ASSUME NEW item \in ItemType
      PROVE  /\ receiveMessage(item) \in ItemType
             /\ receiveMessage(item).value = item.value
             /\ receiveMessage(item).downloaded = item.downloaded
             /\ receiveMessage(item).ready <=> item.ready \/ item.downloaded = Len(item.value)
  <2> DEFINE y == item.ready \/ item.downloaded = Len(item.value)
  <2>1. receiveMessage(item) = [item EXCEPT !.ready = y, !.sent = FALSE] /\ y \in BOOLEAN
    BY DEF receiveMessage
  <2> HIDE DEF y
  <2> QED
    BY <1>2, <2>1, ZenonT(60) DEF y
<1>5. LET e == startDownload(KeyValueStoreItem(<< >>))
      IN  e \in ItemType /\ ~e.ready /\ ~e.absent /\ e.value = << >> /\ e.downloaded = 0
  <2>1. << >> \in Seq(Byte) /\ Len(<< >>) = 0
    OBVIOUS
  <2>2. /\ KeyValueStoreItem(<< >>) \in ItemType /\ KeyValueStoreItem(<< >>).value = << >>
        /\ KeyValueStoreItem(<< >>).downloaded = 0
    BY <1>1, <2>1 DEF KeyValueStoreItem
  <2> DEFINE y == FALSE
             s == FALSE
             b == KeyValueStoreItem(<< >>)
  <2>3. startDownload(b) = [b EXCEPT !.ready = y, !.sent = s] /\ y \in BOOLEAN /\ s \in BOOLEAN
    BY DEF startDownload
  <2>4. b \in ItemType /\ b.value = << >> /\ b.downloaded = 0
    BY <2>2
  <2> HIDE DEF y, s, b
  <2>5. /\ startDownload(b) \in ItemType /\ startDownload(b).value = b.value
        /\ startDownload(b).downloaded = b.downloaded
        /\ ~startDownload(b).ready /\ ~startDownload(b).absent
    BY <1>2, <2>3, <2>4 DEF y, s
  <2> QED
    BY <2>4, <2>5 DEF b
<1> QED
  BY <1>1, <1>3, <1>4, <1>5

\* What the types say of an item and of a message.
LEMMA Shapes ==
  /\ Absent.absent /\ ~Absent.ready /\ Absent \notin ItemType
  /\ \A item \in ItemType :
       /\ item.value \in Seq(Byte) /\ item.downloaded \in Nat /\ item.ready \in BOOLEAN
       /\ item.sent \in BOOLEAN /\ item.absent = FALSE
  /\ \A m \in Message :
       /\ m.key \in Keys /\ m.offset \in Nat /\ m.reply \in BOOLEAN
       /\ m.reply => m.length \in Nat /\ m.bytes \in Seq(Byte)
<1>1. Absent.absent /\ ~Absent.ready /\ Absent \notin ItemType
  BY DEF Absent, ItemType
<1>2. ASSUME NEW item \in ItemType
      PROVE  /\ item.value \in Seq(Byte) /\ item.downloaded \in Nat /\ item.ready \in BOOLEAN
             /\ item.sent \in BOOLEAN /\ item.absent = FALSE
  BY DEF ItemType
<1>3. ASSUME NEW m \in Message
      PROVE  /\ m.key \in Keys /\ m.offset \in Nat /\ m.reply \in BOOLEAN
             /\ m.reply => m.length \in Nat /\ m.bytes \in Seq(Byte)
  BY DEF Message, PartRequest, PartReply
<1> QED
  BY <1>1, <1>2, <1>3

\* The length of a part.
LEMMA PartLength ==
  ASSUME NEW l \in Nat, NEW o \in Nat
  PROVE  /\ partLength(l, o) \in Int /\ o + partLength(l, o) <= l
         /\ o <= l => partLength(l, o) \in Nat
         /\ partLength(l, o) >= 0 => o <= l
BY KeyValueStoreAssumption DEF partLength

\* A transfer whose item stays, and whose messages only move up in their channels:
\* back tells where a message was before.
LEMMA SameTransfer ==
  ASSUME NEW r \in Stores, NEW k \in Keys, TransferOK(r, k), NEW back,
         items'[r][k] = items[r][k], source'[r][k] = source[r][k],
         \A p \in Pair : \A i \in DOMAIN channel'[p] : Concerns(r, k, p, i)' =>
           /\ back[p][i] \in DOMAIN channel[p]
           /\ channel'[p][i] = channel[p][back[p][i]],
         \A p \in Pair : \A i, j \in DOMAIN channel'[p] : back[p][i] = back[p][j] => i = j
  PROVE  TransferOK(r, k)'
<1>1. ASSUME NEW p \in Pair, NEW i \in DOMAIN channel'[p], Concerns(r, k, p, i)'
      PROVE  /\ back[p][i] \in DOMAIN channel[p] /\ Concerns(r, k, p, back[p][i])
             /\ channel'[p][i] = channel[p][back[p][i]]
  BY <1>1 DEF Concerns
<1>2. ItemOK(items[r][k], source[r][k])'
  BY DEF TransferOK, ItemOK, PrefixOf, Local, Unknown, ghost
<1>3. OneUnderWay(r, k)'
  <2> SUFFICES ASSUME NEW p \in Pair, NEW q \in Pair,
                      NEW i \in DOMAIN channel'[p], NEW j \in DOMAIN channel'[q],
                      Concerns(r, k, p, i)', Concerns(r, k, q, j)'
               PROVE  p = q /\ i = j
    BY DEF OneUnderWay
  <2>1. p = q /\ back[p][i] = back[q][j]
    BY <1>1 DEF TransferOK, OneUnderWay
  <2> QED
    BY <2>1
<1>4. ASSUME NEW p \in Pair, NEW i \in DOMAIN channel'[p], Concerns(r, k, p, i)'
      PROVE  MessageOK(channel[p][i], items[r][k], source[r][k])'
  <2>1. MessageOK(channel[p][back[p][i]], items[r][k], source[r][k])
    BY <1>1, <1>4 DEF TransferOK
  <2>2. PICK m, item, s : m = channel[p][back[p][i]] /\ item = items[r][k] /\ s = source[r][k]
    OBVIOUS
  <2>3. MessageOK(m, item, s)
    BY <2>1, <2>2
  <2>4. channel'[p][i] = m /\ items'[r][k] = item /\ source'[r][k] = s
    BY <1>1, <1>4, <2>2
  <2> QED
    BY <2>3, <2>4 DEF MessageOK, Local, ghost, partLength
<1> QED
  BY <1>2, <1>3, <1>4 DEF TransferOK

\* The same when the channels stay.
LEMMA StillTransfer ==
  ASSUME NEW r \in Stores, NEW k \in Keys, TransferOK(r, k), UNCHANGED channel,
         items'[r][k] = items[r][k], source'[r][k] = source[r][k]
  PROVE  TransferOK(r, k)'
BY DEF TransferOK, ItemOK, PrefixOf, OneUnderWay, Concerns, MessageOK, partLength, Local, Unknown,
       ghost

\* Without messages under way no message is about the transfer.
LEMMA NotUnderWay ==
  ASSUME StoreTypeOK, NEW r \in Stores, NEW k \in Keys, ~underWay(r, k),
         NEW p \in Pair, NEW i \in DOMAIN channel[p]
  PROVE  ~Concerns(r, k, p, i)
<1> SUFFICES ASSUME Concerns(r, k, p, i) PROVE FALSE
  OBVIOUS
<1>1. p[1] \in Stores /\ p[2] \in Stores /\ p = <<p[1], p[2]>>
  BY DEF Pair
<1>2. CASE channel[p][i].reply
  <2>1. p = <<p[1], r>>
    BY <1>1, <1>2 DEF Concerns
  <2> QED
    BY <1>1, <1>2, <2>1 DEF Concerns, underWay
<1>3. CASE ~channel[p][i].reply
  <2>1. p = <<r, p[2]>>
    BY <1>1, <1>3 DEF Concerns
  <2> QED
    BY <1>1, <1>3, <2>1 DEF Concerns, underWay
<1> QED
  BY <1>2, <1>3

\* The application, or the start of a transfer, replaces an item.
LEMMA ReplaceItem ==
  ASSUME IInv, ~crashed, NEW r \in Stores, NEW k \in Keys, NEW new \in ItemType \union {Absent},
         NEW s \in {Local, Unknown}, ItemOK(new, s),
         items' = [items EXCEPT ![r][k] = new],
         source' = [source EXCEPT ![r][k] = IF underWay(r, k) THEN Tainted ELSE s],
         UNCHANGED <<requests, channel, crashed>>,
         inserts' \in Nat, removals' \in Nat, pulls' \in Nat
  PROVE  IInv'
<1>0. /\ StoreTypeOK /\ PartsWellFormed
      /\ \A a \in Stores, h \in Keys : source[a][h] # Tainted => TransferOK(a, h)
  BY DEF IInv
<1> DEFINE t == IF underWay(r, k) THEN Tainted ELSE s
<1>1. t \in Source
  BY Ghosts
<1>2. /\ items' \in [Stores -> [Keys -> ItemType \union {Absent}]]
      /\ \A a \in Stores, h \in Keys :
           items'[a][h] = IF a = r /\ h = k THEN new ELSE items[a][h]
  BY <1>0, OneItem DEF StoreTypeOK
<1>3. /\ source' \in [Stores -> [Keys -> Source]]
      /\ \A a \in Stores, h \in Keys :
           source'[a][h] = IF a = r /\ h = k THEN t ELSE source[a][h]
  <2> HIDE DEF t
  <2>1. source' = [source EXCEPT ![r][k] = t]
    BY DEF t
  <2> QED
    BY <1>0, <1>1, <2>1, OneItem DEF StoreTypeOK
<1>4. StoreTypeOK'
  BY <1>0, <1>2, <1>3 DEF StoreTypeOK
<1>5. PartsWellFormed'
  BY <1>0 DEF PartsWellFormed, WellFormed, partLength
<1>6. ASSUME NEW a \in Stores, NEW h \in Keys, source'[a][h] # Tainted PROVE TransferOK(a, h)'
  <2>1. CASE a = r /\ h = k
    <3>1. ~underWay(r, k) /\ items'[a][h] = new /\ source'[a][h] = s
      BY <1>2, <1>3, <1>6, <2>1
    <3>2. \A p \in Pair : \A i \in DOMAIN channel[p] : ~Concerns(a, h, p, i)
      BY <1>0, <2>1, <3>1, NotUnderWay
    <3>3. \A p \in Pair : \A i \in DOMAIN channel'[p] : ~Concerns(a, h, p, i)'
      BY <3>2 DEF Concerns
    <3>4. ItemOK(items[a][h], source[a][h])'
      BY <3>1 DEF ItemOK, PrefixOf, Local, Unknown, ghost
    <3> QED
      BY <3>3, <3>4 DEF TransferOK, OneUnderWay
  <2>2. CASE ~ (a = r /\ h = k)
    <3>1. items'[a][h] = items[a][h] /\ source'[a][h] = source[a][h]
      BY <1>2, <1>3, <2>2
    <3>2. source[a][h] # Tainted
      BY <1>6, <3>1 DEF Tainted, ghost
    <3> QED
      BY <1>0, <3>1, <3>2, StillTransfer
  <2> QED
    BY <2>1, <2>2
<1>7. ~crashed'
  OBVIOUS
<1> QED
  BY <1>4, <1>5, <1>6, <1>7 DEF IInv

\* Appending to a channel.
LEMMA Appended ==
  ASSUME NEW f \in [Pair -> Seq(Message)], NEW p \in Pair, NEW m \in Message, NEW g,
         g = [f EXCEPT ![p] = Append(@, m)]
  PROVE  /\ g \in [Pair -> Seq(Message)]
         /\ \A q \in Pair : q # p => g[q] = f[q]
         /\ DOMAIN f[p] = 1 .. Len(f[p]) /\ DOMAIN g[p] = 1 .. Len(f[p]) + 1 /\ Len(f[p]) \in Nat
         /\ g[p][Len(f[p]) + 1] = m
         /\ \A i \in 1 .. Len(f[p]) : g[p][i] = f[p][i]
<1>1. f[p] \in Seq(Message) /\ g[p] = Append(f[p], m)
  OBVIOUS
<1>2. g \in [Pair -> Seq(Message)] /\ \A q \in Pair : q # p => g[q] = f[q]
  BY <1>1
<1> QED
  BY <1>1, <1>2

\* test() asks for the next part: nothing was under way.
LEMMA TestAsksIInv ==
  ASSUME IInv, NEW r \in Stores, TestAsks(r)
  PROVE  IInv'
<1>a. PICK k, b : k = requests[r].key /\ b = requests[r].rank
  OBVIOUS
<1>b. PICK item, p0 : item = items[r][k] /\ p0 = <<r, b>>
  OBVIOUS
<1>c. PICK m0, n : m0 = partRequest(k, item) /\ n = Len(channel[p0])
  OBVIOUS
<1>0. /\ StoreTypeOK /\ PartsWellFormed
      /\ \A a \in Stores, h \in Keys : source[a][h] # Tainted => TransferOK(a, h)
  BY DEF IInv
<1>1. /\ ~crashed /\ requests[r].active /\ ~item.absent /\ ~item.ready /\ ~item.sent
      /\ channel' = [channel EXCEPT ![p0] = Append(@, m0)]
      /\ items' = [items EXCEPT ![r][k] = sendMessage(item)]
      /\ UNCHANGED <<requests, crashed, inserts, removals, pulls, source>>
  BY <1>a, <1>b, <1>c DEF TestAsks, hasKey, send
<1>2. k \in Keys /\ b \in Stores /\ p0 \in Pair
  <2>1. requests[r] \in RequestType
    BY <1>0, <1>1 DEF StoreTypeOK, NoRequest
  <2> QED
    BY <1>a, <1>b, <2>1 DEF RequestType, Pair
<1>3. item \in ItemType
  BY <1>0, <1>1, <1>2, <1>b, Shapes DEF StoreTypeOK
<1>4. m0 \in Message /\ m0.reply = FALSE /\ m0.key = k /\ m0.offset = item.downloaded
  BY <1>2, <1>3, <1>c, Shapes DEF partRequest, Message, PartRequest
<1>5. /\ sendMessage(item) \in ItemType /\ sendMessage(item).value = item.value
      /\ sendMessage(item).downloaded = item.downloaded
      /\ ~sendMessage(item).ready /\ sendMessage(item).sent
  BY <1>3, ItemOperations
<1>6. /\ items' \in [Stores -> [Keys -> ItemType \union {Absent}]]
      /\ \A a \in Stores, h \in Keys :
           items'[a][h] = IF a = r /\ h = k THEN sendMessage(item) ELSE items[a][h]
  BY <1>0, <1>1, <1>2, <1>5, OneItem DEF StoreTypeOK
<1>7. channel \in [Pair -> Seq(Message)]
  BY <1>0 DEF StoreTypeOK
<1>8. /\ channel' \in [Pair -> Seq(Message)]
      /\ \A q \in Pair : q # p0 => channel'[q] = channel[q]
      /\ DOMAIN channel[p0] = 1 .. n /\ DOMAIN channel'[p0] = 1 .. n + 1 /\ n \in Nat
      /\ channel'[p0][n + 1] = m0
      /\ \A i \in 1 .. n : channel'[p0][i] = channel[p0][i]
  BY <1>1, <1>2, <1>4, <1>7, <1>c, Appended
<1>9. StoreTypeOK'
  BY <1>0, <1>1, <1>6, <1>8 DEF StoreTypeOK
<1>10. PartsWellFormed'
  <2> SUFFICES ASSUME NEW p \in Pair, NEW i \in DOMAIN channel'[p] PROVE WellFormed(channel[p][i])'
    BY DEF PartsWellFormed
  <2>1. CASE p = p0 /\ i = n + 1
    <3>1. ~channel'[p][i].reply
      BY <1>4, <1>8, <2>1
    <3> QED
      BY <3>1 DEF WellFormed
  <2>2. CASE ~ (p = p0 /\ i = n + 1)
    <3>1. i \in DOMAIN channel[p] /\ channel'[p][i] = channel[p][i]
      BY <1>2, <1>8, <2>2
    <3> QED
      BY <1>0, <3>1 DEF PartsWellFormed, WellFormed, partLength
  <2> QED
    BY <2>1, <2>2
<1>11. ASSUME NEW a \in Stores, NEW h \in Keys, source'[a][h] # Tainted PROVE TransferOK(a, h)'
  <2>0. source[a][h] # Tainted /\ source'[a][h] = source[a][h]
    BY <1>1, <1>11 DEF Tainted, ghost
  <2>1. TransferOK(a, h)
    BY <1>0, <2>0
  <2>2. ASSUME NEW p \in Pair, NEW i \in DOMAIN channel'[p], ~ (p = p0 /\ i = n + 1)
        PROVE  i \in DOMAIN channel[p] /\ channel'[p][i] = channel[p][i]
    BY <1>2, <1>8, <2>2
  <2>3. CASE a = r /\ h = k
    <3>1. ASSUME NEW p \in Pair, NEW i \in DOMAIN channel[p] PROVE ~Concerns(a, h, p, i)
      BY <1>1, <1>b, <2>1, <2>3 DEF TransferOK, MessageOK
    <3>2. ASSUME NEW p \in Pair, NEW i \in DOMAIN channel'[p], Concerns(a, h, p, i)'
          PROVE  p = p0 /\ i = n + 1
      <4> SUFFICES ASSUME ~ (p = p0 /\ i = n + 1) PROVE FALSE
        OBVIOUS
      <4>1. i \in DOMAIN channel[p] /\ channel'[p][i] = channel[p][i]
        BY <2>2
      <4>2. Concerns(a, h, p, i)
        BY <3>2, <4>1 DEF Concerns
      <4> QED
        BY <3>1, <4>1, <4>2
    <3>3. OneUnderWay(a, h)'
      BY <3>2 DEF OneUnderWay
    <3>4. PICK new, s : new = sendMessage(item) /\ s = source[a][h]
      OBVIOUS
    <3>5. items'[a][h] = new /\ source'[a][h] = s
      BY <1>6, <2>0, <2>3, <3>4
    <3>6. /\ new.value = item.value /\ new.downloaded = item.downloaded /\ ~new.ready /\ new.sent
          /\ ~new.absent
      BY <1>5, <3>4, Shapes
    <3>7. s # Local /\ ItemOK(item, s)
      BY <1>1, <1>b, <2>1, <2>3, <3>4 DEF TransferOK, ItemOK
    <3>8. ItemOK(new, s)
      BY <1>1, <3>6, <3>7 DEF ItemOK, PrefixOf
    <3>9. MessageOK(m0, new, s)
      BY <1>4, <3>6, <3>7 DEF MessageOK
    <3>10. ItemOK(items[a][h], source[a][h])'
      BY <3>5, <3>8 DEF ItemOK, PrefixOf, Local, Unknown, ghost
    <3>11. ASSUME NEW p \in Pair, NEW i \in DOMAIN channel'[p], Concerns(a, h, p, i)'
           PROVE  MessageOK(channel[p][i], items[a][h], source[a][h])'
      <4>1. PICK m : m = m0
        OBVIOUS
      <4>2. channel'[p][i] = m /\ MessageOK(m, new, s)
        BY <1>8, <3>2, <3>9, <3>11, <4>1
      <4> QED
        BY <3>5, <4>2 DEF MessageOK, partLength, Local, ghost
    <3> QED
      BY <3>3, <3>10, <3>11 DEF TransferOK
  <2>4. CASE ~ (a = r /\ h = k)
    <3> DEFINE back == [p \in Pair |-> [i \in Nat |-> i]]
    <3>1. items'[a][h] = items[a][h]
      BY <1>6, <2>4
    <3>2. ~Concerns(a, h, p0, n + 1)'
      BY <1>2, <1>4, <1>8, <1>b, <2>4 DEF Concerns, Pair
    <3>3. ASSUME NEW p \in Pair, NEW i \in DOMAIN channel'[p]
          PROVE  back[p][i] = i
      BY <1>8
    <3>4. ASSUME NEW p \in Pair, NEW i \in DOMAIN channel'[p], Concerns(a, h, p, i)'
          PROVE  back[p][i] \in DOMAIN channel[p] /\ channel'[p][i] = channel[p][back[p][i]]
      BY <2>2, <3>2, <3>3, <3>4
    <3>5. \A p \in Pair : \A i, j \in DOMAIN channel'[p] : back[p][i] = back[p][j] => i = j
      BY <3>3
    <3> HIDE DEF back
    <3> QED
      BY <2>0, <2>1, <3>1, <3>4, <3>5, SameTransfer
  <2> QED
    BY <2>3, <2>4
<1>12. ~crashed'
  BY <1>1
<1> QED
  BY <1>9, <1>10, <1>11, <1>12 DEF IInv

------------------------------------------------------------------------------
\* The first message of a channel, and the channel without it.
LEMMA Popped ==
  ASSUME NEW f \in [Pair -> Seq(Message)], NEW p \in Pair, f[p] # << >>
  PROVE  /\ Head(f[p]) = f[p][1] /\ f[p][1] \in Message /\ 1 \in DOMAIN f[p]
         /\ Len(f[p]) \in Nat /\ Len(f[p]) >= 1 /\ DOMAIN f[p] = 1 .. Len(f[p])
         /\ Tail(f[p]) \in Seq(Message) /\ DOMAIN Tail(f[p]) = 1 .. Len(f[p]) - 1
         /\ \A i \in 1 .. Len(f[p]) - 1 : Tail(f[p])[i] = f[p][i + 1]
<1>1. f[p] \in Seq(Message)
  OBVIOUS
<1> QED
  BY <1>1

\* What the owner makes of a request: unless the ghost is tainted, the request asks
\* for a part of the value the owner has, and the item so far is a prefix of it.
LEMMA ServedSource ==
  ASSUME IInv, NEW r \in Stores, NEW b \in Stores, NEW q, channel[<<r, b>>] # << >>,
         q = channel[<<r, b>>][1], ~q.reply, NEW value,
         value = IF hasKey(b, q.key) THEN items[b][q.key].value ELSE << >>
  PROVE  /\ value \in Seq(Byte) /\ nextSource(r, b, q.key) \in Source
         /\ nextSource(r, b, q.key) # Tainted =>
              /\ source[r][q.key] # Tainted
              /\ nextSource(r, b, q.key) = ghost("served", value)
              /\ MessageOK(q, items[r][q.key], source[r][q.key])
              /\ PrefixOf(items[r][q.key], value) /\ q.offset <= Len(value)
<1>0. /\ StoreTypeOK
      /\ \A a \in Stores, h \in Keys : source[a][h] # Tainted => TransferOK(a, h)
  BY DEF IInv
<1>1. PICK p : p = <<r, b>>
  OBVIOUS
<1>2. p \in Pair /\ channel \in [Pair -> Seq(Message)] /\ channel[p] # << >>
  BY <1>0, <1>1 DEF StoreTypeOK, Pair
<1>3. q \in Message /\ 1 \in DOMAIN channel[p]
  BY <1>1, <1>2, Popped
<1>4. PICK k : k = q.key
  OBVIOUS
<1>5. k \in Keys /\ q.offset \in Nat
  BY <1>3, <1>4, Shapes
<1>6. value \in Seq(Byte)
  <2>1. items[b][k] \in ItemType \union {Absent} /\ << >> \in Seq(Byte)
    BY <1>0, <1>5 DEF StoreTypeOK
  <2> QED
    BY <1>4, <2>1, Shapes DEF hasKey
<1>7. Concerns(r, k, p, 1)
  BY <1>1, <1>3, <1>4 DEF Concerns
<1> DEFINE served == IF hasKey(b, k) /\ items[b][k].ready THEN ghost("served", items[b][k].value)
                     ELSE Tainted
           s == source[r][k]
<1>8. served = Tainted \/ served = ghost("served", value)
  BY <1>4
<1>9. nextSource(r, b, k) = CASE s = Unknown -> served [] s = served -> served [] OTHER -> Tainted
  BY DEF nextSource
<1> HIDE DEF served
<1>10. nextSource(r, b, k) \in {served, Tainted}
  BY <1>9
<1>11. nextSource(r, b, k) \in Source
  BY <1>6, <1>8, <1>10, Ghosts
<1>12. ASSUME nextSource(r, b, k) # Tainted
       PROVE  /\ source[r][k] # Tainted
              /\ nextSource(r, b, k) = ghost("served", value)
              /\ MessageOK(q, items[r][k], source[r][k])
              /\ PrefixOf(items[r][k], value) /\ q.offset <= Len(value)
  <2>1. nextSource(r, b, k) = ghost("served", value) /\ served = ghost("served", value)
    BY <1>8, <1>10, <1>12
  <2>2. s = Unknown \/ s = ghost("served", value)
    BY <1>9, <1>12, <2>1
  <2>3. s # Tainted
    BY <2>2, Ghosts
  <2>4. TransferOK(r, k)
    BY <1>0, <1>5, <2>3
  <2>5. MessageOK(q, items[r][k], s)
    BY <1>1, <1>2, <1>3, <1>7, <2>4 DEF TransferOK
  <2>6. ItemOK(items[r][k], s)
    BY <2>4 DEF TransferOK
  <2>7. PrefixOf(items[r][k], value)
    <3>1. CASE s = Unknown
      BY <2>6, <3>1 DEF ItemOK, PrefixOf
    <3>2. CASE s = ghost("served", value)
      <4>1. s.is = "served" /\ s.value = value
        BY <3>2, Ghosts
      <4> QED
        BY <2>5, <2>6, <4>1 DEF ItemOK, MessageOK
    <3> QED
      BY <2>2, <3>1, <3>2
  <2>8. q.offset = items[r][k].downloaded
    BY <2>5 DEF MessageOK
  <2>9. q.offset <= Len(value)
    <3>1. Len(value) \in Nat
      BY <1>6, LenProperties
    <3>2. items[r][k].downloaded = 0 \/ items[r][k].downloaded <= Len(value)
      BY <2>7, Zenon DEF PrefixOf
    <3> QED
      BY <2>8, <3>1, <3>2
  <2> QED
    BY <2>1, <2>3, <2>5, <2>7, <2>9
<1> QED
  BY <1>4, <1>6, <1>11, <1>12

\* m is the answer with the part of the value from o on.
Answer(m, value, key, o, n, count, bytes) ==
  /\ n = Len(value)
  /\ count = IF value = << >> THEN 0 ELSE partLength(n, o)
  /\ ~ (count < 0)
  /\ bytes = SubSeq(value, o + 1, o + count)
  /\ m = [reply |-> TRUE, key |-> key, offset |-> o, length |-> n, bytes |-> bytes]

\* Such an answer has its bytes, and they are those of the value.
AnswerOK(m, value, key, o, n) ==
  /\ m \in Message /\ m.reply = TRUE /\ m.key = key /\ m.offset = o
  /\ m.length = n /\ WellFormed(m)
  /\ o <= n => \A j \in 1 .. partLength(n, o) : m.bytes[j] = value[o + j]

\* The owner answers.
LEMMA ReplyMade ==
  ASSUME NEW value \in Seq(Byte), NEW key \in Keys, NEW o \in Nat, NEW n, NEW count, NEW bytes,
         NEW m, Answer(m, value, key, o, n, count, bytes)
  PROVE  AnswerOK(m, value, key, o, n)
<1>1. SUFFICES
        ASSUME n = Len(value),
               count = IF value = << >> THEN 0 ELSE partLength(n, o),
               ~ (count < 0),
               bytes = SubSeq(value, o + 1, o + count),
               m = [reply |-> TRUE, key |-> key, offset |-> o, length |-> n, bytes |-> bytes]
        PROVE  /\ m \in Message /\ m.reply = TRUE /\ m.key = key /\ m.offset = o
               /\ m.length = n /\ WellFormed(m)
               /\ o <= n => \A j \in 1 .. partLength(n, o) : m.bytes[j] = value[o + j]
  BY DEF Answer, AnswerOK
<1>2. n \in Nat
  BY <1>1, LenProperties
<1>3. /\ partLength(n, o) \in Int /\ o + partLength(n, o) <= n
      /\ o <= n => partLength(n, o) \in Nat
      /\ partLength(n, o) >= 0 => o <= n
  BY <1>2, PartLength
<1>4. ASSUME bytes \in Seq(Byte), partLength(n, o) >= 0 => Len(bytes) = partLength(n, o)
      PROVE  /\ m \in Message /\ m.reply = TRUE /\ m.key = key /\ m.offset = o
             /\ m.length = n /\ m.bytes = bytes /\ WellFormed(m)
  <2>1. m = [reply |-> TRUE, key |-> key, offset |-> o, length |-> n, bytes |-> bytes]
    BY <1>1
  <2>2. /\ m \in Message /\ m.reply = TRUE /\ m.key = key /\ m.offset = o /\ m.length = n
        /\ m.bytes = bytes
    <3>1. bytes \in Seq(Byte)
      BY <1>4
    <3>2. /\ m.reply = TRUE /\ m.key = key /\ m.offset = o /\ m.length = n /\ m.bytes = bytes
      BY <2>1
    <3>3. m \in PartReply
      BY <1>2, <2>1, <3>1 DEF PartReply
    <3> QED
      BY <3>2, <3>3 DEF Message
  <2> QED
    BY <1>4, <2>2 DEF WellFormed
<1>5. CASE value # << >>
  <2>1. count \in Nat /\ o + count <= n /\ count = partLength(n, o) /\ o <= n
    <3>1. count = partLength(n, o) /\ ~ (count < 0)
      BY <1>1, <1>5
    <3> QED
      BY <1>2, <1>3, <3>1
  <2>2. ASSUME NEW i \in o + 1 .. o + count PROVE value[i] \in Byte
    <3>1. i \in 1 .. n
      BY <1>2, <2>1
    <3> QED
      BY <1>1, <3>1
  <2>3. PICK x, y : x = o + 1 /\ y = o + count
    OBVIOUS
  <2>4. x \in Int /\ y \in Int /\ \A i \in x .. y : value[i] \in Byte
    BY <2>1, <2>2, <2>3
  <2>5. /\ SubSeq(value, x, y) \in Seq(Byte)
        /\ Len(SubSeq(value, x, y)) = IF x <= y THEN y - x + 1 ELSE 0
        /\ \A i \in 1 .. y - x + 1 : SubSeq(value, x, y)[i] = value[x + i - 1]
    BY <2>4, SubSeqProperties
  <2>6. bytes = SubSeq(value, x, y)
    BY <1>1, <2>3
  <2>7. y - x + 1 = count /\ (x <= y <=> count >= 1)
    BY <2>1, <2>3
  <2>8. bytes \in Seq(Byte) /\ Len(bytes) = count
    BY <2>1, <2>5, <2>6, <2>7
  <2>9. ASSUME NEW j \in 1 .. count PROVE bytes[j] = value[o + j]
    <3>1. x + j - 1 = o + j
      BY <2>3
    <3> QED
      BY <2>5, <2>6, <2>7, <3>1
  <2>10. /\ m \in Message /\ m.reply = TRUE /\ m.key = key /\ m.offset = o
         /\ m.length = n /\ m.bytes = bytes /\ WellFormed(m)
    BY <1>4, <2>1, <2>8
  <2> QED
    BY <2>1, <2>9, <2>10
<1>6. CASE value = << >>
  <2>1. n = 0 /\ count = 0
    BY <1>1, <1>6
  <2>2. o + 1 \in Int /\ o + count \in Int /\ o + count < o + 1
    BY <2>1
  <2>3. bytes = << >>
    BY <1>1, <2>2, SubSeqEmpty
  <2>4. bytes \in Seq(Byte) /\ Len(bytes) = 0
    BY <2>3
  <2>5. partLength(n, o) >= 0 => partLength(n, o) = 0
    BY <1>3, <2>1
  <2>6. /\ m \in Message /\ m.reply = TRUE /\ m.key = key /\ m.offset = o
        /\ m.length = n /\ m.bytes = bytes /\ WellFormed(m)
    BY <1>4, <2>4, <2>5
  <2>7. o <= n => \A j \in 1 .. partLength(n, o) : m.bytes[j] = value[o + j]
    BY <1>3, <2>5
  <2> QED
    BY <2>6, <2>7
<1> QED
  BY <1>5, <1>6

\* The owner serves a request.
LEMMA ServeIInv ==
  ASSUME IInv, NEW r \in Stores, NEW b \in Stores \ {r}, Serve(r, b)
  PROVE  IInv'
<1>0. /\ StoreTypeOK /\ PartsWellFormed
      /\ \A a \in Stores, h \in Keys : source[a][h] # Tainted => TransferOK(a, h)
  BY DEF IInv
<1>a. PICK p1, p2 : p1 = <<r, b>> /\ p2 = <<b, r>>
  OBVIOUS
<1>b. PICK q : q = Head(channel[p1])
  OBVIOUS
<1>c. PICK value, k, o :
        /\ value = (IF hasKey(b, q.key) THEN items[b][q.key].value ELSE << >>)
        /\ k = q.key /\ o = q.offset
  OBVIOUS
<1>d. PICK count, n : /\ n = Len(value)
                      /\ count = IF value = << >> THEN 0 ELSE partLength(n, o)
  OBVIOUS
<1>e. PICK bytes, ns : bytes = SubSeq(value, o + 1, o + count) /\ ns = nextSource(r, b, k)
  OBVIOUS
<1>f. PICK m : m = [reply |-> TRUE, key |-> k, offset |-> o, length |-> n, bytes |-> bytes]
  OBVIOUS
<1>1. /\ ~crashed /\ channel[p1] # << >> /\ ~q.reply /\ crashed' = (count < 0)
      /\ source' = [source EXCEPT ![r][k] = ns]
      /\ UNCHANGED <<items, requests, inserts, removals, pulls>>
  BY <1>a, <1>b, <1>c, <1>d, <1>e DEF Serve
<1>2. channel' = IF count < 0 THEN channel
                 ELSE [channel EXCEPT ![p1] = Tail(@), ![p2] = Append(@, m)]
  BY <1>a, <1>b, <1>c, <1>d, <1>e, <1>f DEF Serve
<1>3. p1 \in Pair /\ p2 \in Pair /\ p1 # p2 /\ channel \in [Pair -> Seq(Message)]
  BY <1>0, <1>a DEF StoreTypeOK, Pair
<1> DEFINE l1 == Len(channel[p1])
           l2 == Len(channel[p2])
<1>4. /\ q = channel[p1][1] /\ q \in Message /\ 1 \in DOMAIN channel[p1]
      /\ l1 \in Nat /\ l1 >= 1 /\ DOMAIN channel[p1] = 1 .. l1
      /\ Tail(channel[p1]) \in Seq(Message) /\ DOMAIN Tail(channel[p1]) = 1 .. l1 - 1
      /\ \A i \in 1 .. l1 - 1 : Tail(channel[p1])[i] = channel[p1][i + 1]
  BY <1>1, <1>3, <1>b, Popped
<1>5. k \in Keys /\ o \in Nat
  BY <1>4, <1>c, Shapes
<1>6. /\ value \in Seq(Byte) /\ ns \in Source
      /\ ns # Tainted =>
           /\ source[r][k] # Tainted /\ ns = ghost("served", value)
           /\ MessageOK(q, items[r][k], source[r][k])
           /\ PrefixOf(items[r][k], value) /\ o <= Len(value)
  <2>1. channel[<<r, b>>] # << >> /\ q = channel[<<r, b>>][1] /\ ~q.reply
    BY <1>1, <1>4, <1>a
  <2>2. value = IF hasKey(b, q.key) THEN items[b][q.key].value ELSE << >>
    BY <1>c
  <2>3. ns = nextSource(r, b, q.key) /\ k = q.key /\ o = q.offset
    BY <1>c, <1>e
  <2> QED
    BY <2>1, <2>2, <2>3, ServedSource
<1>7. /\ source' \in [Stores -> [Keys -> Source]]
      /\ \A a \in Stores, h \in Keys :
           source'[a][h] = IF a = r /\ h = k THEN ns ELSE source[a][h]
  <2>1. source \in [Stores -> [Keys -> Source]] /\ ns \in Source /\ k \in Keys
    BY <1>0, <1>5, <1>6 DEF StoreTypeOK
  <2>2. source' = [source EXCEPT ![r][k] = ns]
    BY <1>1
  <2> QED
    BY <2>1, <2>2, OneItem
<1>8. n \in Nat
  BY <1>6, <1>d, LenProperties
<1>9. crashed' \in BOOLEAN
  <2>1. (count < 0) \in BOOLEAN /\ crashed' = (count < 0)
    BY <1>1
  <2> QED
    BY <2>1, Zenon
<1>10. CASE count < 0
  <2>1. UNCHANGED channel
    BY <1>2, <1>10
  <2>2. StoreTypeOK'
    BY <1>0, <1>1, <1>7, <1>9, <2>1 DEF StoreTypeOK
  <2>3. PartsWellFormed'
    BY <1>0, <2>1 DEF PartsWellFormed, WellFormed, partLength
  <2>4. ns = Tainted
    <3> SUFFICES ASSUME ns # Tainted PROVE FALSE
      OBVIOUS
    <3>1. o <= n
      BY <1>6, <1>d
    <3>2. partLength(n, o) \in Nat
      BY <1>5, <1>8, <3>1, PartLength
    <3> QED
      BY <1>10, <1>d, <3>2
  <2>5. source'[r][k] = Tainted'
    BY <1>5, <1>7, <2>4 DEF Tainted, ghost
  <2>6. ASSUME NEW a \in Stores, NEW h \in Keys, source'[a][h] # Tainted' PROVE TransferOK(a, h)'
    <3>1. ~ (a = r /\ h = k)
      BY <2>5, <2>6
    <3>2. source'[a][h] = source[a][h] /\ items'[a][h] = items[a][h]
      BY <1>1, <1>7, <3>1
    <3>3. source[a][h] # Tainted
      BY <2>6, <3>2 DEF Tainted, ghost
    <3> QED
      BY <1>0, <2>1, <3>2, <3>3, StillTransfer
  <2> QED
    BY <1>5, <2>2, <2>3, <2>5, <2>6 DEF IInv
<1>11. CASE ~ (count < 0)
  <2>1. /\ m \in Message /\ m.reply = TRUE /\ m.key = k /\ m.offset = o
        /\ m.length = n /\ WellFormed(m)
        /\ o <= n => \A j \in 1 .. partLength(n, o) : m.bytes[j] = value[o + j]
    <3>1. Answer(m, value, k, o, n, count, bytes)
      BY <1>11, <1>d, <1>e, <1>f DEF Answer
    <3>2. value \in Seq(Byte) /\ k \in Keys /\ o \in Nat
      BY <1>5, <1>6
    <3>3. AnswerOK(m, value, k, o, n)
      BY <3>1, <3>2, ReplyMade
    <3> QED
      BY <3>3 DEF AnswerOK
  <2>2. /\ channel' \in [Pair -> Seq(Message)]
        /\ \A p \in Pair : p # p1 /\ p # p2 => channel'[p] = channel[p]
        /\ channel'[p1] = Tail(channel[p1]) /\ channel'[p2] = Append(channel[p2], m)
    <3>1. channel' = [channel EXCEPT ![p1] = Tail(@), ![p2] = Append(@, m)]
      BY <1>2, <1>11
    <3>2. PICK c : c = [channel EXCEPT ![p1] = Tail(channel[p1])]
      OBVIOUS
    <3>3. /\ c \in [Pair -> Seq(Message)] /\ c[p1] = Tail(channel[p1]) /\ c[p2] = channel[p2]
          /\ \A p \in Pair : p # p1 => c[p] = channel[p]
      BY <1>3, <1>4, <3>2
    <3>4. channel' = [c EXCEPT ![p2] = Append(c[p2], m)]
      BY <1>3, <3>1, <3>2, <3>3
    <3>5. Append(c[p2], m) \in Seq(Message)
      BY <1>3, <2>1, <3>3
    <3> QED
      BY <1>3, <3>3, <3>4, <3>5
  <2>3. /\ DOMAIN channel[p2] = 1 .. l2 /\ DOMAIN channel'[p2] = 1 .. l2 + 1 /\ l2 \in Nat
        /\ channel'[p2][l2 + 1] = m
        /\ \A i \in 1 .. l2 : channel'[p2][i] = channel[p2][i]
    <3>1. channel[p2] \in Seq(Message)
      BY <1>3
    <3> QED
      BY <2>1, <2>2, <3>1
  <2>4. PICK e : e = l2 + 1
    OBVIOUS
  <2> DEFINE back == [p \in Pair |-> [i \in Nat |-> IF p = p1 THEN i + 1 ELSE i]]
  <2>5. ASSUME NEW p \in Pair, NEW i \in DOMAIN channel'[p]
        PROVE  i \in Nat /\ back[p][i] = IF p = p1 THEN i + 1 ELSE i
    <3>1. channel'[p] \in Seq(Message)
      BY <2>2
    <3>2. i \in Nat
      BY <3>1
    <3> QED
      BY <3>2
  <2>6. ASSUME NEW p \in Pair, NEW i \in DOMAIN channel'[p], ~ (p = p2 /\ i = e)
        PROVE  /\ back[p][i] \in DOMAIN channel[p] /\ channel'[p][i] = channel[p][back[p][i]]
               /\ ~ (p = p1 /\ back[p][i] = 1)
    <3>1. CASE p = p1
      <4>1. back[p][i] = i + 1 /\ i \in 1 .. l1 - 1
        BY <1>4, <2>2, <2>5, <3>1
      <4>2. i + 1 \in 1 .. l1 /\ i + 1 # 1
        <5>1. l1 \in Nat
          BY <1>4
        <5> HIDE DEF l1
        <5> QED
          BY <4>1, <5>1
      <4> QED
        BY <1>4, <2>2, <3>1, <4>1, <4>2
    <3>2. CASE p = p2
      <4>1. back[p][i] = i /\ i \in 1 .. l2
        BY <1>3, <2>3, <2>4, <2>5, <2>6, <3>2
      <4> QED
        BY <1>3, <2>3, <3>2, <4>1
    <3>3. CASE p # p1 /\ p # p2
      BY <2>2, <2>5, <3>3
    <3> QED
      BY <3>1, <3>2, <3>3
  <2>7. \A p \in Pair : \A i, j \in DOMAIN channel'[p] : back[p][i] = back[p][j] => i = j
    BY <2>5
  <2> HIDE DEF back, l1, l2
  <2>8. channel'[p2][e] = m
    BY <2>3, <2>4
  <2>9. StoreTypeOK'
    BY <1>0, <1>1, <1>7, <1>9, <2>2 DEF StoreTypeOK
  <2>10. PartsWellFormed'
    <3> SUFFICES ASSUME NEW p \in Pair, NEW i \in DOMAIN channel'[p] PROVE WellFormed(channel[p][i])'
      BY DEF PartsWellFormed
    <3>1. PICK x : x = channel'[p][i]
      OBVIOUS
    <3>2. WellFormed(x)
      BY <1>0, <2>1, <2>6, <2>8, <3>1 DEF PartsWellFormed
    <3> QED
      BY <3>1, <3>2 DEF WellFormed, partLength
  <2>11. ASSUME NEW a \in Stores, NEW h \in Keys, source'[a][h] # Tainted' PROVE TransferOK(a, h)'
    <3>1. CASE a = r /\ h = k
      <4>1. source'[a][h] = ns /\ ns # Tainted
        BY <1>7, <2>11, <3>1 DEF Tainted, ghost
      <4>2. /\ ns.is = "served" /\ ns.value = value /\ ns # Local
        BY <1>6, <4>1, Ghosts
      <4>3. /\ TransferOK(r, k) /\ MessageOK(q, items[r][k], source[r][k])
            /\ PrefixOf(items[r][k], value) /\ o <= n
        BY <1>0, <1>5, <1>6, <1>d, <4>1
      <4>4. PICK item : item = items[r][k]
        OBVIOUS
      <4>5. ~item.absent /\ ~item.ready /\ item.sent /\ o = item.downloaded /\ PrefixOf(item, value)
        BY <1>c, <4>3, <4>4 DEF MessageOK
      <4>6. Concerns(r, k, p1, 1)
        BY <1>1, <1>4, <1>a, <1>c DEF Concerns
      <4>7. ASSUME NEW p \in Pair, NEW i \in DOMAIN channel'[p], Concerns(a, h, p, i)'
            PROVE  p = p2 /\ i = e
        <5> SUFFICES ASSUME ~ (p = p2 /\ i = e) PROVE FALSE
          OBVIOUS
        <5>1. /\ back[p][i] \in DOMAIN channel[p] /\ channel'[p][i] = channel[p][back[p][i]]
              /\ ~ (p = p1 /\ back[p][i] = 1)
          BY <2>6
        <5>2. Concerns(r, k, p, back[p][i])
          BY <3>1, <4>7, <5>1 DEF Concerns
        <5> QED
          BY <1>3, <1>4, <4>3, <4>6, <5>1, <5>2 DEF TransferOK, OneUnderWay
      <4>8. OneUnderWay(a, h)'
        BY <4>7 DEF OneUnderWay
      <4>9. ItemOK(item, ns)
        BY <4>2, <4>5, Ghosts DEF ItemOK
      <4>10. MessageOK(m, item, ns)
        BY <1>6, <1>d, <2>1, <4>2, <4>3, <4>5 DEF MessageOK
      <4>11. items'[a][h] = item /\ source'[a][h] = ns
        BY <1>1, <3>1, <4>1, <4>4
      <4>12. ItemOK(items[a][h], source[a][h])'
        BY <4>9, <4>11 DEF ItemOK, PrefixOf, Local, Unknown, ghost
      <4>13. ASSUME NEW p \in Pair, NEW i \in DOMAIN channel'[p], Concerns(a, h, p, i)'
             PROVE  MessageOK(channel[p][i], items[a][h], source[a][h])'
        <5>1. channel'[p][i] = m
          BY <2>8, <4>7, <4>13
        <5> QED
          BY <4>10, <4>11, <5>1 DEF MessageOK, partLength, Local, ghost
      <4> QED
        BY <4>8, <4>12, <4>13 DEF TransferOK
    <3>2. CASE ~ (a = r /\ h = k)
      <4>1. source'[a][h] = source[a][h] /\ items'[a][h] = items[a][h]
        BY <1>1, <1>7, <3>2
      <4>2. TransferOK(a, h)
        <5>1. source[a][h] # Tainted
          BY <2>11, <4>1 DEF Tainted, ghost
        <5> QED
          BY <1>0, <5>1
      <4>3. ~Concerns(a, h, p2, e)'
        BY <1>a, <2>1, <2>8, <3>2 DEF Concerns
      <4>4. ASSUME NEW p \in Pair, NEW i \in DOMAIN channel'[p], Concerns(a, h, p, i)'
            PROVE  back[p][i] \in DOMAIN channel[p] /\ channel'[p][i] = channel[p][back[p][i]]
        BY <2>6, <4>3, <4>4
      <4>5. PICK f : f = back
        OBVIOUS
      <4> QED
        BY <2>7, <4>1, <4>2, <4>4, <4>5, SameTransfer
    <3> QED
      BY <3>1, <3>2
  <2>12. ~crashed'
    BY <1>1, <1>11
  <2> QED
    BY <2>9, <2>10, <2>11, <2>12 DEF IInv
<1> QED
  BY <1>10, <1>11

------------------------------------------------------------------------------
\* A function on 1 .. n with bytes as values is a value of length n.
LEMMA FunctionIsValue ==
  ASSUME NEW n \in Nat, NEW f \in [1 .. n -> Byte]
  PROVE  f \in Seq(Byte) /\ Len(f) = n /\ DOMAIN f = 1 .. n
BY SeqDef, LenProperties

\* The first part makes room for the value.
LEMMA AllocatedItem ==
  ASSUME NEW item \in ItemType, NEW m \in Message, m.reply, NEW new, new = allocated(item, m)
  PROVE  /\ new \in ItemType /\ new.ready = item.ready /\ new.downloaded = item.downloaded
         /\ IF m.offset = 0 /\ m.length # 0 THEN Len(new.value) = m.length
                                            ELSE new.value = item.value
<1>1. m.length \in Nat /\ m.offset \in Nat
  BY Shapes
<1>2. CASE m.offset = 0 /\ m.length # 0
  <2>1. PICK v : v = [i \in 1 .. m.length |-> Garbage]
    OBVIOUS
  <2>2. v \in Seq(Byte) /\ Len(v) = m.length
    <3>0. Garbage \in Byte
      BY DEF Byte
    <3>1. v \in [1 .. m.length -> Byte]
      BY <2>1, <3>0
    <3> QED
      BY <1>1, <3>1, FunctionIsValue
  <2>3. new = [item EXCEPT !.value = v]
    BY <1>2, <2>1 DEF allocated
  <2>4. new \in ItemType /\ new.ready = item.ready /\ new.downloaded = item.downloaded /\ new.value = v
    BY <2>2, <2>3 DEF ItemType
  <2> QED
    BY <1>2, <2>2, <2>4
<1>3. CASE ~ (m.offset = 0 /\ m.length # 0)
  BY <1>3 DEF allocated
<1> QED
  BY <1>2, <1>3

\* A part that fits is written at its place, and nowhere else.
LEMMA WrittenItem ==
  ASSUME NEW item \in ItemType, NEW m \in Message, m.reply, WellFormed(m), ~outOfBounds(item, m),
         NEW o, o = m.offset, NEW n, n = partLength(m.length, m.offset), NEW new, new = written(item, m)
  PROVE  /\ new \in ItemType /\ new.ready = item.ready /\ new.downloaded = o + n
         /\ o \in Nat /\ n \in Nat /\ o + n <= Len(item.value)
         /\ Len(new.value) = Len(item.value)
         /\ \A i \in 1 .. Len(item.value) :
              new.value[i] = IF i \in o + 1 .. o + n THEN m.bytes[i - o] ELSE item.value[i]
<1>1. /\ m.length \in Nat /\ o \in Nat /\ m.bytes \in Seq(Byte) /\ item.value \in Seq(Byte)
  BY Shapes
<1>2. PICK l, v : l = Len(item.value) /\ v = item.value
  OBVIOUS
<1>3. l \in Nat /\ DOMAIN v = 1 .. l /\ v \in Seq(Byte)
  BY <1>1, <1>2, LenProperties
<1>4. n \in Nat /\ o + n <= l
  <2>1. n \in Int
    BY <1>1, PartLength
  <2> QED
    BY <1>1, <1>2, <1>3, <2>1 DEF outOfBounds
<1>5. Len(m.bytes) = n
  BY <1>4 DEF WellFormed
<1>6. PICK w : w = [i \in 1 .. l |-> IF i \in o + 1 .. o + n THEN m.bytes[i - o] ELSE v[i]]
  OBVIOUS
<1>7. w \in Seq(Byte) /\ Len(w) = l
  <2>1. ASSUME NEW i \in 1 .. l PROVE w[i] \in Byte
    <3>1. CASE i \in o + 1 .. o + n
      <4>1. i - o \in 1 .. n
        BY <1>1, <1>4, <3>1
      <4>2. i - o \in 1 .. Len(m.bytes)
        BY <1>5, <4>1
      <4>3. m.bytes[i - o] \in Byte
        BY <1>1, <4>2, ElementOfSeq
      <4> QED
        BY <1>6, <3>1, <4>3
    <3>2. CASE i \notin o + 1 .. o + n
      <4>1. v[i] \in Byte
        BY <1>2, <1>3, ElementOfSeq
      <4> QED
        BY <1>6, <3>2, <4>1
    <3> QED
      BY <3>1, <3>2
  <2>2. w \in [1 .. l -> Byte]
    BY <1>6, <2>1
  <2> QED
    BY <1>3, <2>2, FunctionIsValue
<1>8. PICK d : d = o + n
  OBVIOUS
<1>9. new = [item EXCEPT !.value = w, !.downloaded = d]
  BY <1>2, <1>3, <1>6, <1>8 DEF written
<1>10. d \in Nat
  BY <1>1, <1>4, <1>8
<1>11. new \in ItemType /\ new.ready = item.ready /\ new.downloaded = d /\ new.value = w
  BY <1>7, <1>9, <1>10 DEF ItemType
<1>12. \A i \in 1 .. l : w[i] = IF i \in o + 1 .. o + n THEN m.bytes[i - o] ELSE v[i]
  BY <1>6
<1> QED
  BY <1>1, <1>2, <1>4, <1>7, <1>8, <1>11, <1>12

\* Receiving the next part of a transfer that nobody meddled with: it is within
\* bounds, and a complete item is the value of the owner.
LEMMA PartReceived ==
  ASSUME NEW it \in ItemType, NEW s \in Source, NEW m \in Message, m.reply, WellFormed(m),
         MessageOK(m, it, s), ItemOK(it, s), NEW a, a = allocated(it, m)
  PROVE  /\ a.value = << >> => ItemOK(receiveMessage(a), s)
         /\ a.value # << >> => ~outOfBounds(a, m) /\ ItemOK(receiveMessage(written(a, m)), s)
<1>1. /\ s.is = "served" /\ m.length = Len(s.value) /\ m.offset = it.downloaded /\ ~it.ready
      /\ \A j \in 1 .. partLength(m.length, m.offset) : m.bytes[j] = s.value[m.offset + j]
  BY DEF MessageOK
<1>2. s # Local /\ s # Unknown /\ s # Tainted
  BY <1>1, Ghosts
<1>3. s.value \in Seq(Byte)
  BY <1>2 DEF Source
<1>4. PICK v, l, o, n : v = s.value /\ l = Len(v) /\ o = m.offset /\ n = partLength(l, o)
  OBVIOUS
<1>5. l \in Nat /\ v \in Seq(Byte) /\ o \in Nat /\ l = m.length /\ DOMAIN v = 1 .. l
  BY <1>1, <1>3, <1>4, Shapes, LenProperties
<1>6. PrefixOf(it, v) /\ ~it.ready
  BY <1>1, <1>4 DEF ItemOK
<1>7. /\ a \in ItemType /\ a.ready = it.ready /\ a.downloaded = it.downloaded
      /\ IF m.offset = 0 /\ m.length # 0 THEN Len(a.value) = m.length ELSE a.value = it.value
  BY AllocatedItem
<1>8. a.value \in Seq(Byte) /\ it.value \in Seq(Byte) /\ it.downloaded \in Nat /\ a.downloaded = o /\ ~a.ready
  BY <1>1, <1>4, <1>6, <1>7, Shapes
<1>9. o <= l /\ Len(a.value) = l /\ \A i \in 1 .. o : a.value[i] = v[i]
  <2>1. o <= l
    BY <1>1, <1>4, <1>5, <1>6 DEF PrefixOf
  <2>2. CASE o = 0 /\ l # 0
    BY <1>4, <1>5, <1>7, <2>1, <2>2
  <2>3. CASE o = 0 /\ l = 0
    <3>1. a.value = it.value
      BY <1>4, <1>5, <1>7, <2>3
    <3>2. Len(it.value) = 0
      BY <1>4, <1>6, <2>3 DEF PrefixOf
    <3> QED
      BY <2>1, <2>3, <3>1, <3>2
  <2>4. CASE o # 0
    <3>1. a.value = it.value /\ it.downloaded = o
      BY <1>1, <1>4, <1>7, <2>4
    <3>2. Len(it.value) = l /\ \A i \in 1 .. o : it.value[i] = v[i]
      BY <1>4, <1>6, <2>4, <3>1 DEF PrefixOf
    <3> QED
      BY <2>1, <3>1, <3>2
  <2> QED
    BY <2>2, <2>3, <2>4
<1>10. n \in Nat /\ o + n <= l
  BY <1>4, <1>5, <1>9, PartLength
<1>11. ASSUME NEW b \in ItemType, ~b.ready, Len(b.value) = l, b.downloaded <= l,
              \A i \in 1 .. b.downloaded : b.value[i] = v[i]
       PROVE  ItemOK(receiveMessage(b), s)
  <2>1. b.value \in Seq(Byte) /\ b.downloaded \in Nat
    BY Shapes
  <2>2. PICK c : c = receiveMessage(b)
    OBVIOUS
  <2>3. /\ c \in ItemType /\ c.value = b.value /\ c.downloaded = b.downloaded
        /\ c.ready <=> b.ready \/ b.downloaded = Len(b.value)
    BY <2>2, ItemOperations
  <2>4. ~c.absent
    BY <2>3, Shapes
  <2>5. CASE c.ready
    <3>1. b.downloaded = l
      BY <1>11, <2>3, <2>5
    <3>2. \A i \in 1 .. l : b.value[i] = v[i]
      BY <1>11, <3>1
    <3>3. b.value = v
      BY <1>4, <1>5, <1>11, <2>1, <3>2, SeqEqual
    <3> QED
      BY <1>2, <1>4, <2>2, <2>3, <2>4, <2>5, <3>3 DEF ItemOK
  <2>6. CASE ~c.ready
    <3>1. PrefixOf(c, v)
      BY <1>4, <1>11, <2>3 DEF PrefixOf
    <3> QED
      BY <1>2, <1>4, <2>2, <2>4, <2>6, <3>1 DEF ItemOK
  <2> QED
    BY <2>5, <2>6
<1>12. ItemOK(receiveMessage(a), s)
  BY <1>7, <1>8, <1>9, <1>11
<1>13. ~outOfBounds(a, m)
  <2>1. partLength(m.length, m.offset) = n /\ Len(a.value) = l /\ m.offset = o
    BY <1>4, <1>5, <1>9
  <2> QED
    BY <1>5, <1>10, <2>1 DEF outOfBounds
<1>14. ItemOK(receiveMessage(written(a, m)), s)
  <2>1. PICK b : b = written(a, m)
    OBVIOUS
  <2>2. n = partLength(m.length, m.offset)
    BY <1>4, <1>5
  <2>3. /\ b \in ItemType /\ b.ready = a.ready /\ b.downloaded = o + n
        /\ Len(b.value) = Len(a.value)
        /\ \A i \in 1 .. Len(a.value) :
             b.value[i] = IF i \in o + 1 .. o + n THEN m.bytes[i - o] ELSE a.value[i]
    BY <1>4, <1>7, <1>13, <2>1, <2>2, WrittenItem
  <2>4. ASSUME NEW i \in 1 .. o + n PROVE b.value[i] = v[i]
    <3>1. i \in 1 .. l
      BY <1>5, <1>10
    <3>2. b.value[i] = IF i \in o + 1 .. o + n THEN m.bytes[i - o] ELSE a.value[i]
      BY <1>9, <2>3, <3>1
    <3>3. CASE i \in o + 1 .. o + n
      <4>1. i - o \in 1 .. n /\ o + (i - o) = i
        BY <1>5, <1>10, <3>3
      <4>2. m.bytes[i - o] = v[o + (i - o)]
        BY <1>1, <1>4, <2>2, <4>1
      <4> QED
        BY <3>2, <3>3, <4>1, <4>2
    <3>4. CASE i \notin o + 1 .. o + n
      <4>1. i \in 1 .. o
        BY <1>5, <1>10, <3>4
      <4> QED
        BY <1>9, <3>2, <3>4, <4>1
    <3> QED
      BY <3>3, <3>4
  <2>5. ~b.ready /\ Len(b.value) = l /\ b.downloaded <= l /\ \A i \in 1 .. b.downloaded : b.value[i] = v[i]
    BY <1>8, <1>9, <1>10, <2>3, <2>4
  <2> QED
    BY <1>11, <2>1, <2>3, <2>5
<1> QED
  BY <1>12, <1>13, <1>14

\* A part arrives.
LEMMA ReceivePartIInv ==
  ASSUME IInv, NEW b \in Stores, NEW r \in Stores, ReceivePart(b, r)
  PROVE  IInv'
<1>0. /\ StoreTypeOK /\ PartsWellFormed
      /\ \A a \in Stores, h \in Keys : source[a][h] # Tainted => TransferOK(a, h)
  BY DEF IInv
<1>a. PICK p1 : p1 = <<b, r>>
  OBVIOUS
<1>b. PICK m, l1 : m = Head(channel[p1]) /\ l1 = Len(channel[p1])
  OBVIOUS
<1>c. PICK k, it, s : k = m.key /\ it = items[r][k] /\ s = source[r][k]
  OBVIOUS
<1>d. PICK item : item = allocated(it, m)
  OBVIOUS
<1>1. /\ ~crashed /\ channel[p1] # << >> /\ m.reply
      /\ channel' = [channel EXCEPT ![p1] = Tail(@)]
      /\ UNCHANGED <<requests, inserts, removals, pulls, source>>
  BY <1>a, <1>b DEF ReceivePart
<1>2. \/ /\ it.absent /\ crashed' = TRUE /\ UNCHANGED items
      \/ /\ ~it.absent /\ item.value = << >>
         /\ items' = [items EXCEPT ![r][k] = receiveMessage(item)] /\ UNCHANGED crashed
      \/ /\ ~it.absent /\ item.value # << >> /\ outOfBounds(item, m)
         /\ crashed' = TRUE /\ UNCHANGED items
      \/ /\ ~it.absent /\ item.value # << >> /\ ~outOfBounds(item, m)
         /\ items' = [items EXCEPT ![r][k] = receiveMessage(written(item, m))]
         /\ UNCHANGED crashed
  BY <1>a, <1>b, <1>c, <1>d DEF ReceivePart, hasKey
<1>3. p1 \in Pair /\ channel \in [Pair -> Seq(Message)]
  BY <1>0, <1>a DEF StoreTypeOK, Pair
<1>4. /\ m = channel[p1][1] /\ m \in Message /\ 1 \in DOMAIN channel[p1]
      /\ l1 \in Nat /\ l1 >= 1 /\ DOMAIN channel[p1] = 1 .. l1
      /\ Tail(channel[p1]) \in Seq(Message) /\ DOMAIN Tail(channel[p1]) = 1 .. l1 - 1
      /\ \A i \in 1 .. l1 - 1 : Tail(channel[p1])[i] = channel[p1][i + 1]
  BY <1>1, <1>3, <1>b, Popped
<1>5. k \in Keys /\ s \in Source /\ it \in ItemType \union {Absent}
  BY <1>0, <1>4, <1>c, Shapes DEF StoreTypeOK
<1>6. WellFormed(m)
  BY <1>0, <1>3, <1>4 DEF PartsWellFormed
<1>7. Concerns(r, k, p1, 1)
  BY <1>1, <1>4, <1>a, <1>c DEF Concerns
<1>8. ASSUME s # Tainted
      PROVE  /\ TransferOK(r, k) /\ MessageOK(m, it, s) /\ ItemOK(it, s) /\ ~it.absent
             /\ item.value = << >> => ItemOK(receiveMessage(item), s)
             /\ item.value # << >> => /\ ~outOfBounds(item, m)
                                      /\ ItemOK(receiveMessage(written(item, m)), s)
  <2>1. TransferOK(r, k)
    BY <1>0, <1>5, <1>8, <1>c
  <2>2. MessageOK(m, it, s) /\ ItemOK(it, s)
    BY <1>3, <1>4, <1>7, <1>c, <2>1 DEF TransferOK
  <2>3. ~it.absent
    BY <2>2 DEF MessageOK
  <2>4. it \in ItemType
    BY <1>5, <2>3, Shapes
  <2>5. /\ item.value = << >> => ItemOK(receiveMessage(item), s)
        /\ item.value # << >> => /\ ~outOfBounds(item, m)
                                 /\ ItemOK(receiveMessage(written(item, m)), s)
    BY <1>1, <1>4, <1>5, <1>6, <1>d, <2>2, <2>4, PartReceived
  <2> QED
    BY <2>1, <2>2, <2>3, <2>5
\* The item is replaced, or the rank crashes on a tainted one.
<1>9. \/ crashed' = TRUE /\ UNCHANGED items /\ s = Tainted
      \/ /\ UNCHANGED crashed
         /\ \E new \in ItemType : /\ items' = [items EXCEPT ![r][k] = new]
                                  /\ s # Tainted => ItemOK(new, s)
  <2>1. CASE it.absent \/ (item.value # << >> /\ outOfBounds(item, m))
    BY <1>2, <1>8, <2>1
  <2>2. CASE ~ (it.absent \/ (item.value # << >> /\ outOfBounds(item, m)))
    <3>1. it \in ItemType
      BY <1>5, <2>2, Shapes
    <3>2. item \in ItemType
      BY <1>1, <1>4, <1>d, <3>1, AllocatedItem
    <3>3. CASE item.value = << >>
      <4>1. receiveMessage(item) \in ItemType
        BY <3>2, ItemOperations
      <4> QED
        BY <1>2, <1>8, <2>2, <3>3, <4>1
    <3>4. CASE item.value # << >>
      <4>1. written(item, m) \in ItemType
        BY <1>1, <1>4, <1>6, <2>2, <3>2, <3>4, WrittenItem
      <4>2. receiveMessage(written(item, m)) \in ItemType
        BY <4>1, ItemOperations
      <4> QED
        BY <1>2, <1>8, <2>2, <3>4, <4>2
    <3> QED
      BY <3>3, <3>4
  <2> QED
    BY <2>1, <2>2
<1>10. /\ channel' \in [Pair -> Seq(Message)]
       /\ \A p \in Pair : p # p1 => channel'[p] = channel[p]
       /\ channel'[p1] = Tail(channel[p1])
  BY <1>1, <1>3, <1>4
<1>11. PICK back : back = [p \in Pair |-> [i \in Nat |-> IF p = p1 THEN i + 1 ELSE i]]
  OBVIOUS
<1>12. ASSUME NEW p \in Pair, NEW i \in DOMAIN channel'[p]
       PROVE  i \in Nat /\ back[p][i] = IF p = p1 THEN i + 1 ELSE i
  <2>1. channel'[p] \in Seq(Message)
    BY <1>10
  <2>2. i \in Nat
    BY <2>1
  <2> QED
    BY <1>11, <2>2
<1>13. ASSUME NEW p \in Pair, NEW i \in DOMAIN channel'[p]
       PROVE  /\ back[p][i] \in DOMAIN channel[p] /\ channel'[p][i] = channel[p][back[p][i]]
              /\ ~ (p = p1 /\ back[p][i] = 1)
  <2>1. CASE p = p1
    <3>1. back[p][i] = i + 1 /\ i \in 1 .. l1 - 1
      BY <1>4, <1>10, <1>12, <2>1
    <3>2. i + 1 \in 1 .. l1 /\ i + 1 # 1
      BY <1>4, <3>1
    <3> QED
      BY <1>4, <1>10, <2>1, <3>1, <3>2
  <2>2. CASE p # p1
    BY <1>10, <1>12, <2>2
  <2> QED
    BY <2>1, <2>2
<1>14. \A p \in Pair : \A i, j \in DOMAIN channel'[p] : back[p][i] = back[p][j] => i = j
  BY <1>12
<1>15. PartsWellFormed'
  <2> SUFFICES ASSUME NEW p \in Pair, NEW i \in DOMAIN channel'[p] PROVE WellFormed(channel[p][i])'
    BY DEF PartsWellFormed
  <2>1. PICK x : x = channel'[p][i]
    OBVIOUS
  <2>2. WellFormed(x)
    BY <1>0, <1>13, <2>1 DEF PartsWellFormed
  <2> QED
    BY <2>1, <2>2 DEF WellFormed, partLength
<1>16. source' = source /\ Tainted' = Tainted
  BY <1>1 DEF Tainted, ghost
<1>17. ASSUME NEW a \in Stores, NEW h \in Keys, ~ (a = r /\ h = k),
              items'[a][h] = items[a][h], source'[a][h] # Tainted'
       PROVE  TransferOK(a, h)'
  <2>1. TransferOK(a, h) /\ source'[a][h] = source[a][h]
    BY <1>0, <1>16, <1>17
  <2>2. \A p \in Pair : \A i \in DOMAIN channel'[p] : Concerns(a, h, p, i)' =>
           /\ back[p][i] \in DOMAIN channel[p]
           /\ channel'[p][i] = channel[p][back[p][i]]
    BY <1>13
  <2> QED
    BY <1>14, <1>17, <2>1, <2>2, SameTransfer
<1>18. CASE crashed' = TRUE /\ UNCHANGED items /\ s = Tainted
  <2>1. StoreTypeOK'
    <3>1. crashed' \in BOOLEAN
      BY <1>18, Zenon
    <3> QED
      BY <1>0, <1>1, <1>10, <1>18, <3>1 DEF StoreTypeOK
  <2>2. source'[r][k] = Tainted'
    BY <1>16, <1>18, <1>c
  <2>3. ASSUME NEW a \in Stores, NEW h \in Keys, source'[a][h] # Tainted' PROVE TransferOK(a, h)'
    BY <1>17, <1>18, <2>2, <2>3
  <2> QED
    BY <1>5, <1>15, <2>1, <2>2, <2>3 DEF IInv
<1>19. ASSUME UNCHANGED crashed, NEW new \in ItemType, items' = [items EXCEPT ![r][k] = new],
              s # Tainted => ItemOK(new, s)
       PROVE  IInv'
  <2>1. /\ items' \in [Stores -> [Keys -> ItemType \union {Absent}]]
        /\ \A a \in Stores, h \in Keys : items'[a][h] = IF a = r /\ h = k THEN new ELSE items[a][h]
    <3>1. /\ items \in [Stores -> [Keys -> ItemType \union {Absent}]]
          /\ new \in ItemType \union {Absent} /\ k \in Keys
      BY <1>0, <1>5 DEF StoreTypeOK
    <3> QED
      BY <1>19, <3>1, OneItem
  <2>2. StoreTypeOK'
    BY <1>0, <1>1, <1>10, <1>19, <2>1 DEF StoreTypeOK
  <2>3. ASSUME NEW a \in Stores, NEW h \in Keys, source'[a][h] # Tainted' PROVE TransferOK(a, h)'
    <3>1. CASE a = r /\ h = k
      <4>1. s # Tainted /\ items'[a][h] = new /\ source'[a][h] = s
        BY <1>16, <1>c, <2>1, <2>3, <3>1
      <4>2. TransferOK(r, k) /\ ItemOK(new, s)
        BY <1>8, <1>19, <4>1
      <4>3. ASSUME NEW p \in Pair, NEW i \in DOMAIN channel'[p] PROVE ~Concerns(a, h, p, i)'
        <5> SUFFICES ASSUME Concerns(a, h, p, i)' PROVE FALSE
          OBVIOUS
        <5>1. /\ back[p][i] \in DOMAIN channel[p] /\ channel'[p][i] = channel[p][back[p][i]]
              /\ ~ (p = p1 /\ back[p][i] = 1)
          BY <1>13
        <5>2. Concerns(r, k, p, back[p][i])
          BY <3>1, <5>1 DEF Concerns
        <5> QED
          BY <1>3, <1>4, <1>7, <4>2, <5>1, <5>2 DEF TransferOK, OneUnderWay
      <4>4. ItemOK(items[a][h], source[a][h])'
        BY <4>1, <4>2 DEF ItemOK, PrefixOf, Local, Unknown, ghost
      <4> QED
        BY <4>3, <4>4 DEF TransferOK, OneUnderWay
    <3>2. CASE ~ (a = r /\ h = k)
      BY <1>17, <2>1, <2>3, <3>2
    <3> QED
      BY <3>1, <3>2
  <2>4. ~crashed'
    BY <1>1, <1>19
  <2> QED
    BY <1>15, <2>2, <2>3, <2>4 DEF IInv
<1> QED
  BY <1>9, <1>18, <1>19

------------------------------------------------------------------------------
\* The start: no keys and no messages.
LEMMA InitIInv == StoreInit => IInv
<1> SUFFICES ASSUME StoreInit PROVE IInv
  OBVIOUS
<1>1. crashed = FALSE
  BY DEF StoreInit
<1>2. crashed \in BOOLEAN
  BY <1>1, Zenon
<1>3. channel \in [Pair -> Seq(Message)] /\ \A p \in Pair : channel[p] = << >>
  BY DEF StoreInit, Pair
<1>4. StoreTypeOK
  <2>1. /\ items \in [Stores -> [Keys -> ItemType \union {Absent}]]
        /\ requests \in [Stores -> RequestType \union {NoRequest}]
        /\ inserts \in Nat /\ removals \in Nat /\ pulls \in Nat
    BY DEF StoreInit
  <2>2. source \in [Stores -> [Keys -> Source]]
    BY Ghosts DEF StoreInit
  <2> QED
    BY <1>2, <1>3, <2>1, <2>2 DEF StoreTypeOK
<1>5. \A p \in Pair : DOMAIN channel[p] = {}
  BY <1>3
<1>6. ASSUME NEW r \in Stores, NEW k \in Keys PROVE TransferOK(r, k)
  <2>1. items[r][k] = Absent /\ source[r][k] = Local
    BY DEF StoreInit
  <2>2. ItemOK(items[r][k], source[r][k])
    BY <2>1, Ghosts, Shapes DEF ItemOK
  <2> QED
    BY <1>5, <2>2 DEF TransferOK, OneUnderWay
<1>7. PartsWellFormed
  BY <1>5 DEF PartsWellFormed
<1> QED
  BY <1>1, <1>4, <1>6, <1>7 DEF IInv

\* Steps that touch neither items nor messages.
LEMMA RequestsIInv ==
  ASSUME IInv, requests' \in [Stores -> RequestType \union {NoRequest}], pulls' \in Nat,
         UNCHANGED <<items, channel, crashed, inserts, removals, source>>
  PROVE  IInv'
<1>1. StoreTypeOK'
  BY DEF IInv, StoreTypeOK
<1>2. PartsWellFormed'
  BY DEF IInv, PartsWellFormed, WellFormed, partLength
<1>3. ASSUME NEW r \in Stores, NEW k \in Keys, source'[r][k] # Tainted' PROVE TransferOK(r, k)'
  <2>1. source[r][k] # Tainted
    BY <1>3 DEF Tainted, ghost
  <2> QED
    BY <2>1, StillTransfer DEF IInv
<1>4. crashed' => \E r \in Stores, k \in Keys : source'[r][k] = Tainted'
  BY DEF IInv, Tainted, ghost
<1> QED
  BY <1>1, <1>2, <1>3, <1>4 DEF IInv

\* Every step preserves the invariant.
LEMMA NextIInv == IInv /\ [StoreNext]_storeVars => IInv'
<1> SUFFICES ASSUME IInv, [StoreNext]_storeVars PROVE IInv'
  OBVIOUS
<1>0. StoreTypeOK
  BY DEF IInv
<1>1. CASE UNCHANGED storeVars
  BY <1>0, <1>1, RequestsIInv DEF storeVars, StoreTypeOK
<1>2. ASSUME NEW r \in Stores, NEW k \in Keys, NEW v \in Values, InsertLocalKey(r, k, v) PROVE IInv'
  <2>1. PICK new : new = KeyValueStoreItem(v)
    OBVIOUS
  <2>2. new \in ItemType /\ new.ready
    BY <2>1, ItemOperations, ValuesOfBytes
  <2>3. ItemOK(new, Local)
    BY <2>2, Ghosts DEF ItemOK
  <2>4. /\ ~crashed /\ items' = [items EXCEPT ![r][k] = new]
        /\ source' = [source EXCEPT ![r][k] = IF underWay(r, k) THEN Tainted ELSE Local]
        /\ UNCHANGED <<requests, channel, crashed>>
        /\ inserts' \in Nat /\ removals' \in Nat /\ pulls' \in Nat
    BY <1>0, <1>2, <2>1 DEF InsertLocalKey, StoreTypeOK
  <2> QED
    BY <2>2, <2>3, <2>4, ReplaceItem
<1>3. ASSUME NEW r \in Stores, NEW k \in Keys, RemoveLocalKey(r, k) PROVE IInv'
  <2>1. ItemOK(Absent, Local)
    BY Ghosts, Shapes DEF ItemOK
  <2>2. /\ ~crashed /\ items' = [items EXCEPT ![r][k] = Absent]
        /\ source' = [source EXCEPT ![r][k] = IF underWay(r, k) THEN Tainted ELSE Local]
        /\ UNCHANGED <<requests, channel, crashed>>
        /\ inserts' \in Nat /\ removals' \in Nat /\ pulls' \in Nat
    BY <1>0, <1>3 DEF RemoveLocalKey, StoreTypeOK
  <2> QED
    BY <2>1, <2>2, ReplaceItem
<1>4. ASSUME NEW r \in Stores, NEW k \in Keys, NEW from \in Stores \ {r}, PullRemoteKey(r, k, from)
      PROVE  IInv'
  <2>1. [active |-> TRUE, key |-> k, rank |-> from] \in RequestType
    BY DEF RequestType
  <2>2. requests' \in [Stores -> RequestType \union {NoRequest}] /\ pulls' \in Nat
    BY <1>0, <1>4, <2>1 DEF PullRemoteKey, StoreTypeOK
  <2> QED
    BY <1>4, <2>2, RequestsIInv DEF PullRemoteKey
<1>5. ASSUME NEW r \in Stores, TestStarts(r) PROVE IInv'
  <2>1. PICK k, new : k = requests[r].key /\ new = startDownload(KeyValueStoreItem(<< >>))
    OBVIOUS
  <2>2. k \in Keys
    <3>1. requests[r] \in RequestType
      BY <1>0, <1>5 DEF TestStarts, StoreTypeOK, NoRequest
    <3> QED
      BY <2>1, <3>1 DEF RequestType
  <2>3. new \in ItemType /\ ~new.ready /\ ~new.absent /\ new.value = << >> /\ new.downloaded = 0
    BY <2>1, ItemOperations
  <2>4. ItemOK(new, Unknown)
    BY <2>3, Ghosts DEF ItemOK
  <2>5. /\ ~crashed /\ items' = [items EXCEPT ![r][k] = new]
        /\ source' = [source EXCEPT ![r][k] = IF underWay(r, k) THEN Tainted ELSE Unknown]
        /\ UNCHANGED <<requests, channel, crashed>>
        /\ inserts' \in Nat /\ removals' \in Nat /\ pulls' \in Nat
    BY <1>0, <1>5, <2>1 DEF TestStarts, StoreTypeOK
  <2> QED
    BY <2>2, <2>3, <2>4, <2>5, ReplaceItem
<1>6. ASSUME NEW r \in Stores, TestSucceeds(r) PROVE IInv'
  <2>1. requests' \in [Stores -> RequestType \union {NoRequest}] /\ pulls' \in Nat
    BY <1>0, <1>6 DEF TestSucceeds, StoreTypeOK
  <2> QED
    BY <1>6, <2>1, RequestsIInv DEF TestSucceeds
<1>7. ASSUME NEW r \in Stores, TestAsks(r) PROVE IInv'
  BY <1>7, TestAsksIInv
<1>8. ASSUME NEW r \in Stores, NEW b \in Stores \ {r}, Serve(r, b) PROVE IInv'
  BY <1>8, ServeIInv
<1>9. ASSUME NEW r \in Stores, NEW b \in Stores \ {r}, ReceivePart(r, b) PROVE IInv'
  BY <1>9, ReceivePartIInv
<1> QED
  BY <1>1, <1>2, <1>3, <1>4, <1>5, <1>6, <1>7, <1>8, <1>9 DEF StoreNext

\* The invariant holds in every state.
LEMMA SpecIInv == StoreSpec => []IInv
BY InitIInv, NextIInv, PTL DEF StoreSpec

\* Items, requests and messages keep their types.
THEOREM StoreTypeCorrect == StoreSpec => []StoreTypeOK
<1>1. IInv => StoreTypeOK
  BY DEF IInv
<1> QED
  BY <1>1, SpecIInv, PTL

\* What test() declares ready is the value the owner had, and no part is written
\* out of bounds, unless the key was removed, replaced or not ready on the way.
THEOREM PullsAreIntact == StoreSpec => []PulledIntact
<1>1. IInv => PulledIntact
  <2> SUFFICES ASSUME IInv PROVE PulledIntact
    OBVIOUS
  <2>0. StoreTypeOK
    BY DEF IInv
  <2>1. ASSUME NEW r \in Stores, NEW k \in Keys, items[r][k].ready
        PROVE  source[r][k] \in {Local, Tainted, ghost("served", items[r][k].value)}
    <3> SUFFICES ASSUME source[r][k] # Local, source[r][k] # Tainted
                 PROVE  source[r][k] = ghost("served", items[r][k].value)
      OBVIOUS
    <3>1. ItemOK(items[r][k], source[r][k])
      BY DEF IInv, TransferOK
    <3>2. source[r][k] # Unknown /\ source[r][k] \in Source
      BY <2>0, <2>1, <3>1 DEF ItemOK, StoreTypeOK
    <3>3. source[r][k] \in [is : {"served"}, value : Seq(Byte)]
      BY <3>2 DEF Source
    <3>4. source[r][k].value = items[r][k].value
      BY <2>1, <3>1, <3>3 DEF ItemOK
    <3> QED
      BY <3>3, <3>4 DEF ghost
  <2> QED
    BY <2>1 DEF IInv, PulledIntact
<1> QED
  BY <1>1, SpecIInv, PTL
==============================================================================
