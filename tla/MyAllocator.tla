------------------------------ MODULE MyAllocator ------------------------------
(***************************************************************************)
(* memory/MyAllocator.cpp with memory/ReusableMemoryStore.cpp: blocks are  *)
(* cut one after the other from chunks of equal size, and freed blocks are *)
(* kept, by the size they were freed with, on stacks that are tried first. *)
(* The key-value store keeps its values here.                              *)
(***************************************************************************)
EXTENDS Integers, Sequences, FiniteSets

CONSTANTS
  ChunkSize,     \* m_CHUNK_SIZE
  Alignment,     \* 8 in the code
  ElementSize,   \* sizeof(Element): freed blocks below it are forgotten
  Sizes,         \* the sizes the callers ask for
  MaxChunks, MaxResets    \* bounds

ASSUME MyAllocatorAssumption ==
  /\ Alignment \in Nat \ {0} /\ ElementSize \in Nat
  /\ ChunkSize \in Nat /\ ChunkSize % Alignment = 0
  /\ Sizes \subseteq 1 .. ChunkSize
  /\ MaxChunks \in Nat /\ MaxResets \in Nat

VARIABLES
  chunks,     \* the number of m_chunks
  current,    \* m_currentChunkId
  position,   \* m_currentPosition
  store,      \* m_toReuse: the stack of addresses of every size
  held,       \* the blocks the callers hold: [chunk, at, size]
  resets      \* how often the memory was reset or given back

allocatorVars == <<chunks, current, position, store, held, resets>>

roundNumber(s) == IF s % Alignment = 0 THEN s ELSE ((s \div Alignment) + 1) * Alignment

RoundedSizes == Sizes \union {roundNumber(s) : s \in Sizes}

hasAddressesToReuse(s) == store[s] # << >>

block(address, size) == [chunk |-> address.chunk, at |-> address.at, size |-> size]

AllocatorInit ==
  /\ chunks = 0 /\ current = 0 /\ position = 0
  /\ store = [s \in RoundedSizes |-> << >>]
  /\ held = {}
  /\ resets = 0

\* reuseAddress: the block freed last.
Reuse(s) ==
  /\ hasAddressesToReuse(s)
  /\ held' = held \union {block(Head(store[s]), s)}
  /\ store' = [store EXCEPT ![s] = Tail(@)]
  /\ UNCHANGED <<chunks, current, position, resets>>

\* The rest of the current chunk is enough.
CutFromChunk(s) ==
  LET rounded == roundNumber(s)
  IN  /\ ~hasAddressesToReuse(s)
      /\ rounded <= ChunkSize - position
      /\ chunks' = IF chunks = 0 THEN 1 ELSE chunks
      /\ held' = held \union {[chunk |-> current, at |-> position, size |-> s]}
      /\ position' = position + rounded
      /\ UNCHANGED <<current, store, resets>>

\* The chunk after m_currentChunkId.
nextChunk == current + 1

\* It is not: the call goes on to the next chunk, new or left from before a
\* reset, and starts over with the rounded size, which may find a freed block.
CutFromNextChunk(s) ==
  LET rounded == roundNumber(s)
  IN  /\ ~hasAddressesToReuse(s)
      /\ rounded > ChunkSize - position
      /\ nextChunk < MaxChunks
      /\ chunks' = IF nextChunk < chunks THEN chunks ELSE chunks + 1
      /\ current' = nextChunk
      /\ IF hasAddressesToReuse(rounded)
         THEN /\ held' = held \union {block(Head(store[rounded]), s)}
              /\ store' = [store EXCEPT ![rounded] = Tail(@)]
              /\ position' = 0
         ELSE /\ held' = held \union {[chunk |-> nextChunk, at |-> 0, size |-> s]}
              /\ position' = rounded
              /\ UNCHANGED store
      /\ UNCHANGED resets

\* free, with the size the caller asked for.
Free(b) ==
  /\ b \in held
  /\ held' = held \ {b}
  /\ store' = IF b.size < ElementSize THEN store
              ELSE [store EXCEPT ![b.size] = <<[chunk |-> b.chunk, at |-> b.at]>> \o @]
  /\ UNCHANGED <<chunks, current, position, resets>>

\* Mutant: the freed blocks survive the reset.
storeAfterReset_Kept == store

storeAfterReset == [s \in RoundedSizes |-> << >>]

\* reset keeps the chunks, clear gives them back.  The callers have let go of
\* their blocks (KeyValueStore::clear).
Reset ==
  /\ resets < MaxResets
  /\ held' = {}
  /\ current' = 0 /\ position' = 0
  /\ store' = storeAfterReset
  /\ chunks' \in {chunks, 0}
  /\ resets' = resets + 1

AllocatorNext ==
  \/ \E s \in Sizes : Reuse(s) \/ CutFromChunk(s) \/ CutFromNextChunk(s)
  \/ \E b \in held : Free(b)
  \/ Reset

AllocatorSpec == AllocatorInit /\ [][AllocatorNext]_allocatorVars

------------------------------------------------------------------------------
bytesOf(b) == {b.chunk} \X (b.at .. b.at + b.size - 1)

freeBlocks ==
  UNION {{block(store[s][i], s) : i \in DOMAIN store[s]} : s \in RoundedSizes}

\* Whatever was freed, reused, reset and cut before: every block lies in a chunk
\* that exists, and no byte belongs to two blocks that are held or kept for
\* reuse.
BlocksDisjoint ==
  LET all == held \union freeBlocks
  IN  /\ \A b \in all : b.chunk < chunks /\ b.at + b.size <= ChunkSize
      /\ \A b, c \in all : b # c => bytesOf(b) \intersect bytesOf(c) = {}
      /\ held \intersect freeBlocks = {}
================================================================================
