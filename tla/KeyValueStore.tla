----------------------------- MODULE KeyValueStore -----------------------------
(***************************************************************************)
(* store/KeyValueStore.cpp and KeyValueStoreItem.cpp: every rank keeps     *)
(* items under keys, and pulls an item from another rank part by part, the *)
(* parts being as long as a message allows.  The application calls test()  *)
(* until the item is ready.  Keys may be inserted and removed at any time, *)
(* on both ends, while parts are under way.                                *)
(*                                                                         *)
(* A value is a sequence of bytes, and the null pointer is the empty one.  *)
(* An access out of the bounds of a value, or through a null item, ends    *)
(* the job: the assertions of the code stop it there.                      *)
(***************************************************************************)
EXTENDS Integers, Sequences, FiniteSets

CONSTANTS
  Stores,         \* the ranks
  Keys,
  Values,         \* the values an application inserts
  Capacity,       \* the bytes of a value that fit in one message
  MaxInserts, MaxRemovals, MaxPulls    \* bounds on what the application does

ASSUME KeyValueStoreAssumption ==
  /\ Capacity \in Nat \ {0}
  /\ MaxInserts \in Nat /\ MaxRemovals \in Nat /\ MaxPulls \in Nat
  /\ \A v \in Values : v \in Seq({v[i] : i \in DOMAIN v})

VARIABLES
  items,      \* m_items of every rank
  requests,   \* the pull request of every rank that the application is testing
  channel,    \* the messages from one rank to another, in the order of MPI
  crashed,    \* has an access gone out of bounds?
  inserts, removals, pulls,    \* how often the application did so
  source      \* ghost: what the owner had when it served the item being pulled

storeVars == <<items, requests, channel, crashed, inserts, removals, pulls, source>>

Absent == [ready |-> FALSE, absent |-> TRUE]
NoRequest == [active |-> FALSE]
ghost(is, value) == [is |-> is, value |-> value]
Unknown == ghost("unknown", << >>)   \* no part was served yet
Tainted == ghost("tainted", << >>)   \* removed, replaced or not ready while it was pulled
Local == ghost("local", << >>)       \* inserted here

\* A byte of memory that nothing was written to.
Garbage == "garbage"

KeyValueStoreItem(value) ==
  [value |-> value, downloaded |-> Len(value), ready |-> TRUE, sent |-> FALSE, absent |-> FALSE]

startDownload(item) == [item EXCEPT !.ready = FALSE, !.sent = FALSE]
sendMessage(item) == [item EXCEPT !.ready = FALSE, !.sent = TRUE]

\* Mutant: the answer to the last request is not noted.
receiveMessage_StillSent(item) == [item EXCEPT !.ready = @ \/ item.downloaded = Len(item.value)]

receiveMessage(item) ==
  [item EXCEPT !.sent = FALSE, !.ready = @ \/ item.downloaded = Len(item.value)]

hasKey(r, k) == ~items[r][k].absent

------------------------------------------------------------------------------
send(a, b, m) == [channel EXCEPT ![<<a, b>>] = Append(@, m)]

partRequest(k, item) == [reply |-> FALSE, key |-> k, offset |-> item.downloaded]

\* The messages that concern the pulling of k by r.
underWay(r, k) ==
  \E b \in Stores : \/ \E i \in DOMAIN channel[<<r, b>>] :
                          channel[<<r, b>>][i].key = k /\ ~channel[<<r, b>>][i].reply
                    \/ \E i \in DOMAIN channel[<<b, r>>] :
                          channel[<<b, r>>][i].key = k /\ channel[<<b, r>>][i].reply

------------------------------------------------------------------------------
StoreInit ==
  /\ items = [r \in Stores |-> [k \in Keys |-> Absent]]
  /\ requests = [r \in Stores |-> NoRequest]
  /\ channel = [p \in Stores \X Stores |-> << >>]
  /\ crashed = FALSE
  /\ inserts = 0 /\ removals = 0 /\ pulls = 0
  /\ source = [r \in Stores |-> [k \in Keys |-> Local]]

\* insertLocalKey refuses a key that is there.
InsertLocalKey(r, k, v) ==
  /\ ~crashed /\ inserts < MaxInserts
  /\ ~hasKey(r, k)
  /\ items' = [items EXCEPT ![r][k] = KeyValueStoreItem(v)]
  /\ source' = [source EXCEPT ![r][k] = IF underWay(r, k) THEN Tainted ELSE Local]
  /\ inserts' = inserts + 1
  /\ UNCHANGED <<requests, channel, crashed, removals, pulls>>

RemoveLocalKey(r, k) ==
  /\ ~crashed /\ removals < MaxRemovals
  /\ hasKey(r, k)
  /\ items' = [items EXCEPT ![r][k] = Absent]
  /\ source' = [source EXCEPT ![r][k] = IF underWay(r, k) THEN Tainted ELSE Local]
  /\ removals' = removals + 1
  /\ UNCHANGED <<requests, channel, crashed, inserts, pulls>>

PullRemoteKey(r, k, from) ==
  /\ ~crashed /\ pulls < MaxPulls
  /\ requests[r] = NoRequest
  /\ requests' = [requests EXCEPT ![r] = [active |-> TRUE, key |-> k, rank |-> from]]
  /\ pulls' = pulls + 1
  /\ UNCHANGED <<items, channel, crashed, inserts, removals, source>>

\* test, that is pullRemoteKeyWithLength, when the key is not here: an item
\* without a value, not ready, takes its place.
TestStarts(r) ==
  LET k == requests[r].key
  IN  /\ ~crashed /\ requests[r].active
      /\ ~hasKey(r, k)
      /\ items' = [items EXCEPT ![r][k] = startDownload(KeyValueStoreItem(<< >>))]
      /\ source' = [source EXCEPT ![r][k] = IF underWay(r, k) THEN Tainted ELSE Unknown]
      /\ UNCHANGED <<requests, channel, crashed, inserts, removals, pulls>>

\* The item is ready and the application stops testing.
TestSucceeds(r) ==
  /\ ~crashed /\ requests[r].active
  /\ items[r][requests[r].key].ready
  /\ requests' = [requests EXCEPT ![r] = NoRequest]
  /\ UNCHANGED <<items, channel, crashed, inserts, removals, pulls, source>>

\* Neither ready nor asked for: the next part is asked for.
TestAsks(r) ==
  LET k == requests[r].key
      item == items[r][k]
  IN  /\ ~crashed /\ requests[r].active
      /\ hasKey(r, k) /\ ~item.ready /\ ~item.sent
      /\ channel' = send(r, requests[r].rank, partRequest(k, item))
      /\ items' = [items EXCEPT ![r][k] = sendMessage(item)]
      /\ UNCHANGED <<requests, crashed, inserts, removals, pulls, source>>

------------------------------------------------------------------------------
\* The bytes of a part: min(what is left of the value, what fits).
partLength(length, offset) ==
  IF Capacity < length - offset THEN Capacity ELSE length - offset

\* What the ghost knows after b has served r.
nextSource(r, b, k) ==
  LET served == IF hasKey(b, k) /\ items[b][k].ready THEN ghost("served", items[b][k].value)
                ELSE Tainted
  IN  CASE source[r][k] = Unknown -> served
        [] source[r][k] = served -> served
        [] OTHER -> Tainted

\* call_RAYPLATFORM_MESSAGE_TAG_DOWNLOAD_OBJECT_PART: the answer bears the
\* length of the value, 0 when there is none, ready or not.
Serve(r, b) ==
  /\ ~crashed
  /\ channel[<<r, b>>] # << >>
  /\ LET q == Head(channel[<<r, b>>])
         value == IF hasKey(b, q.key) THEN items[b][q.key].value ELSE << >>
         count == IF value = << >> THEN 0 ELSE partLength(Len(value), q.offset)
     IN  /\ ~q.reply
         /\ crashed' = (count < 0)
         /\ channel' = IF count < 0 THEN channel
                       ELSE [channel EXCEPT
                               ![<<r, b>>] = Tail(@),
                               ![<<b, r>>] = Append(@,
                                  [reply |-> TRUE, key |-> q.key, offset |-> q.offset,
                                   length |-> Len(value),
                                   bytes |-> SubSeq(value, q.offset + 1, q.offset + count)])]
         /\ source' = [source EXCEPT ![r][q.key] = nextSource(r, b, q.key)]
  /\ UNCHANGED <<items, requests, inserts, removals, pulls>>

\* The value of an item after the first part: memory of the announced length.
allocated(item, m) ==
  IF m.offset = 0 /\ m.length # 0
  THEN [item EXCEPT !.value = [i \in 1 .. m.length |-> Garbage]]
  ELSE item

\* Mutant: the item counts as complete after the first part.
written_Whole(item, m) ==
  LET n == partLength(m.length, m.offset)
  IN  [item EXCEPT !.value = [i \in DOMAIN @ |-> IF i \in m.offset + 1 .. m.offset + n
                                                 THEN m.bytes[i - m.offset] ELSE @[i]],
                   !.downloaded = Len(item.value)]

\* memcpy of the part into the value, and setDownloadedSize.
written(item, m) ==
  LET n == partLength(m.length, m.offset)
  IN  [item EXCEPT !.value = [i \in DOMAIN @ |-> IF i \in m.offset + 1 .. m.offset + n
                                                 THEN m.bytes[i - m.offset] ELSE @[i]],
                   !.downloaded = m.offset + n]

\* The part has a negative length, or does not fit the memory of the value.
outOfBounds(item, m) ==
  LET n == partLength(m.length, m.offset)
  IN  n < 0 \/ m.offset + n > Len(item.value)

\* call_RAYPLATFORM_MESSAGE_TAG_DOWNLOAD_OBJECT_PART_REPLY
ReceivePart(b, r) ==
  /\ ~crashed
  /\ channel[<<b, r>>] # << >>
  /\ LET m == Head(channel[<<b, r>>])
         item == allocated(items[r][m.key], m)
     IN  /\ m.reply
         /\ \/ /\ ~hasKey(r, m.key)
               /\ crashed' = TRUE /\ UNCHANGED items
            \/ /\ hasKey(r, m.key) /\ item.value = << >>
               /\ items' = [items EXCEPT ![r][m.key] = receiveMessage(item)]
               /\ UNCHANGED crashed
            \/ /\ hasKey(r, m.key) /\ item.value # << >> /\ outOfBounds(item, m)
               /\ crashed' = TRUE /\ UNCHANGED items
            \/ /\ hasKey(r, m.key) /\ item.value # << >> /\ ~outOfBounds(item, m)
               /\ items' = [items EXCEPT ![r][m.key] = receiveMessage(written(item, m))]
               /\ UNCHANGED crashed
  /\ channel' = [channel EXCEPT ![<<b, r>>] = Tail(@)]
  /\ UNCHANGED <<requests, inserts, removals, pulls, source>>

StoreNext ==
  \/ \E r \in Stores, k \in Keys :
       \/ \E v \in Values : InsertLocalKey(r, k, v)
       \/ RemoveLocalKey(r, k)
       \/ \E from \in Stores \ {r} : PullRemoteKey(r, k, from)
  \/ \E r \in Stores : TestStarts(r) \/ TestSucceeds(r) \/ TestAsks(r)
  \/ \E r \in Stores : \E b \in Stores \ {r} : Serve(r, b) \/ ReceivePart(r, b)

\* An application tests its request again and again, and each rank handles the
\* messages it receives.
StoreFairness ==
  /\ \A r \in Stores : WF_storeVars(TestStarts(r) \/ TestSucceeds(r) \/ TestAsks(r))
  /\ \A r, b \in Stores : WF_storeVars(Serve(r, b) \/ ReceivePart(r, b))

StoreSpec == StoreInit /\ [][StoreNext]_storeVars /\ StoreFairness

------------------------------------------------------------------------------
\* An item that was pulled and is ready has, byte for byte, the value its owner
\* had, however the parts interleave with insertions and removals elsewhere;
\* and no access goes out of bounds.  Both hold as long as the owner kept the
\* value, ready, and the puller kept the item, until the transfer was over.
PulledIntact ==
  /\ \A r \in Stores, k \in Keys :
       items[r][k].ready => source[r][k] \in {Local, Tainted, ghost("served", items[r][k].value)}
  /\ crashed => \E r \in Stores, k \in Keys : source[r][k] = Tainted

\* A request that is tested again and again succeeds in the end, unless its key
\* is removed or replaced on one of the ends on the way.
PullsEnd ==
  \A r \in Stores :
    requests[r].active ~> \/ ~requests[r].active \/ crashed
                          \/ \E k \in Keys : source[r][k] = Tainted
================================================================================
