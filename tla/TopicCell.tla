----------------------------- MODULE TopicCell -----------------------------
(***************************************************************************)
(* BasicTopicCell (queue.hpp): a broadcast log with a cursor per           *)
(* subscriber and a memoised stream reader per subscriber.  An operation   *)
(* commits under core_mutex, then looks its readers up (or removes one)    *)
(* under reader_mutex, then clears them in a batch of the owner context:   *)
(* three steps of the calling thread.  ensure_reader adds a fourth: what   *)
(* it did not find it makes with no lock held, and puts in the map under   *)
(* reader_mutex again.  The node it makes on the graph of the owner, also  *)
(* without the owner's lock, is seen by nobody before that.                *)
(*                                                                         *)
(* An element is its absolute offset; a stream is the set of offsets a     *)
(* subscriber has before it.                                               *)
(***************************************************************************)
EXTENDS Integers, FiniteSets

CONSTANTS
  Subscribers,   \* subscriber ids
  TopicThreads,  \* threads that call the topic
  MaxTail,       \* bound: elements published
  MaxReaders,    \* bound: readers made for one subscriber
  Unheld,        \* a reader that holds no cached stream
  Undefined      \* what reading outside the deque gives

ASSUME TopicCellAssumption == MaxTail \in Nat /\ MaxReaders \in Nat

VARIABLES
  base_offset, tail,  \* the retained log is base_offset .. tail - 1
  subscriptions,      \* a partial function: id -> [cursor, durable, connected]
  readers,            \* id -> the number of its reader in the map, 0 for none
  minted,             \* id -> readers made so far
  streamShown,        \* id -> what the reader in the map holds
  overtaken,          \* history: ids whose reader a disconnect took after another
                      \*   call had subscribed them again
  calls               \* thread -> what its call still has to do

log == <<base_offset, tail, subscriptions>>
topicVars == <<log, readers, minted, streamShown, overtaken, calls>>

Idle == [step |-> "idle", ids |-> {}, mode |-> "find", found |-> {}]

TopicInit ==
  /\ base_offset = 0 /\ tail = 0 /\ subscriptions = << >>
  /\ readers = [s \in Subscribers |-> 0] /\ minted = [s \in Subscribers |-> 0]
  /\ streamShown = [s \in Subscribers |-> Unheld] /\ overtaken = {}
  /\ calls = [t \in TopicThreads |-> Idle]

-----------------------------------------------------------------------------
(* What a reader computes *)

Connected(s) == s \in DOMAIN subscriptions /\ subscriptions[s].connected

\* The suffix from the cursor; the index is unsigned, so a cursor below the
\* log reads outside the deque.
Stream(s) ==
  IF ~Connected(s) THEN {}
  ELSE IF subscriptions[s].cursor < base_offset THEN Undefined
  ELSE subscriptions[s].cursor .. tail - 1

\* read_stream on a reader that holds nothing.
ReadStream(s) ==
  /\ readers[s] # 0 /\ streamShown[s] = Unheld
  /\ streamShown' = [streamShown EXCEPT ![s] = Stream(s)]
  /\ UNCHANGED <<log, readers, minted, overtaken, calls>>

-----------------------------------------------------------------------------
(* Commits *)

\* The readers of these ids are to be found, made or removed next; "make" is
\* ensure_reader of a subscribe, "handle" that of a reader_handle.
Lookup(t, ids, mode) ==
  /\ calls[t] = Idle
  /\ calls' = [calls EXCEPT ![t] = [step |-> "lookup", ids |-> ids, mode |-> mode, found |-> {}]]
  /\ UNCHANGED <<readers, minted, streamShown, overtaken>>

With(s, sub) == [i \in DOMAIN subscriptions \cup {s} |-> IF i = s THEN sub ELSE subscriptions[i]]
Without(s) == [i \in DOMAIN subscriptions \ {s} |-> subscriptions[i]]

\* subscribe, reconnect: a new subscription starts at the tail, a durable one
\* that was disconnected goes on from its cursor.
Subscribe(t, s, durable) ==
  /\ ~Connected(s) /\ (s \in DOMAIN subscriptions \/ minted[s] < MaxReaders)
  /\ subscriptions' = With(s, IF s \in DOMAIN subscriptions
                              THEN [subscriptions[s] EXCEPT !.connected = TRUE]
                              ELSE [cursor |-> tail, durable |-> durable, connected |-> TRUE])
  /\ Lookup(t, {s}, "make")
  /\ UNCHANGED <<base_offset, tail>>

\* disconnect: an ephemeral subscription and its reader go.
Disconnect(t, s) ==
  /\ Connected(s)
  /\ subscriptions' = IF subscriptions[s].durable
                      THEN With(s, [subscriptions[s] EXCEPT !.connected = FALSE])
                      ELSE Without(s)
  /\ Lookup(t, {s}, IF subscriptions[s].durable THEN "find" ELSE "remove")
  /\ UNCHANGED <<base_offset, tail>>

\* The subscribers a publication is for.
Listeners == {s \in Subscribers : Connected(s)}

Publish(t) ==
  /\ tail < MaxTail /\ tail' = tail + 1
  /\ Lookup(t, Listeners, "find")
  /\ UNCHANGED <<base_offset, subscriptions>>

Advance(t, s, count) ==
  /\ Connected(s) /\ count \in 1 .. tail - subscriptions[s].cursor
  /\ subscriptions' = With(s, [subscriptions[s] EXCEPT !.cursor = @ + count])
  /\ Lookup(t, {s}, "find")
  /\ UNCHANGED <<base_offset, tail>>

\* The cursors gc keeps the log for.
Held == {subscriptions[s].cursor : s \in {i \in DOMAIN subscriptions : subscriptions[i].durable}}

gc ==
  /\ base_offset' = CHOOSE f \in Held \cup {tail} : \A c \in Held \cup {tail} : f <= c
  /\ UNCHANGED <<tail, subscriptions, readers, minted, streamShown, overtaken, calls>>

-----------------------------------------------------------------------------
(* Readers *)

\* A reader is made before there is a subscription, by whoever asks.
ReaderHandle(t, s) ==
  /\ minted[s] < MaxReaders
  /\ Lookup(t, {s}, "handle")
  /\ UNCHANGED log

\* What a call does with the readers it has: a reader_handle hands its reader
\* out, the others clear theirs.
Holding(c, found) ==
  IF c.mode = "handle" THEN Idle ELSE [Idle EXCEPT !.step = "clear", !.found = found]

\* The lookup under reader_mutex: of a call that finds its readers, of one that
\* takes the reader out of the map, of an ensure_reader.
FindReaders(t) ==
  LET c == calls[t]
      there == {s \in c.ids : readers[s] # 0}
      taken == IF c.mode = "remove" THEN c.ids ELSE {} IN
  /\ c.step = "lookup"
  /\ readers' = [s \in Subscribers |-> IF s \in taken THEN 0 ELSE readers[s]]
  /\ streamShown' = [s \in Subscribers |-> IF s \in taken THEN Unheld ELSE streamShown[s]]
  /\ overtaken' = overtaken \cup {s \in taken : Connected(s)}
  /\ calls' = [calls EXCEPT ![t] =
       IF c.mode \in {"make", "handle"} /\ there # c.ids THEN [c EXCEPT !.step = "emplace"]
       ELSE Holding(c, {<<s, readers[s]>> : s \in there})]
  /\ UNCHANGED <<log, minted>>

\* The end of ensure_reader, under reader_mutex again: the reader it made, or
\* the one that another call put in the map meanwhile.
EmplaceReader(t) ==
  LET c == calls[t]
      made == {s \in c.ids : readers[s] = 0} IN
  /\ c.step = "emplace"
  /\ minted' = [s \in Subscribers |-> IF s \in made THEN minted[s] + 1 ELSE minted[s]]
  /\ readers' = [s \in Subscribers |-> IF s \in made THEN minted[s] + 1 ELSE readers[s]]
  /\ streamShown' = [s \in Subscribers |-> IF s \in made THEN Unheld ELSE streamShown[s]]
  /\ overtaken' = overtaken \ made
  /\ calls' = [calls EXCEPT ![t] = Holding(c, {<<s, readers'[s]>> : s \in c.ids})]
  /\ UNCHANGED log

\* One batch clears the readers that were found; one that was removed from the
\* map meanwhile is cleared without effect on its successor.
ClearStreams(t) ==
  /\ calls[t].step = "clear"
  /\ streamShown' = [s \in Subscribers |->
       IF <<s, readers[s]>> \in calls[t].found THEN Unheld ELSE streamShown[s]]
  /\ calls' = [calls EXCEPT ![t] = Idle]
  /\ UNCHANGED <<log, readers, minted, overtaken>>

TopicNext ==
  \/ \E t \in TopicThreads :
       \/ Publish(t) \/ FindReaders(t) \/ EmplaceReader(t) \/ ClearStreams(t)
       \/ \E s \in Subscribers :
            \/ \E durable \in BOOLEAN : Subscribe(t, s, durable)
            \/ Disconnect(t, s) \/ ReaderHandle(t, s)
            \/ \E count \in 1 .. MaxTail : Advance(t, s, count)
  \/ \E s \in Subscribers : ReadStream(s)
  \/ gc

TopicSpec == TopicInit /\ [][TopicNext]_topicVars

-----------------------------------------------------------------------------

\* The variables have their types.
TopicTypeOK ==
  /\ base_offset \in Nat /\ tail \in 0 .. MaxTail
  /\ DOMAIN subscriptions \subseteq Subscribers
  /\ \A s \in DOMAIN subscriptions :
       subscriptions[s] \in [cursor : Nat, durable : BOOLEAN, connected : BOOLEAN]
  /\ readers \in [Subscribers -> Nat] /\ minted \in [Subscribers -> Nat]
  /\ overtaken \subseteq Subscribers
  /\ \A t \in TopicThreads :
       /\ calls[t].step \in {"idle", "lookup", "emplace", "clear"}
       /\ calls[t].ids \subseteq Subscribers
       /\ calls[t].mode \in {"find", "make", "handle", "remove"}

\* Nobody else's gc, advance or disconnect takes an element from a durable
\* subscriber: everything from its cursor on is in the log, also while it is
\* away.
DurableRetained ==
  \A s \in DOMAIN subscriptions :
    subscriptions[s].durable => subscriptions[s].cursor \in base_offset .. tail

AtRest == \A t \in TopicThreads : calls[t] = Idle

\* A connected subscriber whose next element gc has dropped: an ephemeral one.
CutOff(s) == Connected(s) /\ subscriptions[s].cursor < base_offset

\* When no call is between its commit and its clears, every reader holds the
\* stream that the log gives its id now, or nothing: the reader of a durable and
\* of an ephemeral subscriber, of one that is away and of an id that has not
\* subscribed yet, although gc clears no reader and publish only those of the
\* subscribers connected at its commit.  A subscriber that gc has cut off is left
\* out (GcSafe).  And every connected subscriber has a reader, except one whose
\* reader was taken by the disconnect of an ephemeral subscription of the same id
\* that its subscribe overtook (SubscribersHear).
StreamsCurrent ==
  AtRest =>
    \A s \in Subscribers :
      /\ readers[s] # 0 /\ ~CutOff(s) => streamShown[s] \in {Unheld, Stream(s)}
      /\ Connected(s) /\ s \notin overtaken => readers[s] # 0

\* The per-subscriber contract of the thread-safe topic: when no call is under
\* way, a connected subscriber has a reader, without which read_stream is empty
\* whatever is published.  It does not hold: the disconnect of an ephemeral
\* subscription commits, another thread subscribes the same id and finds the old
\* reader in the map, and the disconnect then takes that reader out.
SubscribersHear ==
  AtRest => \A s \in Subscribers : Connected(s) => readers[s] # 0

\* gc is safe for every subscriber: what a connected one has not read is in
\* the log.
GcSafe ==
  \A s \in DOMAIN subscriptions :
    subscriptions[s].connected => subscriptions[s].cursor \in base_offset .. tail

=============================================================================
