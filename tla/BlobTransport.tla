--------------------------- MODULE BlobTransport ---------------------------
(***************************************************************************)
(* Large payloads travel as descriptors: spill moves every payload of a    *)
(* message that reaches the threshold into a blob backend, the receiver    *)
(* resolves the descriptor through a router of backends.  InProcessBackend *)
(* wraps ShmBlobArena, one address space; ShmBackend is a shared region    *)
(* that several processes allocate from with atomic additions.  A payload  *)
(* is its name, with a length and a checksum that another may share.       *)
(***************************************************************************)
EXTENDS Integers, Sequences, FiniteSets

CONSTANTS
  LocalSenders,    \* what spills to the arena; its users take turns
  ShmSenders,      \* the processes that spill to the region
  PayloadLen,      \* payload -> bytes
  PayloadSum,      \* payload -> fnv1a
  BlobMessages,    \* the messages: sequences of payloads, one per site
  threshold,
  header_bytes,    \* sizeof(Header)
  slot_bytes,      \* sizeof(SlotHeader)
  region_capacity,
  MaxBlobEpoch,    \* bound on advance_epoch
  MaxArenaWrites,  \* bound on the messages spilled to the arena
  NoView,          \* a descriptor that does not resolve
  Moved            \* the payload of a site whose bytes were moved out

Senders == LocalSenders \cup ShmSenders
BlobPayloads == DOMAIN PayloadLen
BlobKinds == {"InProcess", "Shm"}

ASSUME BlobAssumption ==
  /\ PayloadLen \in [BlobPayloads -> Nat] /\ BlobMessages \subseteq Seq(BlobPayloads)
  /\ threshold \in Nat /\ header_bytes \in Nat /\ slot_bytes \in Nat \ {0}
  /\ region_capacity \in Nat /\ header_bytes <= region_capacity
  /\ NoView \notin BlobPayloads /\ Moved \notin BlobPayloads

VARIABLES
  arena,       \* ShmBlobArena: epoch, generation, entries
  region,      \* the mapped region: bump, generation, epoch, slots by offset
  spills,      \* sender -> the spill it is in: message, sites, site, pc, off, gen
  messages,    \* messages that spill has returned from, or thrown out of
  registered   \* the kinds the receiver's router knows

blobVars == <<arena, region, spills, messages, registered>>

Inline(p) == [at |-> "inline", payload |-> p]
Shared(ref) == [at |-> "blob", ref |-> ref]
NoSpill == [message |-> <<>>, sites |-> <<>>, site |-> 1, pc |-> "idle", off |-> 0, gen |-> 0]

BlobInit ==
  /\ arena = [epoch |-> 0, generation |-> 0, entries |-> <<>>]
  /\ region = [bump |-> header_bytes, generation |-> 0, epoch |-> 0, slots |-> {}]
  /\ spills = [s \in Senders |-> NoSpill]
  /\ messages = {} /\ registered = {}

-----------------------------------------------------------------------------
(* spill: the sites of a message in order.                                 *)

\* A caller spills a message.  The two guards on the backends are bounds: the
\* code would go on, and throw at the first large payload of a full region.
BeginSpill(s, m) ==
  /\ spills[s].pc = "idle"
  /\ s \in LocalSenders => arena.generation < MaxArenaWrites
  /\ s \in ShmSenders => region.bump < region_capacity
  /\ spills' = [spills EXCEPT ![s] =
       [NoSpill EXCEPT !.message = m, !.sites = [i \in DOMAIN m |-> Inline(m[i])], !.pc = "site"]]
  /\ UNCHANGED <<arena, region, messages, registered>>

AtSite(s) == spills[s].pc = "site" /\ spills[s].site <= Len(spills[s].sites)
Payload(s) == spills[s].message[spills[s].site]
Large(s) == PayloadLen[Payload(s)] >= threshold

KeepInline(s) ==
  /\ AtSite(s) /\ ~Large(s)
  /\ spills' = [spills EXCEPT ![s].site = @ + 1]
  /\ UNCHANGED <<arena, region, messages, registered>>

Ref(kind, offset, payload, generation, epoch) ==
  [backend |-> kind, offset |-> offset, len |-> PayloadLen[payload],
   generation |-> generation, epoch |-> epoch, checksum |-> PayloadSum[payload]]

\* The site holds the descriptor now, and spill goes on behind it.
Replaced(spill, ref) ==
  [spill EXCEPT !.sites[spill.site] = Shared(ref), !.site = @ + 1, !.pc = "site"]

\* ShmBlobArena::write.
WriteArena(s) ==
  /\ AtSite(s) /\ Large(s) /\ s \in LocalSenders
  /\ LET generation == arena.generation + 1
         entry == [generation |-> generation, epoch |-> arena.epoch, payload |-> Payload(s)]
         ref == Ref("InProcess", Len(arena.entries), Payload(s), generation, arena.epoch)
     IN /\ arena' = [arena EXCEPT !.generation = generation, !.entries = Append(@, entry)]
        /\ spills' = [spills EXCEPT ![s] = Replaced(@, ref)]
  /\ UNCHANGED <<region, messages, registered>>

\* ShmBackend::write takes its bytes with one atomic addition.  The payload has
\* left the message by then, and a full region throws with it gone; the bytes
\* added stay taken.
BumpRegion(s) ==
  /\ AtSite(s) /\ Large(s) /\ s \in ShmSenders
  /\ LET need == slot_bytes + PayloadLen[Payload(s)]
     IN /\ region' = [region EXCEPT !.bump = @ + need]
        /\ spills' = [spills EXCEPT
             ![s].off = region.bump, ![s].sites[spills[s].site] = Inline(Moved),
             ![s].pc = IF region.bump + need > region_capacity THEN "threw" ELSE "bumped"]
  /\ UNCHANGED <<arena, messages, registered>>

NumberSlot(s) ==
  /\ spills[s].pc = "bumped"
  /\ region' = [region EXCEPT !.generation = @ + 1]
  /\ spills' = [spills EXCEPT ![s].gen = region.generation + 1, ![s].pc = "numbered"]
  /\ UNCHANGED <<arena, messages, registered>>

\* The epoch is loaded, the slot written and the descriptor returned.
FillSlot(s) ==
  /\ spills[s].pc = "numbered"
  /\ LET slot == [off |-> spills[s].off, generation |-> spills[s].gen, payload |-> Payload(s)]
         ref == Ref("Shm", spills[s].off, Payload(s), spills[s].gen, region.epoch)
     IN /\ region' = [region EXCEPT !.slots = @ \cup {slot}]
        /\ spills' = [spills EXCEPT ![s] = Replaced(@, ref)]
  /\ UNCHANGED <<arena, messages, registered>>

\* spill returns, or its exception reaches the caller.
EndSpill(s) ==
  /\ \/ spills[s].pc = "site" /\ spills[s].site > Len(spills[s].sites)
     \/ spills[s].pc = "threw"
  /\ messages' = messages \cup
       {[message |-> spills[s].message, sites |-> spills[s].sites, threw |-> spills[s].pc = "threw"]}
  /\ spills' = [spills EXCEPT ![s] = NoSpill]
  /\ UNCHANGED <<arena, region, registered>>

\* advance_epoch of the arena stamps the entries anew, of the region only its header.
AdvanceArena ==
  /\ arena.epoch < MaxBlobEpoch
  /\ arena' = [arena EXCEPT !.epoch = @ + 1,
       !.entries = [i \in DOMAIN @ |-> [@[i] EXCEPT !.epoch = arena.epoch + 1]]]
  /\ UNCHANGED <<region, spills, messages, registered>>

AdvanceRegion ==
  /\ region.epoch < MaxBlobEpoch
  /\ region' = [region EXCEPT !.epoch = @ + 1]
  /\ UNCHANGED <<arena, spills, messages, registered>>

RegisterBackend(kind) ==
  /\ registered' = registered \cup {kind}
  /\ UNCHANGED <<arena, region, spills, messages>>

BlobNext ==
  \/ \E s \in Senders :
       \/ \E m \in BlobMessages : BeginSpill(s, m)
       \/ KeepInline(s) \/ WriteArena(s) \/ BumpRegion(s) \/ NumberSlot(s) \/ FillSlot(s)
       \/ EndSpill(s)
  \/ AdvanceArena \/ AdvanceRegion
  \/ \E kind \in BlobKinds \ registered : RegisterBackend(kind)

-----------------------------------------------------------------------------
(* Resolution.                                                             *)

\* Whether a stored payload is the one a descriptor describes.
Describes(ref, generation, payload) ==
  generation = ref.generation /\ PayloadLen[payload] = ref.len /\ PayloadSum[payload] = ref.checksum

ArenaView(ref) ==
  IF /\ ref.offset \in 0 .. Len(arena.entries) - 1
     /\ LET e == arena.entries[ref.offset + 1]
        IN e.epoch = ref.epoch /\ Describes(ref, e.generation, e.payload)
  THEN arena.entries[ref.offset + 1].payload ELSE NoView

\* An offset at which no slot starts lies in the header, whose magic number and
\* capacity are no generation of a descriptor.
RegionView(ref) ==
  LET found == {slot \in region.slots :
                  /\ slot.off = ref.offset /\ Describes(ref, slot.generation, slot.payload)
                  /\ region.epoch = ref.epoch
                  /\ slot.off + slot_bytes + PayloadLen[slot.payload] <= region_capacity}
  IN IF found = {} THEN NoView ELSE (CHOOSE slot \in found : TRUE).payload

\* BlobRouter::read_view.
RouterView(ref) ==
  IF ref.backend \notin registered THEN NoView
  ELSE IF ref.backend = "InProcess" THEN ArenaView(ref) ELSE RegionView(ref)

resolve(site) == IF site.at = "inline" THEN site.payload ELSE RouterView(site.ref)

-----------------------------------------------------------------------------
CurrentEpoch(kind) == IF kind = "InProcess" THEN arena.epoch ELSE region.epoch

\* The slots of the region lie inside it and apart, however the processes that
\* fill it interleave.
SlotsApart ==
  LET End(slot) == slot.off + slot_bytes + PayloadLen[slot.payload]
  IN /\ \A slot \in region.slots : slot.off >= header_bytes /\ End(slot) <= region_capacity
     /\ \A a, b \in region.slots : a # b => End(a) <= b.off \/ End(b) <= a.off

\* Every site of a spilled message resolves to the payload it held, or to
\* nothing: exactly when the backend is not registered or its epoch has moved
\* since.  A descriptor never resolves in the other backend, not even where
\* length and checksum are the same.  A spill that throws has lost the one
\* payload it was writing and kept the others.
BlobsResolve ==
  /\ SlotsApart
  /\ \A m \in messages :
       /\ Cardinality({i \in DOMAIN m.sites : m.sites[i] = Inline(Moved)}) = (IF m.threw THEN 1 ELSE 0)
       /\ \A i \in DOMAIN m.sites :
            LET site == m.sites[i]
            IN IF site.at = "inline" THEN site.payload \in {m.message[i], Moved}
               ELSE /\ resolve(site) =
                         IF /\ site.ref.backend \in registered
                            /\ site.ref.epoch = CurrentEpoch(site.ref.backend)
                         THEN m.message[i] ELSE NoView
                    /\ site.ref.backend = "Shm" => ArenaView(site.ref) = NoView
                    /\ site.ref.backend = "InProcess" => RegionView(site.ref) = NoView

=============================================================================
