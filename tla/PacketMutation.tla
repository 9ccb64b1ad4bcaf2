--------------------------- MODULE PacketMutation ---------------------------
(***************************************************************************)
(* One packet under its editors: the bytes as far as a parser reads them,  *)
(* the storage around them, the mutation journal, the parse cache and the  *)
(* software finalizer.                                                     *)
(*                                                                         *)
(* header is what the bytes at the front of the frame say, true or not;    *)
(* frame is how many bytes there are.  The two change independently: a     *)
(* resize moves the end of the frame and leaves the declared lengths, a    *)
(* write changes what is declared and leaves the frame.                    *)
(***************************************************************************)
EXTENDS Integers, JournalOutcome

CONSTANTS
  Storage,              \* bytes of the segment
  MaxLength,            \* maxInt(u16)
  MaxDelta,             \* maxInt(i32)
  HeaderLen,            \* smallest header of every layer
  Fixtures,             \* headers a packet is received with
  CallerHeaders         \* headers that bytes written by callers can spell

Network == {"ipv4", "ipv6"}

Checksummed == {"tcp", "udp"}

Transport == Checksummed \cup {"icmp"}

ASSUME PacketMutationAssumption ==
  /\ Storage \in Nat
  /\ MaxLength \in Nat
  /\ MaxDelta \in Nat
  /\ HeaderLen \in [{"ethernet"} \cup Network \cup Transport -> Nat \ {0}]

(* What an IPv6 payload length of 16 bits and its header come to.          *)
MaxDeclared == MaxLength + HeaderLen["ipv6"]

(* udpLen, ipSum and l4Sum count only where the protocols have them.       *)
Header == [network : Network \cup {"none"},
           netLen : 0 .. MaxDeclared,           \* declared, header included
           fragment : {"whole", "first", "later"},
           transport : Transport,
           udpLen : 0 .. MaxLength,
           ipSum : BOOLEAN,                     \* header checksum is right
           l4Sum : {"right", "wrong", "zero"}]

ASSUME HeadersAssumption ==
  /\ Fixtures \subseteq Header
  /\ CallerHeaders \subseteq Header
  /\ \A h \in Fixtures \cup CallerHeaders :
       /\ h.network = "ipv4" => h.netLen <= MaxLength
       /\ h.network = "ipv6" => HeaderLen["ipv6"] <= h.netLen

VARIABLES
  header,
  frame,                \* total_len
  headroom,             \* the rest of the storage is tailroom
  layout,               \* the segments of the packet
  journal,              \* MutationJournal
  cache,                \* parse_cache entry, empty or one
  start,                \* history: frame length at begin
  history               \* history: what has been done to the packet

vars == <<header, frame, headroom, layout, journal, cache, start, history>>

(* linear: one segment that may be resized; segmented: every segment       *)
(* writable, none resizable; mixed: some segments read-only.               *)
Layout == {"linear", "segmented", "mixed"}

ParsedPacket == [network : Network \cup {"none"}, netLen : 0 .. MaxDeclared,
                 fragment : {"whole", "first", "later"},
                 transport : Transport \cup {"none"}, udpLen : 0 .. MaxLength]

ParserConfig == {"default", "strict"}

Delta == -(MaxDelta + 1) .. MaxDelta

MutationJournal == [
  dirty : BOOLEAN,              \* needsFinalize
  delta : Delta,                \* signed_length_delta
  tailDelta : Delta,            \* tail_length_delta
  ipDue : BOOLEAN,              \* checksums.ipv4_header
  l4Due : BOOLEAN,              \* checksums.transport
  base : SUBSET ParsedPacket,   \* pre_tail_resize_parsed, if there is one
  baseFrame : 0 .. Storage,     \* pre_tail_resize_frame_len
  failed : BOOLEAN,             \* invalid, edit_failed
  finalized : BOOLEAN]

Fresh == [dirty |-> FALSE, delta |-> 0, tailDelta |-> 0, ipDue |-> FALSE,
          l4Due |-> FALSE, base |-> {}, baseFrame |-> 0, failed |-> FALSE,
          finalized |-> TRUE]

(* head: the front of the frame was resized; disturbed: the bytes that     *)
(* the snapshot was parsed from may have changed after it was taken;       *)
(* sealed: finalized since the first tail resize; resumed: the tail was    *)
(* resized again after that.                                               *)
Mark == {"head", "disturbed", "sealed", "resumed"}

TypeOK ==
  /\ header \in Header
  /\ frame \in 0 .. Storage
  /\ headroom \in 0 .. Storage - frame
  /\ layout \in Layout
  /\ journal \in MutationJournal
  /\ \A p, q \in journal.base : p = q
  /\ cache \subseteq [config : ParserConfig, parsed : ParsedPacket]
  /\ \A c, d \in cache : c = d
  /\ start \in 0 .. Storage
  /\ history \subseteq Mark

-----------------------------------------------------------------------------
(* Parsing. *)

NetworkEnd(p) == HeaderLen["ethernet"] + p.netLen

PayloadLen(p) == p.netLen - HeaderLen[p.network]

NetworkPresent(h, length) ==
  /\ h.network # "none"
  /\ HeaderLen[h.network] <= h.netLen
  /\ NetworkEnd(h) <= length

(* A UDP length may exceed what a first fragment holds.  The extension     *)
(* headers of an IPv6 packet are more than the strict limits admit.        *)
TransportPresent(h, config) ==
  /\ h.fragment # "later"
  /\ HeaderLen[h.transport] <= PayloadLen(h)
  /\ h.transport = "udp" =>
       /\ HeaderLen["udp"] <= h.udpLen
       /\ h.udpLen <= PayloadLen(h) \/ h.fragment = "first"
  /\ ~ (h.network = "ipv6" /\ config = "strict")

(* parseSlot: what is present of a frame of some length. *)
Parse(h, length, config) ==
  LET network == NetworkPresent(h, length)
      transport == network /\ TransportPresent(h, config)
  IN  [network   |-> IF network THEN h.network ELSE "none",
       netLen    |-> IF network THEN h.netLen ELSE 0,
       fragment  |-> IF network THEN h.fragment ELSE "whole",
       transport |-> IF transport THEN h.transport ELSE "none",
       udpLen    |-> IF transport /\ h.transport = "udp" THEN h.udpLen ELSE 0]

(* PacketView.parse: the cache if it was made with this configuration.     *)
Parsed(config) ==
  IF \E c \in cache : c.config = config
    THEN (CHOOSE c \in cache : TRUE).parsed
    ELSE Parse(header, frame, config)

Cached(config) == {[config |-> config, parsed |-> Parsed(config)]}

(* currentParsed *)
CurrentParsed == Parsed("default")

-----------------------------------------------------------------------------
Init ==
  /\ header \in Fixtures
  /\ frame \in 0 .. Storage
  /\ headroom \in 0 .. Storage - frame
  /\ layout \in Layout
  /\ journal = Fresh
  /\ cache = {}
  /\ start = frame
  /\ history = {}

(* A processor parses the packet. *)
ParseView(config) ==
  /\ cache' = Cached(config)
  /\ UNCHANGED <<header, frame, headroom, layout, journal, start, history>>

Failed(j) == [j EXCEPT !.failed = TRUE, !.finalized = FALSE]

(* Deviation: a successful edit clears an earlier failure. *)
Recorded_ClearsFailure(j, ip, l4) ==
  [j EXCEPT !.dirty = TRUE, !.ipDue = @ \/ ip, !.l4Due = @ \/ l4,
            !.finalized = FALSE, !.failed = FALSE]

(* recordMutation *)
Recorded(j, ip, l4) ==
  [j EXCEPT !.dirty = TRUE, !.ipDue = @ \/ ip, !.l4Due = @ \/ l4,
            !.finalized = FALSE]

(* An edit fails a check before its first change: the protocol it needs is *)
(* not there, a range is out of bounds, a segment read-only, no room left, *)
(* an invalidation undeclared.  A raw write out of bounds always can.      *)
EditFails ==
  /\ journal' = Failed(journal)
  /\ cache' \in {cache, Cached("default")}
  /\ UNCHANGED <<header, frame, headroom, layout, start, history>>

-----------------------------------------------------------------------------
(* Edits of the same length. *)

Spoiled(sum) == IF sum = "zero" THEN "zero" ELSE "wrong"

(* Deviation: the parse made before a write is kept. *)
Write_KeepsCache(h, ip, l4) ==
  /\ header' = h
  /\ journal' = Recorded(journal, ip, l4)
  /\ UNCHANGED <<cache, frame, headroom, layout, start>>

(* checkedWrite of bytes that make the header h, then recordMutation. *)
Write(h, ip, l4) ==
  /\ header' = h
  /\ journal' = Recorded(journal, ip, l4)
  /\ cache' = {}
  /\ UNCHANGED <<frame, headroom, layout, start>>

(* setEthernetSource, setEthernetDestination *)
EditEthernet ==
  /\ HeaderLen["ethernet"] <= frame
  /\ Write(header, FALSE, FALSE)
  /\ UNCHANGED history

(* setIpv4Dscp, setIpv4Ttl, setIpv6TrafficClass, setIpv6HopLimit *)
EditNetworkField ==
  /\ CurrentParsed.network # "none"
  /\ IF CurrentParsed.network = "ipv4"
       THEN Write([header EXCEPT !.ipSum = FALSE], TRUE, FALSE)
       ELSE Write(header, FALSE, FALSE)
  /\ UNCHANGED history

(* The source and destination addresses, which the transport checksum      *)
(* covers too.                                                             *)
EditAddress ==
  /\ CurrentParsed.network # "none"
  /\ Write([header EXCEPT !.ipSum = @ /\ CurrentParsed.network # "ipv4",
                          !.l4Sum = Spoiled(@)],
           CurrentParsed.network = "ipv4", TRUE)
  /\ UNCHANGED history

(* setTcpFlags and the ports *)
EditTransportField ==
  /\ CurrentParsed.fragment = "whole"
  /\ CurrentParsed.transport \in Checksummed
  /\ Write([header EXCEPT !.l4Sum = Spoiled(@)], FALSE, TRUE)
  /\ UNCHANGED history

(* What was done to bytes a snapshot was parsed from. *)
Disturbance == IF journal.base # {} THEN {"disturbed"} ELSE {}

(* RawPacketEditor.write: whatever the caller likes, with the layers it    *)
(* declares invalid, all of them if it asks for full validation.           *)
RawWrite(h, layers) ==
  /\ layers # {}
  /\ Write(h, "l3" \in layers, layers \cap {"l3", "l4"} # {})
  /\ history' = history \cup Disturbance

-----------------------------------------------------------------------------
(* Edits that change the length. *)

HeaderBytes(h) ==
  IF h.network = "none"
    THEN HeaderLen["ethernet"]
    ELSE HeaderLen["ethernet"] + HeaderLen[h.network] + HeaderLen[h.transport]

(* Deviation: every tail operation takes a new snapshot. *)
Snapshot_Always(j) ==
  [j EXCEPT !.base = {CurrentParsed}, !.baseFrame = frame]

(* The parse and the length before the first tail operation. *)
Snapshot(j) ==
  IF j.base # {} THEN j
  ELSE [j EXCEPT !.base = {CurrentParsed}, !.baseFrame = frame]

(* The journal of a resize by n bytes. *)
Resized(j, n, tail) ==
  Recorded([j EXCEPT !.delta = @ + n, !.tailDelta = IF tail THEN @ + n ELSE @],
           TRUE, TRUE)

(* checkedLengthDelta of both deltas; tail implies its own. *)
DeltaInRange(n, tail) ==
  /\ journal.delta + n \in Delta
  /\ tail => journal.tailDelta + n \in Delta

(* prepend: n bytes of the caller's in front.                              *)
Prepend(n) ==
  /\ layout = "linear"
  /\ n <= headroom
  /\ DeltaInRange(n, FALSE)
  /\ frame' = frame + n
  /\ headroom' = headroom - n
  /\ header' \in IF n = 0 THEN {header} ELSE CallerHeaders
  /\ journal' = Resized(journal, n, FALSE)
  /\ cache' = {}
  /\ history' = history \cup {"head"} \cup Disturbance
  /\ UNCHANGED <<layout, start>>

(* trimHead: what follows is in front now. *)
TrimHead(n) ==
  /\ layout = "linear"
  /\ n <= frame
  /\ DeltaInRange(-n, FALSE)
  /\ frame' = frame - n
  /\ headroom' = headroom + n
  /\ header' \in IF n = 0 THEN {header} ELSE CallerHeaders
  /\ journal' = Resized(journal, -n, FALSE)
  /\ cache' = {}
  /\ history' = history \cup {"head"} \cup Disturbance
  /\ UNCHANGED <<layout, start>>

(* The tail is resized after a finalizer has dealt with earlier resizes. *)
Resumption == IF "sealed" \in history THEN {"resumed"} ELSE {}

(* append: n bytes of the caller's at the end, which may supply what the   *)
(* headers lacked.                                                         *)
Append(n) ==
  /\ layout = "linear"
  /\ headroom + frame + n <= Storage
  /\ DeltaInRange(n, TRUE)
  /\ frame' = frame + n
  /\ IF n = 0 \/ HeaderBytes(header) <= frame
       THEN /\ header' = [header EXCEPT !.l4Sum = Spoiled(@)]
            /\ history' = history \cup Resumption
       ELSE /\ header' \in CallerHeaders
            /\ history' = history \cup Resumption \cup {"disturbed"}
  /\ journal' = Resized(Snapshot(journal), n, TRUE)
  /\ cache' = {}
  /\ UNCHANGED <<headroom, layout, start>>

(* trimTail *)
TrimTail(n) ==
  /\ layout = "linear"
  /\ n <= frame
  /\ DeltaInRange(-n, TRUE)
  /\ frame' = frame - n
  /\ header' = [header EXCEPT !.l4Sum = Spoiled(@)]
  /\ journal' = Resized(Snapshot(journal), -n, TRUE)
  /\ cache' = {}
  /\ history' = history \cup Resumption
  /\ UNCHANGED <<headroom, layout, start>>

-----------------------------------------------------------------------------
(* The finalizer. *)

(* Deviation: the finalizer always parses the packet as it is. *)
Base_Current == CurrentParsed

(* The parse it goes by, and the length of the frame that was parsed. *)
Base == IF journal.tailDelta = 0 THEN CurrentParsed
                                 ELSE CHOOSE p \in journal.base : TRUE

BaseFrame == IF journal.tailDelta = 0 THEN frame ELSE journal.baseFrame

TransportStart(p) == HeaderLen["ethernet"] + HeaderLen[p.network]

TransportLen(p) ==
  CASE p.transport = "udp" -> p.udpLen
    [] p.transport = "tcp" -> PayloadLen(p)
    [] OTHER -> 0

(* declaredProtocolExtents *)
DeclaredExtentsFit(p, length) ==
  /\ p.network # "none"
  /\ NetworkEnd(p) <= length
  /\ p.transport \in Checksummed =>
       TransportStart(p) + TransportLen(p) <= NetworkEnd(p)

(* Deviation: padding grows into the packet. *)
ResizedEnd_IgnoresPadding(p, end) ==
  IF journal.tailDelta > 0 /\ end = NetworkEnd(p) THEN frame
  ELSE IF journal.tailDelta < 0 /\ frame < end THEN frame ELSE end

(* Where an extent of p that ended at end ends now: the one that reached   *)
(* the end of the frame grows with it, all of them shrink with it, and     *)
(* padding after the packet is not part of it.                             *)
ResizedEnd(p, end) ==
  CASE journal.tailDelta > 0 /\ end = NetworkEnd(p) /\ end = BaseFrame -> frame
    [] journal.tailDelta < 0 /\ frame < end -> frame
    [] OTHER -> end

(* tailResizedProtocolExtents *)
NewNetLen == ResizedEnd(Base, NetworkEnd(Base)) - HeaderLen["ethernet"]

NewTransportLen ==
  IF Base.transport \notin Checksummed THEN 0
  ELSE ResizedEnd(Base, TransportStart(Base) + TransportLen(Base))
         - TransportStart(Base)

NetLenChanged == NewNetLen # Base.netLen

TransportLenChanged == NewTransportLen # TransportLen(Base)

(* Every check before the first write. *)
Finalizable ==
  /\ journal.tailDelta # 0 => journal.base # {} /\ journal.tailDelta = journal.delta
  /\ DeclaredExtentsFit(Base, BaseFrame)
  /\ BaseFrame + journal.tailDelta = frame
  /\ journal.l4Due => /\ Base.fragment = "whole"
                      /\ Base.transport \in Checksummed
  /\ HeaderLen[Base.network] <= NewNetLen
  /\ Base.transport \in Checksummed => HeaderLen[Base.transport] <= NewTransportLen
  /\ NewNetLen <= MaxLength

IpSumComputed == Base.network = "ipv4" /\ (journal.ipDue \/ NetLenChanged)

(* Deviation: the transport checksum is computed for a new length only. *)
L4SumComputed_OnLength ==
  Base.transport \in Checksummed /\ TransportLenChanged

L4SumComputed ==
  /\ Base.transport \in Checksummed
  /\ \/ journal.l4Due
     \/ TransportLenChanged
     \/ Base.network = "ipv6" /\ Base.transport = "udp"

(* The headers are where the parse says they are. *)
HeadersInPlace ==
  /\ header.network = Base.network
  /\ Base.transport # "none" => header.transport = Base.transport

(* The header while the writes of the fields in W stand and every other    *)
(* byte is as it was before the finalizer.  A checksum is right over the   *)
(* lengths it was made for: both are computed over the new ones, whether   *)
(* or not these are written.                                               *)
Patched(W) ==
  LET lengths == [header EXCEPT
        !.netLen = IF "netLen" \in W THEN NewNetLen ELSE @,
        !.udpLen = IF "udpLen" \in W THEN NewTransportLen ELSE @]
  IN  [lengths EXCEPT
        !.ipSum = IF "ipSum" \in W THEN lengths.netLen = NewNetLen
                                   ELSE @ /\ lengths.netLen = header.netLen,
        !.l4Sum = IF "l4Sum" \in W
                    THEN IF TransportLen(lengths) = NewTransportLen
                           THEN "right" ELSE "wrong"
                    ELSE IF TransportLen(lengths) = TransportLen(header)
                           THEN @ ELSE Spoiled(@)]

(* The header once the writes in W stand.  At places that are no longer    *)
(* these headers they may make anything of what is there now: more than    *)
(* they can, which only the properties that hold are checked under.        *)
Standing(W) ==
  IF HeadersInPlace THEN {Patched(W)}
  ELSE IF W = {} THEN {header} ELSE CallerHeaders \cup {header}

(* prepareHeaderWrite: what is written, with the bytes there before.       *)
Pending ==
  {field \in {"netLen", "udpLen", "ipSum", "l4Sum"} :
     \/ field = "netLen" /\ NetLenChanged
     \/ field = "udpLen" /\ Base.transport = "udp" /\ TransportLenChanged
     \/ field = "ipSum" /\ IpSumComputed
     \/ field = "l4Sum" /\ L4SumComputed}

Outcomes == Standing(Pending)

(* Deviation: the lengths are not among the writes that are undone. *)
Restored_Checksums == Pending \cap {"ipSum", "l4Sum"}

(* restoreHeaderWrites: the writes whose bytes are put back. *)
Restored == Pending

(* The reparse finds what was there, and no IPv6 UDP zero checksum. *)
Accepted(h) ==
  LET p == Parse(h, frame, "default")
  IN  /\ p.network # "none"
      /\ Base.transport # "none" => p.transport # "none"
      /\ ~ (p.network = "ipv6" /\ p.transport = "udp" /\ h.l4Sum = "zero")

(* finalizeContext fails before its first write; it has parsed the packet  *)
(* unless it goes by the snapshot.  A failed journal is left alone, and so *)
(* is one with nothing recorded.                                           *)
FinalizeRefused ==
  /\ journal.dirty /\ ~ journal.failed
  /\ \/ ~ Finalizable
     \/ layout = "mixed" /\ Pending # {}
  /\ journal' = Failed(journal)
  /\ cache' = IF journal.tailDelta = 0 THEN Cached("default") ELSE cache
  /\ UNCHANGED <<header, frame, headroom, layout, start, history>>

(* The writes are made, the reparse fails, and the writes are undone.      *)
FinalizeRolledBack ==
  /\ journal.dirty /\ ~ journal.failed
  /\ Finalizable
  /\ \E h \in Outcomes : ~ Accepted(h)
  /\ header' \in Standing(Pending \ Restored)
  /\ journal' = Failed(journal)
  /\ cache' = {}
  /\ UNCHANGED <<frame, headroom, layout, start, history>>

FinalizeDone ==
  /\ journal.dirty /\ ~ journal.failed
  /\ Finalizable
  /\ header' \in {h \in Outcomes : Accepted(h)}
  /\ journal' = [journal EXCEPT !.finalized = TRUE]
  /\ cache' = {[config |-> "default", parsed |-> Parse(header', frame, "default")]}
  /\ history' = history \cup IF journal.base # {} THEN {"sealed"} ELSE {}
  /\ UNCHANGED <<frame, headroom, layout, start>>

Next ==
  \/ \E config \in ParserConfig : ParseView(config)
  \/ EditFails
  \/ EditEthernet
  \/ EditNetworkField
  \/ EditAddress
  \/ EditTransportField
  \/ \E h \in CallerHeaders \cup {[header EXCEPT !.l4Sum = Spoiled(@)]} :
       \E layers \in SUBSET {"l2", "l3", "l4"} : RawWrite(h, layers)
  \/ \E n \in 0 .. Storage : Prepend(n) \/ TrimHead(n) \/ Append(n) \/ TrimTail(n)
  \/ FinalizeRefused
  \/ FinalizeRolledBack
  \/ FinalizeDone

Spec == Init /\ [][Next]_vars

-----------------------------------------------------------------------------
(***************************************************************************)
(* Safety.                                                                 *)
(***************************************************************************)

(* validateForOutput would let the edited packet out, but for the checksum *)
(* it looks at.                                                            *)
Ready == journal.dirty /\ journal.finalized /\ ~ journal.failed

(* An edited packet that may leave parses: the lengths it declares fit the *)
(* bytes it has, whatever was written and cut off on the way.              *)
ReadyPacketsParse ==
  Ready =>
    /\ NetworkPresent(header, frame)
    /\ (/\ header.network = "ipv6"
        /\ header.transport = "udp"
        /\ TransportPresent(header, "default")) => header.l4Sum # "zero"

(* INV-PKT-005: a packet that may leave is consistent in itself, as far as *)
(* edits touched it: its lengths fit and the checksums that depended on an *)
(* edit are right.                                                         *)
Consistent ==
  /\ NetworkPresent(header, frame)
  /\ (journal.ipDue /\ header.network = "ipv4") => header.ipSum
  /\ (journal.l4Due /\ header.transport \in Checksummed) => header.l4Sum = "right"

(* It parses in any case.  It is consistent while the snapshot is a parse  *)
(* of the bytes the finalizer writes over: nothing came between a tail     *)
(* resize and its finalizer that moved the headers, and no finalizer       *)
(* between two tail resizes.                                               *)
ReadyPacketsConsistent ==
  /\ ReadyPacketsParse
  /\ (Ready /\ history \cap {"disturbed", "resumed"} = {}) => Consistent

(* planning/specification/l4-protection-framework-technical-plan/          *)
(* 01-architecture/invariants.md:11: "Finalized output headers/length/     *)
(* checksum metadata are internally consistent".  Here the packet may be   *)
(* finalized between two tail resizes, as one processor after another      *)
(* may; every edit is a structured one.                                    *)
FinalizedOutputConsistent ==
  (Ready /\ "disturbed" \notin history) => Consistent

(* The journal's deltas and the frame tell one story, across failures and  *)
(* finalizers: the frame is as long as it was at begin plus every resize   *)
(* that took place, and the tail's share is no more than what happened     *)
(* since the snapshot.                                                     *)
DeltasAccountForFrame ==
  /\ frame = start + journal.delta
  /\ journal.base = {} => journal.tailDelta = 0
  /\ (journal.base # {} /\ "head" \notin history) =>
       frame = journal.baseFrame + journal.tailDelta

(* After tail resizes, the packet ends where it should: with the frame if  *)
(* it did before, else where it ended, unless that was cut off; padding    *)
(* never becomes part of it.                                               *)
LengthsFollowTailResizes ==
  (Ready /\ history \cap {"head", "disturbed", "resumed"} = {}) =>
    \A p \in journal.base :
      NetworkEnd(header) =
        IF NetworkEnd(p) = journal.baseFrame \/ frame < NetworkEnd(p)
          THEN frame
          ELSE NetworkEnd(p)

(* A whole TCP or UDP packet under structured edits: the headers are all   *)
(* still there and the length can be declared.                             *)
LegallyEdited ==
  LET p == IF journal.base # {} THEN CHOOSE q \in journal.base : TRUE
                                ELSE Parse(header, frame, "default")
  IN  /\ journal.dirty /\ ~ journal.failed /\ layout # "mixed"
      /\ history \cap {"head", "disturbed"} = {}
      /\ p.network # "none" /\ p.fragment = "whole" /\ p.transport \in Checksummed
      /\ HeaderBytes(p) <= frame /\ frame <= HeaderLen["ethernet"] + MaxLength

FinalizeSucceeds == Finalizable /\ \A h \in Outcomes : Accepted(h)

(* Legal edits do not make a packet that can never be finalized: field     *)
(* writes in any number and order, and tail resizes up to the first        *)
(* finalizer.                                                              *)
LegalEditsFinalize ==
  (LegallyEdited /\ "resumed" \notin history) => FinalizeSucceeds

(* evidence/m2/REVIEW.md:264: "supported payload shortening uses           *)
(* pre-resize/journal metadata to derive new legal extents".  The same     *)
(* without a limit on when the payload is resized.                         *)
PayloadResizingFinalizes == LegallyEdited => FinalizeSucceeds

(* A finalizer that has written lengths and checksums and then finds the   *)
(* packet unusable leaves every byte as it was, whichever of the four it   *)
(* wrote and wherever they fell; so does every refusal before that.        *)
FailureChangesNothing ==
  [][(journal'.failed /\ ~ journal.failed) =>
       UNCHANGED <<header, frame, headroom>>]_vars

(* "Each successful edit invalidates the cache": whoever parses next, with *)
(* whatever limits, reads the packet as it is.                             *)
CacheIsCurrent ==
  \A c \in cache : c.parsed = Parse(header, frame, c.config)

(* What BatchOwner keeps of the journal. *)
Outcome ==
  CASE journal.failed -> "failed"
    [] ~ journal.failed /\ ~ journal.dirty -> "clean"
    [] ~ journal.failed /\ journal.dirty /\ journal.finalized -> "finalized"
    [] OTHER -> "unfinalized"

(* Every step moves the journal as BatchOwner assumes: in particular a     *)
(* failure is for ever, and nothing but a finalizer makes an edited packet *)
(* fit for output.                                                         *)
JournalAsOwnerAssumes ==
  [][/\ Outcome' \in {Outcome} \cup Written(Outcome) \cup Finalized(Outcome)
     /\ (Outcome' = "finalized" /\ Outcome # "finalized") =>
          Outcome = "unfinalized" /\ UNCHANGED frame]_vars
=============================================================================
