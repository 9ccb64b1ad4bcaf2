----------------------- MODULE PacketMutation_proofs -----------------------
(***************************************************************************)
(* Theorems about PacketMutation: the journal and the parse cache of a     *)
(* packet under any edits, for every storage size and every width of the   *)
(* length deltas.                                                          *)
(***************************************************************************)
EXTENDS PacketMutation, TLAPS

-----------------------------------------------------------------------------
(* Types. *)

(* A packet's length that IPv4 can declare is one that IPv6 can.           *)
LEMMA MaxDeclaredType == MaxDeclared \in Nat /\ 0 .. MaxLength \subseteq 0 .. MaxDeclared
<1>1. HeaderLen["ipv6"] \in Nat /\ MaxLength \in Nat
  BY PacketMutationAssumption DEF Network
<1>2. QED
  BY <1>1 DEF MaxDeclared

LEMMA ParseType ==
  ASSUME NEW h \in Header, NEW length, NEW config
  PROVE  Parse(h, length, config) \in ParsedPacket
<1>1. /\ h.network \in Network \cup {"none"} /\ h.netLen \in 0 .. MaxDeclared
      /\ h.fragment \in {"whole", "first", "later"}
      /\ h.transport \in Transport /\ h.udpLen \in 0 .. MaxLength
  BY DEF Header
<1>2. 0 \in 0 .. MaxLength /\ 0 \in 0 .. MaxDeclared
  BY MaxDeclaredType, PacketMutationAssumption
<1>3. QED
  BY <1>1, <1>2 DEF Parse, ParsedPacket

(* Whoever parses gets a parsed packet, from the cache or not. *)
LEMMA ParsedType ==
  ASSUME TypeOK, NEW config
  PROVE  Parsed(config) \in ParsedPacket
<1>1. CASE \E c \in cache : c.config = config
  <2>1. (CHOOSE c \in cache : TRUE) \in cache
    BY <1>1
  <2>2. QED
    BY <1>1, <2>1 DEF Parsed, TypeOK
<1>2. CASE ~ \E c \in cache : c.config = config
  BY <1>2, ParseType DEF Parsed, TypeOK
<1>3. QED
  BY <1>1, <1>2

(* Its record is a cache of at most one entry. *)
LEMMA CachedType ==
  ASSUME TypeOK, NEW config \in ParserConfig
  PROVE  /\ Cached(config) \subseteq [config : ParserConfig, parsed : ParsedPacket]
         /\ \A c, d \in Cached(config) : c = d
  BY ParsedType DEF Cached

LEMMA FailedType ==
  ASSUME NEW j \in MutationJournal
  PROVE  /\ Failed(j) \in MutationJournal
         /\ Failed(j).base = j.base
         /\ Failed(j).failed
         /\ Failed(j).delta = j.delta /\ Failed(j).tailDelta = j.tailDelta
         /\ Failed(j).baseFrame = j.baseFrame
  BY DEF Failed, MutationJournal

LEMMA RecordedType ==
  ASSUME NEW j \in MutationJournal, NEW ip \in BOOLEAN, NEW l4 \in BOOLEAN
  PROVE  /\ Recorded(j, ip, l4) \in MutationJournal
         /\ Recorded(j, ip, l4).base = j.base
         /\ Recorded(j, ip, l4).failed = j.failed
         /\ Recorded(j, ip, l4).dirty /\ ~ Recorded(j, ip, l4).finalized
         /\ Recorded(j, ip, l4).delta = j.delta
         /\ Recorded(j, ip, l4).tailDelta = j.tailDelta
         /\ Recorded(j, ip, l4).baseFrame = j.baseFrame
  BY DEF Recorded, MutationJournal

LEMMA ResizedType ==
  ASSUME NEW j \in MutationJournal, NEW n \in Int, NEW tail \in BOOLEAN,
         j.delta + n \in Delta, tail => j.tailDelta + n \in Delta
  PROVE  /\ Resized(j, n, tail) \in MutationJournal
         /\ Resized(j, n, tail).base = j.base
         /\ Resized(j, n, tail).failed = j.failed
         /\ Resized(j, n, tail).dirty /\ ~ Resized(j, n, tail).finalized
         /\ Resized(j, n, tail).delta = j.delta + n
         /\ Resized(j, n, tail).tailDelta = IF tail THEN j.tailDelta + n ELSE j.tailDelta
         /\ Resized(j, n, tail).baseFrame = j.baseFrame
<1> DEFINE tailDelta == IF tail THEN j.tailDelta + n ELSE j.tailDelta
           k == [j EXCEPT !.delta = j.delta + n, !.tailDelta = tailDelta]
<1>0. j.tailDelta \in Delta
  BY DEF MutationJournal
<1>1. tailDelta \in Delta
  BY <1>0
<1>2. k \in MutationJournal /\ k.base = j.base /\ k.failed = j.failed
      /\ k.delta = j.delta + n /\ k.tailDelta = tailDelta /\ k.baseFrame = j.baseFrame
  BY <1>1 DEF MutationJournal
<1>3. Resized(j, n, tail) = Recorded(k, TRUE, TRUE)
  BY DEF Resized
<1> HIDE DEF k
<1>4. /\ Recorded(k, TRUE, TRUE) \in MutationJournal
      /\ Recorded(k, TRUE, TRUE).base = k.base
      /\ Recorded(k, TRUE, TRUE).failed = k.failed
      /\ Recorded(k, TRUE, TRUE).dirty /\ ~ Recorded(k, TRUE, TRUE).finalized
      /\ Recorded(k, TRUE, TRUE).delta = k.delta
      /\ Recorded(k, TRUE, TRUE).tailDelta = k.tailDelta
      /\ Recorded(k, TRUE, TRUE).baseFrame = k.baseFrame
  BY <1>2, RecordedType
<1>5. QED
  BY <1>2, <1>3, <1>4

LEMMA SnapshotType ==
  ASSUME TypeOK
  PROVE  /\ Snapshot(journal) \in MutationJournal
         /\ Snapshot(journal).base # {}
         /\ \A p, q \in Snapshot(journal).base : p = q
         /\ Snapshot(journal).failed = journal.failed
         /\ Snapshot(journal).delta = journal.delta
         /\ Snapshot(journal).tailDelta = journal.tailDelta
         /\ Snapshot(journal).baseFrame =
              IF journal.base # {} THEN journal.baseFrame ELSE frame
<1>1. CurrentParsed \in ParsedPacket
  BY ParsedType DEF CurrentParsed
<1>2. journal \in MutationJournal /\ frame \in 0 .. Storage
  BY DEF TypeOK
<1>3. CASE journal.base # {}
  BY <1>2, <1>3 DEF Snapshot, TypeOK
<1>4. CASE journal.base = {}
  <2>1. {CurrentParsed} \in SUBSET ParsedPacket
    BY <1>1
  <2>2. Snapshot(journal) = [journal EXCEPT !.base = {CurrentParsed}, !.baseFrame = frame]
    BY <1>4 DEF Snapshot
  <2>3. QED
    BY <1>2, <1>4, <2>1, <2>2 DEF MutationJournal
<1>5. QED
  BY <1>3, <1>4

-----------------------------------------------------------------------------
(* What the finalizer writes are headers again: the new lengths are within *)
(* the width of their fields.                                              *)

LEMMA BaseType ==
  ASSUME TypeOK, Finalizable
  PROVE  Base \in ParsedPacket /\ BaseFrame \in 0 .. Storage
<1>1. CASE journal.tailDelta = 0
  BY <1>1, ParsedType DEF Base, BaseFrame, CurrentParsed, TypeOK
<1>2. CASE journal.tailDelta # 0
  <2>1. journal.base # {} /\ journal.base \subseteq ParsedPacket
    BY <1>2 DEF Finalizable, TypeOK, MutationJournal
  <2>2. (CHOOSE p \in journal.base : TRUE) \in journal.base
    BY <2>1
  <2>3. journal.baseFrame \in 0 .. Storage
    BY DEF TypeOK, MutationJournal
  <2>4. QED
    BY <1>2, <2>1, <2>2, <2>3 DEF Base, BaseFrame
<1>3. QED
  BY <1>1, <1>2

LEMMA HeaderLenType ==
  /\ HeaderLen["ethernet"] \in Nat \ {0}
  /\ \A protocol \in Network \cup Transport : HeaderLen[protocol] \in Nat \ {0}
  BY PacketMutationAssumption

(* An extent that was no longer than the packet is no longer than it now.  *)
LEMMA ResizedEndBounded ==
  ASSUME TypeOK, NEW p \in ParsedPacket, NEW end \in Int, BaseFrame \in Int,
         end <= NetworkEnd(p), BaseFrame + journal.tailDelta = frame
  PROVE  /\ ResizedEnd(p, end) \in Int
         /\ ResizedEnd(p, NetworkEnd(p)) \in Int
         /\ ResizedEnd(p, end) <= ResizedEnd(p, NetworkEnd(p))
<1>1. /\ frame \in Int /\ journal.tailDelta \in Int /\ NetworkEnd(p) \in Int
  BY HeaderLenType, PacketMutationAssumption
     DEF TypeOK, MutationJournal, Delta, NetworkEnd, ParsedPacket
<1>2. CASE journal.tailDelta > 0
  BY <1>1, <1>2 DEF ResizedEnd
<1>3. CASE ~ journal.tailDelta > 0
  BY <1>1, <1>3 DEF ResizedEnd
<1>4. QED
  BY <1>2, <1>3

LEMMA NewLengthsType ==
  ASSUME TypeOK, Finalizable
  PROVE  /\ NewNetLen \in 0 .. MaxLength
         /\ Base.transport = "udp" => NewTransportLen \in 0 .. MaxLength
<1>1. /\ Base \in ParsedPacket /\ BaseFrame \in Int
      /\ Base.network \in Network /\ Base.netLen \in Nat /\ Base.udpLen \in Nat
  BY BaseType, PacketMutationAssumption
     DEF Finalizable, DeclaredExtentsFit, ParsedPacket
<1>2. NetworkEnd(Base) \in Int /\ BaseFrame + journal.tailDelta = frame
  BY <1>1, HeaderLenType DEF NetworkEnd, Finalizable
<1>3. ResizedEnd(Base, NetworkEnd(Base)) \in Int
  BY <1>1, <1>2, ResizedEndBounded
<1>4. NewNetLen \in 0 .. MaxLength
  <2>1. HeaderLen[Base.network] <= NewNetLen /\ NewNetLen <= MaxLength
    BY DEF Finalizable
  <2>2. HeaderLen[Base.network] \in Nat
    BY <1>1, HeaderLenType
  <2>3. NewNetLen \in Int
    BY <1>3, HeaderLenType DEF NewNetLen
  <2>4. QED
    BY <2>1, <2>2, <2>3, PacketMutationAssumption
<1>5. ASSUME Base.transport = "udp" PROVE NewTransportLen \in 0 .. MaxLength
  <2> DEFINE end == TransportStart(Base) + Base.udpLen
  <2>1. /\ TransportStart(Base) \in Nat
        /\ TransportStart(Base) = HeaderLen["ethernet"] + HeaderLen[Base.network]
    BY <1>1, HeaderLenType DEF TransportStart
  <2>2. TransportLen(Base) = Base.udpLen
    BY <1>5 DEF TransportLen
  <2>3. end \in Int /\ end <= NetworkEnd(Base)
    BY <1>1, <1>5, <2>1, <2>2 DEF Finalizable, DeclaredExtentsFit, Checksummed
  <2>4. ResizedEnd(Base, end) \in Int
        /\ ResizedEnd(Base, end) <= ResizedEnd(Base, NetworkEnd(Base))
    BY <1>1, <1>2, <2>3, ResizedEndBounded
  <2>5. NewTransportLen = ResizedEnd(Base, end) - TransportStart(Base)
    BY <1>5, <2>2 DEF NewTransportLen, Checksummed
  <2>6. HeaderLen["udp"] <= NewTransportLen /\ HeaderLen["udp"] \in Nat
    BY <1>5, HeaderLenType DEF Finalizable, Checksummed, Transport
  <2>7. NewTransportLen \in Int /\ NewTransportLen <= NewNetLen
    BY <1>1, <1>3, <2>1, <2>4, <2>5, HeaderLenType DEF NewNetLen
  <2>8. QED
    BY <1>4, <2>6, <2>7, PacketMutationAssumption
<1>6. QED
  BY <1>4, <1>5

(* So are they with any of the writes made.                                *)
LEMMA PatchedType ==
  ASSUME TypeOK, Finalizable, NEW W \in SUBSET Pending
  PROVE  Patched(W) \in Header
<1>1. header \in Header
  BY DEF TypeOK
<1> DEFINE netLen == IF "netLen" \in W THEN NewNetLen ELSE header.netLen
           udpLen == IF "udpLen" \in W THEN NewTransportLen ELSE header.udpLen
           lengths == [header EXCEPT !.netLen = netLen, !.udpLen = udpLen]
           ipSum == IF "ipSum" \in W THEN lengths.netLen = NewNetLen
                    ELSE header.ipSum /\ lengths.netLen = header.netLen
           l4Sum == IF "l4Sum" \in W
                      THEN IF TransportLen(lengths) = NewTransportLen
                             THEN "right" ELSE "wrong"
                      ELSE IF TransportLen(lengths) = TransportLen(header)
                             THEN header.l4Sum ELSE Spoiled(header.l4Sum)
<1>2. /\ header.netLen \in 0 .. MaxDeclared /\ header.udpLen \in 0 .. MaxLength
      /\ header.ipSum \in BOOLEAN /\ header.l4Sum \in {"right", "wrong", "zero"}
  BY <1>1 DEF Header
<1>3. netLen \in 0 .. MaxDeclared
  BY <1>2, NewLengthsType, MaxDeclaredType
<1>4. udpLen \in 0 .. MaxLength
  <2>1. "udpLen" \in W => Base.transport = "udp"
    BY DEF Pending
  <2>2. QED
    BY <1>2, <2>1, NewLengthsType
<1>5. lengths \in Header /\ lengths.ipSum = header.ipSum /\ lengths.l4Sum = header.l4Sum
  BY <1>1, <1>3, <1>4 DEF Header
<1>6. ipSum \in BOOLEAN
  BY <1>2
<1>7. l4Sum \in {"right", "wrong", "zero"}
  BY <1>2 DEF Spoiled
<1>8. Patched(W) = [lengths EXCEPT !.ipSum = ipSum, !.l4Sum = l4Sum]
  BY <1>5 DEF Patched
<1> HIDE DEF lengths, ipSum, l4Sum
<1>9. QED
  BY <1>5, <1>6, <1>7, <1>8 DEF Header

LEMMA OutcomesType ==
  ASSUME TypeOK, Finalizable
  PROVE  Outcomes \subseteq Header
<1>1. header \in Header /\ CallerHeaders \subseteq Header
  BY HeadersAssumption DEF TypeOK
<1>2. Patched(Pending) \in Header
  BY PatchedType
<1>3. QED
  BY <1>1, <1>2 DEF Outcomes, Standing

(* With every write undone, all bytes are what they were.                  *)
LEMMA NothingStands ==
  ASSUME TypeOK
  PROVE  Standing(Pending \ Restored) = {header}
<1>1. header \in Header /\ Pending \ Restored = {}
  BY DEF TypeOK, Restored
<1>2. Patched({}) = header
  <2> DEFINE lengths == [header EXCEPT !.netLen = header.netLen, !.udpLen = header.udpLen]
  <2>1. lengths = header
    BY <1>1 DEF Header
  <2>2. header.ipSum \in BOOLEAN
    BY <1>1 DEF Header
  <2>3. Patched({}) =
          [lengths EXCEPT
             !.ipSum = header.ipSum /\ lengths.netLen = header.netLen,
             !.l4Sum = IF TransportLen(lengths) = TransportLen(header)
                         THEN header.l4Sum ELSE Spoiled(header.l4Sum)]
    BY <1>1 DEF Patched, Header
  <2> HIDE DEF lengths
  <2>4. Patched({}) = [header EXCEPT !.ipSum = header.ipSum, !.l4Sum = header.l4Sum]
    BY <2>1, <2>2, <2>3
  <2>5. QED
    BY <1>1, <2>4 DEF Header
<1>3. QED
  BY <1>1, <1>2 DEF Standing

-----------------------------------------------------------------------------
(* Type correctness. *)

LEMMA InitType == Init => TypeOK
<1> SUFFICES ASSUME Init PROVE TypeOK
  OBVIOUS
<1>1. Fresh \in MutationJournal /\ Fresh.base = {}
  BY PacketMutationAssumption DEF Fresh, MutationJournal, Delta
<1>2. frame \in 0 .. Storage /\ headroom \in 0 .. Storage - frame /\ header \in Header
  BY HeadersAssumption DEF Init
<1>3. QED
  BY <1>1, <1>2 DEF Init, TypeOK

(* A write keeps all types if the bytes it makes are a header. *)
LEMMA WriteType ==
  ASSUME TypeOK, NEW h \in Header, NEW ip \in BOOLEAN, NEW l4 \in BOOLEAN,
         Write(h, ip, l4), history' \subseteq Mark
  PROVE  TypeOK'
<1>1. /\ journal' \in MutationJournal
      /\ journal'.base = journal.base
  BY RecordedType DEF Write, TypeOK
<1>2. \A p, q \in journal'.base : p = q
  BY <1>1 DEF TypeOK
<1>3. QED
  BY <1>1, <1>2 DEF Write, TypeOK

(* A resize keeps all types if it stays within the storage. *)
LEMMA ResizeType ==
  ASSUME TypeOK, NEW j \in MutationJournal, \A p, q \in j.base : p = q,
         NEW n \in Int, NEW tail \in BOOLEAN,
         j.delta + n \in Delta, tail => j.tailDelta + n \in Delta,
         journal' = Resized(j, n, tail),
         header' \in Header, frame' \in 0 .. Storage, headroom' \in 0 .. Storage - frame',
         cache' = {}, history' \subseteq Mark, UNCHANGED <<layout, start>>
  PROVE  TypeOK'
<1>1. journal' \in MutationJournal /\ journal'.base = j.base
  BY ResizedType
<1>2. \A p, q \in journal'.base : p = q
  BY <1>1
<1>3. QED
  BY <1>1, <1>2 DEF TypeOK

(* So does a failure. *)
LEMMA FailureType ==
  ASSUME TypeOK, journal' = Failed(journal), cache' \in {{}, cache, Cached("default")},
         UNCHANGED <<header, frame, headroom, layout, start, history>>
  PROVE  TypeOK'
<1>1. journal' \in MutationJournal /\ journal'.base = journal.base
  BY FailedType DEF TypeOK
<1>2. \A p, q \in journal'.base : p = q
  BY <1>1 DEF TypeOK
<1>3. /\ cache' \subseteq [config : ParserConfig, parsed : ParsedPacket]
      /\ \A c, d \in cache' : c = d
  BY CachedType DEF TypeOK, ParserConfig
<1>4. QED
  BY <1>1, <1>2, <1>3 DEF TypeOK

(* A finalizer that is rolled back leaves what it wrote.                   *)
LEMMA RolledBackStill ==
  ASSUME TypeOK, FinalizeRolledBack
  PROVE  /\ journal' = Failed(journal) /\ cache' = {}
         /\ UNCHANGED <<header, frame, headroom, layout, start, history>>
<1>1. header' \in {header}
  BY NothingStands DEF FinalizeRolledBack
<1>2. QED
  BY <1>1 DEF FinalizeRolledBack

LEMMA SpoiledType ==
  ASSUME NEW h \in Header
  PROVE  [h EXCEPT !.l4Sum = Spoiled(@)] \in Header
<1>1. h.l4Sum \in {"right", "wrong", "zero"}
  BY DEF Header
<1>2. Spoiled(h.l4Sum) \in {"right", "wrong", "zero"}
  BY <1>1 DEF Spoiled
<1>3. QED
  BY <1>2 DEF Header

LEMMA FinalizeDoneType ==
  ASSUME TypeOK, FinalizeDone
  PROVE  TypeOK'
<1>1. header' \in Header
  BY OutcomesType DEF FinalizeDone
<1>2. journal' \in MutationJournal /\ journal'.base = journal.base
  BY DEF FinalizeDone, TypeOK, MutationJournal
<1>3. \A p, q \in journal'.base : p = q
  BY <1>2 DEF TypeOK
<1>4. Parse(header', frame, "default") \in ParsedPacket
  BY <1>1, ParseType
<1>5. /\ cache' \subseteq [config : ParserConfig, parsed : ParsedPacket]
      /\ \A c, d \in cache' : c = d
  BY <1>4 DEF FinalizeDone, ParserConfig
<1>6. history' \subseteq Mark
  BY DEF FinalizeDone, TypeOK, Mark
<1>7. QED
  BY <1>1, <1>2, <1>3, <1>5, <1>6 DEF FinalizeDone, TypeOK

LEMMA NextType == TypeOK /\ [Next]_vars => TypeOK'
<1> SUFFICES ASSUME TypeOK, [Next]_vars PROVE TypeOK'
  OBVIOUS
<1>1. ASSUME NEW config \in ParserConfig, ParseView(config) PROVE TypeOK'
  BY <1>1, CachedType DEF ParseView, TypeOK
<1>2. CASE EditFails
  BY <1>2, FailureType DEF EditFails
<1>3. CASE EditEthernet
  BY <1>3, WriteType DEF EditEthernet, TypeOK
<1>4. CASE EditNetworkField
  <2>1. [header EXCEPT !.ipSum = FALSE] \in Header
    BY DEF TypeOK, Header
  <2>2. QED
    BY <1>4, <2>1, WriteType DEF EditNetworkField, TypeOK
<1>5. CASE EditAddress
  <2> DEFINE h == [header EXCEPT !.ipSum = @ /\ CurrentParsed.network # "ipv4",
                                 !.l4Sum = Spoiled(@)]
             k == [header EXCEPT !.l4Sum = Spoiled(@)]
  <2>1. k \in Header
    BY SpoiledType DEF TypeOK
  <2>2. h = [k EXCEPT !.ipSum = header.ipSum /\ CurrentParsed.network # "ipv4"]
    BY DEF TypeOK, Header
  <2>3. (header.ipSum /\ CurrentParsed.network # "ipv4") \in BOOLEAN
    OBVIOUS
  <2>4. h \in Header
    <3> HIDE DEF k
    <3>1. QED
      BY <2>1, <2>2, <2>3 DEF Header
  <2>5. Write(h, CurrentParsed.network = "ipv4", TRUE) /\ history' \subseteq Mark
    BY <1>5 DEF EditAddress, TypeOK
  <2> HIDE DEF h
  <2>6. QED
    BY <2>4, <2>5, WriteType
<1>6. CASE EditTransportField
  BY <1>6, WriteType, SpoiledType DEF EditTransportField, TypeOK
<1>7. ASSUME NEW h \in CallerHeaders \cup {[header EXCEPT !.l4Sum = Spoiled(@)]},
             NEW layers \in SUBSET {"l2", "l3", "l4"}, RawWrite(h, layers)
      PROVE  TypeOK'
  <2>1. h \in Header
    BY <1>7, SpoiledType, HeadersAssumption DEF TypeOK
  <2>2. history' \subseteq Mark
    BY <1>7 DEF RawWrite, Disturbance, TypeOK, Mark
  <2>3. /\ Write(h, "l3" \in layers, layers \cap {"l3", "l4"} # {})
        /\ ("l3" \in layers) \in BOOLEAN
        /\ (layers \cap {"l3", "l4"} # {}) \in BOOLEAN
    BY <1>7 DEF RawWrite
  <2>4. QED
    BY <2>1, <2>2, <2>3, WriteType
<1>8. ASSUME NEW n \in 0 .. Storage, Prepend(n) PROVE TypeOK'
  <2>1. header' \in Header /\ history' \subseteq Mark
    BY <1>8, HeadersAssumption DEF Prepend, Disturbance, TypeOK, Mark
  <2>2. frame' \in 0 .. Storage /\ headroom' \in 0 .. Storage - frame'
    BY <1>8, PacketMutationAssumption DEF Prepend, TypeOK
  <2>3. journal \in MutationJournal /\ n \in Int
    BY PacketMutationAssumption DEF TypeOK
  <2>4. QED
    BY <1>8, <2>1, <2>2, <2>3, ResizeType DEF Prepend, DeltaInRange, TypeOK
<1>9. ASSUME NEW n \in 0 .. Storage, TrimHead(n) PROVE TypeOK'
  <2>1. header' \in Header /\ history' \subseteq Mark
    BY <1>9, HeadersAssumption DEF TrimHead, Disturbance, TypeOK, Mark
  <2>2. frame' \in 0 .. Storage /\ headroom' \in 0 .. Storage - frame'
    BY <1>9, PacketMutationAssumption DEF TrimHead, TypeOK
  <2>3. journal \in MutationJournal /\ -n \in Int
    BY PacketMutationAssumption DEF TypeOK
  <2>4. QED
    BY <1>9, <2>1, <2>2, <2>3, ResizeType DEF TrimHead, DeltaInRange, TypeOK
<1>10. ASSUME NEW n \in 0 .. Storage, Append(n) PROVE TypeOK'
  <2>1. header' \in Header /\ history' \subseteq Mark
    BY <1>10, HeadersAssumption, SpoiledType DEF Append, Resumption, TypeOK, Mark
  <2>2. frame' \in 0 .. Storage /\ headroom' \in 0 .. Storage - frame'
    BY <1>10, PacketMutationAssumption DEF Append, TypeOK
  <2>3. n \in Int /\ journal.delta + n \in Delta /\ journal.tailDelta + n \in Delta
    BY <1>10, PacketMutationAssumption DEF Append, DeltaInRange
  <2>4. /\ journal' = Resized(Snapshot(journal), n, TRUE)
        /\ cache' = {} /\ UNCHANGED <<layout, start>>
    BY <1>10 DEF Append
  <2>5. QED
    BY <2>1, <2>2, <2>3, <2>4, SnapshotType, ResizeType
<1>11. ASSUME NEW n \in 0 .. Storage, TrimTail(n) PROVE TypeOK'
  <2>1. header' \in Header /\ history' \subseteq Mark
    BY <1>11, SpoiledType DEF TrimTail, Resumption, TypeOK, Mark
  <2>2. frame' \in 0 .. Storage /\ headroom' \in 0 .. Storage - frame'
    BY <1>11, PacketMutationAssumption DEF TrimTail, TypeOK
  <2>3. -n \in Int /\ journal.delta + (-n) \in Delta /\ journal.tailDelta + (-n) \in Delta
    BY <1>11, PacketMutationAssumption DEF TrimTail, DeltaInRange
  <2>4. /\ journal' = Resized(Snapshot(journal), -n, TRUE)
        /\ cache' = {} /\ UNCHANGED <<layout, start>>
    BY <1>11 DEF TrimTail
  <2>5. QED
    BY <2>1, <2>2, <2>3, <2>4, SnapshotType, ResizeType
<1>12. CASE FinalizeRefused
  BY <1>12, FailureType DEF FinalizeRefused
<1>13. CASE FinalizeRolledBack
  BY <1>13, RolledBackStill, FailureType
<1>14. CASE FinalizeDone
  BY <1>14, FinalizeDoneType
<1>15. CASE UNCHANGED vars
  BY <1>15 DEF vars, TypeOK
<1>16. QED
  BY <1>1, <1>2, <1>3, <1>4, <1>5, <1>6, <1>7, <1>8, <1>9, <1>10, <1>11, <1>12,
     <1>13, <1>14, <1>15 DEF Next

(* Every variable keeps its type: in particular the deltas of the journal  *)
(* stay within the width of their fields and every length the finalizer    *)
(* declares within the width of its own, whatever is edited.               *)
THEOREM TypeCorrect == Spec => []TypeOK
<1>1. QED
  BY InitType, NextType, PTL DEF Spec

-----------------------------------------------------------------------------
(* What each step does to the journal, to frame and cache. *)

(* A step that neither resizes nor reparses. *)
Still == /\ UNCHANGED <<frame, start>>
         /\ journal'.delta = journal.delta
         /\ journal'.tailDelta = journal.tailDelta
         /\ journal'.base = journal.base
         /\ journal'.baseFrame = journal.baseFrame
         /\ history \subseteq history'

LEMMA WriteStill ==
  ASSUME TypeOK, NEW h, NEW ip \in BOOLEAN, NEW l4 \in BOOLEAN,
         Write(h, ip, l4), history \subseteq history'
  PROVE  Still /\ cache' = {} /\ journal' = Recorded(journal, ip, l4)
  BY RecordedType DEF Write, TypeOK, Still

LEMMA FailureStill ==
  ASSUME TypeOK, journal' = Failed(journal), UNCHANGED <<frame, start, history>>
  PROVE  Still
  BY FailedType DEF TypeOK, Still

(* Every edit that does not change the length is a write. *)
EditSameLength ==
  \/ EditEthernet
  \/ EditNetworkField
  \/ EditAddress
  \/ EditTransportField
  \/ \E h \in CallerHeaders \cup {[header EXCEPT !.l4Sum = Spoiled(@)]} :
       \E layers \in SUBSET {"l2", "l3", "l4"} : RawWrite(h, layers)

LEMMA EditIsWrite ==
  ASSUME TypeOK, EditSameLength
  PROVE  /\ Still /\ cache' = {}
         /\ \E ip, l4 \in BOOLEAN : journal' = Recorded(journal, ip, l4)
<1>1. CASE EditEthernet
  BY <1>1, WriteStill DEF EditEthernet
<1>2. CASE EditNetworkField
  BY <1>2, WriteStill DEF EditNetworkField
<1>3. CASE EditAddress
  <2> DEFINE h == [header EXCEPT !.ipSum = @ /\ CurrentParsed.network # "ipv4",
                                 !.l4Sum = Spoiled(@)]
             ip == CurrentParsed.network = "ipv4"
  <2>1. Write(h, ip, TRUE) /\ history \subseteq history' /\ ip \in BOOLEAN
    BY <1>3 DEF EditAddress
  <2> HIDE DEF h, ip
  <2>2. QED
    BY <2>1, WriteStill
<1>4. CASE EditTransportField
  BY <1>4, WriteStill DEF EditTransportField
<1>5. ASSUME NEW h, NEW layers \in SUBSET {"l2", "l3", "l4"}, RawWrite(h, layers)
      PROVE  /\ Still /\ cache' = {}
             /\ \E ip, l4 \in BOOLEAN : journal' = Recorded(journal, ip, l4)
  <2> DEFINE ip == "l3" \in layers
             l4 == layers \cap {"l3", "l4"} # {}
  <2>1. Write(h, ip, l4) /\ history \subseteq history' /\ ip \in BOOLEAN /\ l4 \in BOOLEAN
    BY <1>5 DEF RawWrite
  <2> HIDE DEF ip, l4
  <2>2. QED
    BY <2>1, WriteStill
<1>6. QED
  BY <1>1, <1>2, <1>3, <1>4, <1>5 DEF EditSameLength

(* Every other step, by what it does.                                      *)
LEMMA NextCases ==
  ASSUME [Next]_vars
  PROVE  \/ \E config \in ParserConfig : ParseView(config)
         \/ EditFails
         \/ EditSameLength
         \/ \E n \in 0 .. Storage : Prepend(n) \/ TrimHead(n)
         \/ \E n \in 0 .. Storage : Append(n) \/ TrimTail(n)
         \/ FinalizeRefused \/ FinalizeRolledBack
         \/ FinalizeDone
         \/ UNCHANGED vars
  BY DEF Next, EditSameLength

-----------------------------------------------------------------------------
(* The deltas. *)

LEMMA DeltasInductive == TypeOK /\ DeltasAccountForFrame /\ [Next]_vars
                           => DeltasAccountForFrame'
<1> SUFFICES ASSUME TypeOK, DeltasAccountForFrame, [Next]_vars
             PROVE  DeltasAccountForFrame'
  OBVIOUS
<1>1. CASE Still
  BY <1>1 DEF Still, DeltasAccountForFrame
<1>2. ASSUME NEW n \in 0 .. Storage, Prepend(n) \/ TrimHead(n)
      PROVE  DeltasAccountForFrame'
  <2>1. PICK m \in Int :
          /\ journal.delta + m \in Delta /\ frame' = frame + m
          /\ journal' = Resized(journal, m, FALSE)
          /\ "head" \in history' /\ start' = start
    <3>1. CASE Prepend(n)
      <4>1. /\ n \in Int /\ journal.delta + n \in Delta
            /\ frame' = frame + n /\ journal' = Resized(journal, n, FALSE)
            /\ "head" \in history' /\ start' = start
        BY <3>1, PacketMutationAssumption DEF Prepend, DeltaInRange
      <4>2. QED
        BY <4>1
    <3>2. CASE TrimHead(n)
      <4>1. -n \in Int /\ frame - n = frame + (-n)
        BY PacketMutationAssumption DEF TypeOK
      <4>2. /\ (-n) \in Int /\ journal.delta + (-n) \in Delta
            /\ frame' = frame + (-n) /\ journal' = Resized(journal, -n, FALSE)
            /\ "head" \in history' /\ start' = start
        BY <3>2, <4>1 DEF TrimHead, DeltaInRange
      <4>3. QED
        BY <4>2
    <3>3. QED
      BY <1>2, <3>1, <3>2
  <2>2. journal \in MutationJournal
    BY DEF TypeOK
  <2>3. /\ journal'.delta = journal.delta + m /\ journal'.tailDelta = journal.tailDelta
        /\ journal'.base = journal.base
    BY <2>1, <2>2, ResizedType
  <2>4. frame \in Int /\ start \in Int /\ journal.delta \in Int
    BY <2>2, PacketMutationAssumption DEF TypeOK, MutationJournal, Delta
  <2>5. frame' = start' + journal'.delta
    <3>1. frame = start + journal.delta
      BY DEF DeltasAccountForFrame
    <3>2. frame + m = start + (journal.delta + m)
      BY <2>4, <3>1
    <3>3. QED
      BY <2>1, <2>3, <3>2
  <2>6. journal'.base = {} => journal'.tailDelta = 0
    BY <2>3 DEF DeltasAccountForFrame
  <2>7. QED
    BY <2>1, <2>5, <2>6 DEF DeltasAccountForFrame
<1>3. ASSUME NEW n \in 0 .. Storage, Append(n) \/ TrimTail(n)
      PROVE  DeltasAccountForFrame'
  <2>1. PICK m \in Int :
          /\ journal.delta + m \in Delta /\ journal.tailDelta + m \in Delta
          /\ frame' = frame + m
          /\ journal' = Resized(Snapshot(journal), m, TRUE)
          /\ history \subseteq history' /\ start' = start
    <3>1. CASE Append(n)
      <4>1. /\ n \in Int /\ journal.delta + n \in Delta /\ journal.tailDelta + n \in Delta
            /\ frame' = frame + n /\ journal' = Resized(Snapshot(journal), n, TRUE)
            /\ history \subseteq history' /\ start' = start
        BY <3>1, PacketMutationAssumption DEF Append, DeltaInRange
      <4>2. QED
        BY <4>1
    <3>2. CASE TrimTail(n)
      <4>1. -n \in Int /\ frame - n = frame + (-n)
        BY PacketMutationAssumption DEF TypeOK
      <4>2. /\ (-n) \in Int /\ journal.delta + (-n) \in Delta /\ journal.tailDelta + (-n) \in Delta
            /\ frame' = frame + (-n) /\ journal' = Resized(Snapshot(journal), -n, TRUE)
            /\ history \subseteq history' /\ start' = start
        BY <3>2, <4>1 DEF TrimTail, DeltaInRange
      <4>3. QED
        BY <4>2
    <3>3. QED
      BY <1>3, <3>1, <3>2
  <2>2. /\ journal'.delta = journal.delta + m
        /\ journal'.tailDelta = journal.tailDelta + m
        /\ journal'.base # {}
        /\ journal'.baseFrame = IF journal.base # {} THEN journal.baseFrame ELSE frame
    <3> DEFINE j == Snapshot(journal)
    <3>1. /\ j \in MutationJournal /\ j.base # {}
          /\ j.delta = journal.delta /\ j.tailDelta = journal.tailDelta
          /\ j.baseFrame = IF journal.base # {} THEN journal.baseFrame ELSE frame
      BY SnapshotType
    <3>2. /\ journal' = Resized(j, m, TRUE)
          /\ journal.delta + m \in Delta /\ journal.tailDelta + m \in Delta
      BY <2>1
    <3> HIDE DEF j
    <3>3. /\ Resized(j, m, TRUE).delta = j.delta + m
          /\ Resized(j, m, TRUE).tailDelta = j.tailDelta + m
          /\ Resized(j, m, TRUE).base = j.base
          /\ Resized(j, m, TRUE).baseFrame = j.baseFrame
      BY <3>1, <3>2, ResizedType
    <3>4. QED
      BY <3>1, <3>2, <3>3
  <2>3. /\ frame \in Int /\ start \in Int /\ journal.delta \in Int
        /\ journal.tailDelta \in Int /\ journal.baseFrame \in Int
    BY PacketMutationAssumption DEF TypeOK, MutationJournal, Delta
  <2>4. frame' = start' + journal'.delta
    <3>1. frame = start + journal.delta
      BY DEF DeltasAccountForFrame
    <3>2. frame + m = start + (journal.delta + m)
      BY <2>3, <3>1
    <3>3. QED
      BY <2>1, <2>2, <3>2
  <2>5. ASSUME "head" \notin history'
        PROVE  frame' = journal'.baseFrame + journal'.tailDelta
    <3>1. "head" \notin history
      BY <2>1, <2>5
    <3>2. CASE journal.base = {}
      <4>1. journal.tailDelta = 0
        BY <3>2 DEF DeltasAccountForFrame
      <4>2. journal'.baseFrame = frame /\ journal'.tailDelta = m
        BY <2>2, <2>3, <3>2, <4>1
      <4>3. QED
        BY <2>1, <4>2
    <3>3. CASE journal.base # {}
      <4>1. frame = journal.baseFrame + journal.tailDelta
        BY <3>1, <3>3 DEF DeltasAccountForFrame
      <4>2. frame + m = journal.baseFrame + (journal.tailDelta + m)
        BY <2>3, <4>1
      <4>3. QED
        BY <2>1, <2>2, <3>3, <4>2
    <3>4. QED
      BY <3>2, <3>3
  <2>6. QED
    BY <2>2, <2>4, <2>5 DEF DeltasAccountForFrame
<1>4. ASSUME NEW config \in ParserConfig, ParseView(config) PROVE Still
  BY <1>4 DEF ParseView, Still
<1>5. CASE EditFails \/ FinalizeRefused \/ FinalizeRolledBack
  <2>1. CASE FinalizeRolledBack
    BY <1>1, <2>1, RolledBackStill, FailureStill
  <2>2. CASE EditFails \/ FinalizeRefused
    BY <1>1, <2>2, FailureStill DEF EditFails, FinalizeRefused
  <2>3. QED
    BY <1>5, <2>1, <2>2
<1>6. CASE FinalizeDone
  <2>1. Still
    BY <1>6 DEF FinalizeDone, TypeOK, MutationJournal, Still
  <2>2. QED
    BY <1>1, <2>1
<1>7. CASE UNCHANGED vars
  <2>1. Still
    BY <1>7 DEF vars, Still
  <2>2. QED
    BY <1>1, <2>1
<1>8. QED
  BY <1>1, <1>2, <1>3, <1>4, <1>5, <1>6, <1>7, EditIsWrite, NextCases

(* The journal's deltas tell how the frame changed, since begin and since  *)
(* the finalizer's snapshot, across failures and finalizers.               *)
THEOREM DeltasCorrect == Spec => []DeltasAccountForFrame
<1>1. Init => DeltasAccountForFrame
  BY PacketMutationAssumption DEF Init, Fresh, DeltasAccountForFrame
<1>2. QED
  BY <1>1, TypeCorrect, DeltasInductive, PTL DEF Spec

-----------------------------------------------------------------------------
(* The cache. *)

LEMMA ParsedIsParse ==
  ASSUME TypeOK, CacheIsCurrent, NEW config
  PROVE  Parsed(config) = Parse(header, frame, config)
<1>1. ASSUME NEW c \in cache, c.config = config
      PROVE  (CHOOSE d \in cache : TRUE) = c
  BY <1>1 DEF TypeOK
<1>2. QED
  BY <1>1 DEF Parsed, CacheIsCurrent

LEMMA CacheInductive == TypeOK /\ CacheIsCurrent /\ [Next]_vars => CacheIsCurrent'
<1> SUFFICES ASSUME TypeOK, CacheIsCurrent, [Next]_vars PROVE CacheIsCurrent'
  OBVIOUS
<1>1. CASE cache' = {}
  BY <1>1 DEF CacheIsCurrent
<1>2. ASSUME NEW config, cache' = cache \/ cache' = Cached(config),
             UNCHANGED <<header, frame>>
      PROVE  CacheIsCurrent'
  <2>1. CASE cache' = cache
    BY <1>2, <2>1 DEF CacheIsCurrent, Parse, NetworkPresent, TransportPresent,
                      NetworkEnd, PayloadLen
  <2>2. CASE cache' = Cached(config)
    BY <1>2, <2>2, ParsedIsParse DEF Cached, CacheIsCurrent
  <2>3. QED
    BY <1>2, <2>1, <2>2
<1>3. ASSUME NEW n, Prepend(n) \/ TrimHead(n) \/ Append(n) \/ TrimTail(n)
      PROVE  cache' = {}
  BY <1>3 DEF Prepend, TrimHead, Append, TrimTail
<1>4. ASSUME NEW config \in ParserConfig, ParseView(config) PROVE CacheIsCurrent'
  BY <1>2, <1>4 DEF ParseView
<1>5. CASE EditFails \/ FinalizeRefused \/ FinalizeRolledBack
  <2>1. CASE FinalizeRolledBack
    BY <1>1, <2>1, RolledBackStill
  <2>2. CASE EditFails \/ FinalizeRefused
    BY <1>1, <1>2, <2>2 DEF EditFails, FinalizeRefused
  <2>3. QED
    BY <1>5, <2>1, <2>2
<1>6. CASE FinalizeDone
  BY <1>6 DEF FinalizeDone, CacheIsCurrent
<1>7. CASE UNCHANGED vars
  BY <1>2, <1>7 DEF vars
<1>8. QED
  BY <1>1, <1>3, <1>4, <1>5, <1>6, <1>7, EditIsWrite, NextCases

(* Whoever parses next, with whatever limits, reads the packet as it is.   *)
THEOREM CacheCorrect == Spec => []CacheIsCurrent
<1>1. Init => CacheIsCurrent
  BY DEF Init, CacheIsCurrent
<1>2. QED
  BY <1>1, TypeCorrect, CacheInductive, PTL DEF Spec

-----------------------------------------------------------------------------
(* The journal as an output sees it. *)

(* The steps that record an edit, of the same length or another. *)
Recorder == /\ journal'.failed = journal.failed
            /\ journal'.dirty /\ ~ journal'.finalized

LEMMA EditsRecord ==
  ASSUME TypeOK, NEW n \in 0 .. Storage,
         EditSameLength \/ Prepend(n) \/ TrimHead(n) \/ Append(n) \/ TrimTail(n)
  PROVE  Recorder
<1>0. journal \in MutationJournal /\ n \in Int /\ -n \in Int
  BY PacketMutationAssumption DEF TypeOK
<1>1. CASE EditSameLength
  <2>1. PICK ip \in BOOLEAN, l4 \in BOOLEAN : journal' = Recorded(journal, ip, l4)
    BY <1>1, EditIsWrite
  <2>2. QED
    BY <1>0, <2>1, RecordedType DEF Recorder
<1>2. ASSUME NEW j \in MutationJournal, j.failed = journal.failed,
             NEW m \in Int, NEW tail \in BOOLEAN,
             j.delta + m \in Delta, tail => j.tailDelta + m \in Delta,
             journal' = Resized(j, m, tail)
      PROVE  Recorder
  BY <1>2, ResizedType DEF Recorder
<1>3. CASE Prepend(n)
  <2>1. journal' = Resized(journal, n, FALSE) /\ journal.delta + n \in Delta
    BY <1>3 DEF Prepend, DeltaInRange
  <2>2. QED
    BY <1>0, <1>2, <2>1
<1>4. CASE TrimHead(n)
  <2>1. journal' = Resized(journal, -n, FALSE) /\ journal.delta + (-n) \in Delta
    BY <1>4 DEF TrimHead, DeltaInRange
  <2>2. QED
    BY <1>0, <1>2, <2>1
<1>5. CASE Append(n)
  <2>1. /\ journal' = Resized(Snapshot(journal), n, TRUE)
        /\ journal.delta + n \in Delta /\ journal.tailDelta + n \in Delta
    BY <1>5 DEF Append, DeltaInRange
  <2>2. QED
    BY <1>0, <1>2, <2>1, SnapshotType
<1>6. CASE TrimTail(n)
  <2>1. /\ journal' = Resized(Snapshot(journal), -n, TRUE)
        /\ journal.delta + (-n) \in Delta /\ journal.tailDelta + (-n) \in Delta
    BY <1>6 DEF TrimTail, DeltaInRange
  <2>2. QED
    BY <1>0, <1>2, <2>1, SnapshotType
<1>7. QED
  BY <1>1, <1>3, <1>4, <1>5, <1>6

(* A step records an edit, fails, finalizes or leaves the journal alone.   *)
LEMMA JournalSteps ==
  ASSUME TypeOK, [Next]_vars
  PROVE  \/ Recorder
         \/ /\ journal'.failed
            /\ UNCHANGED <<header, frame, headroom>>
         \/ /\ journal.dirty /\ ~ journal.failed
            /\ journal'.dirty /\ ~ journal'.failed /\ journal'.finalized
            /\ UNCHANGED frame
         \/ UNCHANGED journal
<1>1. ASSUME journal' = Failed(journal) PROVE journal'.failed
  BY <1>1, FailedType DEF TypeOK
<1>2. CASE EditFails \/ FinalizeRefused \/ FinalizeRolledBack
  BY <1>1, <1>2, RolledBackStill DEF EditFails, FinalizeRefused
<1>3. CASE FinalizeDone
  <2>1. journal \in MutationJournal
    BY DEF TypeOK
  <2>2. QED
    BY <1>3, <2>1 DEF FinalizeDone, MutationJournal
<1>4. ASSUME NEW n \in 0 .. Storage, Prepend(n) \/ TrimHead(n) \/ Append(n) \/ TrimTail(n)
      PROVE  Recorder
  BY <1>4, EditsRecord
<1>5. CASE EditSameLength
  <2>1. 0 \in 0 .. Storage
    BY PacketMutationAssumption
  <2>2. QED
    BY <1>5, <2>1, EditsRecord
<1>6. ASSUME NEW config \in ParserConfig, ParseView(config) PROVE UNCHANGED journal
  BY <1>6 DEF ParseView
<1>7. CASE UNCHANGED vars
  BY <1>7 DEF vars
<1>8. QED
  BY <1>2, <1>3, <1>4, <1>5, <1>6, <1>7, NextCases

(* A finalizer that has written lengths and checksums, in any combination, *)
(* and whose packet then does not parse leaves every byte as it was: the   *)
(* writes that restoreHeaderWrites undoes are all that were prepared.  So  *)
(* do the failures before the first write.                                 *)
THEOREM FailuresChangeNothing == Spec => FailureChangesNothing
<1>1. TypeOK /\ [Next]_vars =>
        [(journal'.failed /\ ~ journal.failed) => UNCHANGED <<header, frame, headroom>>]_vars
  BY JournalSteps DEF Recorder
<1>2. QED
  BY <1>1, TypeCorrect, PTL DEF Spec, FailureChangesNothing

(* The journal moves as BatchOwner lets it, which has only its outcome:    *)
(* failures are for ever and only the finalizer makes an edited packet fit *)
(* for output.                                                             *)
THEOREM JournalImplementsOutcome == Spec => JournalAsOwnerAssumes
<1>1. TypeOK /\ [Next]_vars =>
        [/\ Outcome' \in {Outcome} \cup Written(Outcome) \cup Finalized(Outcome)
         /\ (Outcome' = "finalized" /\ Outcome # "finalized") =>
              Outcome = "unfinalized" /\ UNCHANGED frame]_vars
  <2> SUFFICES ASSUME TypeOK, [Next]_vars
               PROVE  /\ Outcome' \in {Outcome} \cup Written(Outcome) \cup Finalized(Outcome)
                      /\ (Outcome' = "finalized" /\ Outcome # "finalized") =>
                           Outcome = "unfinalized" /\ UNCHANGED frame
    OBVIOUS
  <2>1. CASE Recorder
    BY <2>1 DEF Recorder, Outcome, Written, Finalized
  <2>2. CASE journal'.failed
    BY <2>2 DEF Outcome, Written, Finalized
  <2>3. CASE /\ journal.dirty /\ ~ journal.failed
             /\ journal'.dirty /\ ~ journal'.failed /\ journal'.finalized
             /\ UNCHANGED frame
    BY <2>3 DEF Outcome, Written, Finalized
  <2>4. CASE UNCHANGED journal
    BY <2>4 DEF Outcome
  <2>5. QED
    BY <2>1, <2>2, <2>3, <2>4, JournalSteps
<1>2. QED
  BY <1>1, TypeCorrect, PTL DEF Spec, JournalAsOwnerAssumes

-----------------------------------------------------------------------------
(***************************************************************************)
(* The snapshot.                                                           *)
(***************************************************************************)

(* The header h with the lengths that p declares. *)
Declaring(h, p) ==
  [h EXCEPT !.netLen = p.netLen,
            !.udpLen = IF p.transport = "udp" THEN p.udpLen ELSE @]

(* Where an extent of the snapshot ends after the tail resizes so far.     *)
Extent(p, end) ==
  CASE journal.tailDelta > 0 /\ end = NetworkEnd(p) /\ end = journal.baseFrame -> frame
    [] journal.tailDelta < 0 /\ frame < end -> frame
    [] OTHER -> end

(* The header is the snapshot's with the lengths a finalizer derived.      *)
Sealed(p) ==
  /\ p.network # "none"
  /\ p = Parse(Declaring(header, p), journal.baseFrame, "default")
  /\ NetworkEnd(header) = Extent(p, NetworkEnd(p))
  /\ p.transport = "udp" =>
       TransportStart(p) + header.udpLen = Extent(p, TransportStart(p) + p.udpLen)

(* What the snapshot says of the bytes the next finalizer writes over: it  *)
(* is still their parse, or was before the one finalizer since.            *)
SnapshotInv ==
  /\ "head" \notin history => journal.delta = journal.tailDelta
  /\ (journal.base # {} /\ "disturbed" \notin history) =>
       frame = journal.baseFrame + journal.tailDelta
  /\ "sealed" \in history => journal.base # {}
  /\ history \cap {"disturbed", "resumed"} = {} =>
       \A p \in journal.base :
         IF "sealed" \in history
           THEN Sealed(p)
           ELSE p = Parse(header, journal.baseFrame, "default")

(* A packet that may leave was finalized after its last edit. *)
ReadyInv ==
  /\ ReadyPacketsConsistent
  /\ (Ready /\ journal.base # {}) => "sealed" \in history

(* Two headers that a parser does not tell apart. *)
Alike(h, k) ==
  /\ h.network = k.network /\ h.netLen = k.netLen /\ h.fragment = k.fragment
  /\ h.transport = k.transport /\ h.udpLen = k.udpLen

LEMMA AlikeParse ==
  ASSUME NEW h, NEW k, Alike(h, k), NEW length, NEW config
  PROVE  Parse(h, length, config) = Parse(k, length, config)
BY DEF Alike, Parse, NetworkPresent, NetworkEnd, TransportPresent, PayloadLen

(* What the network layer of a parse says of the header.                   *)
LEMMA ParsedNetwork ==
  ASSUME NEW h, NEW length, NEW config,
         NEW p, p = Parse(h, length, config), p.network # "none"
  PROVE  /\ h.network = p.network /\ h.netLen = p.netLen /\ h.fragment = p.fragment
         /\ HeaderLen[p.network] <= p.netLen
         /\ NetworkEnd(p) <= length
<1>1. p = [network   |-> p.network, netLen |-> p.netLen, fragment |-> p.fragment,
           transport |-> p.transport, udpLen |-> p.udpLen]
  BY DEF Parse
<1>2. NetworkPresent(h, length)
  BY DEF Parse
<1>3. h.network = p.network /\ h.netLen = p.netLen /\ h.fragment = p.fragment
  BY <1>2 DEF Parse
<1>. QED
  BY <1>2, <1>3 DEF NetworkPresent, NetworkEnd

(* And its transport layer.                                                *)
LEMMA ParsedTransport ==
  ASSUME NEW h, NEW length, NEW config,
         NEW p, p = Parse(h, length, config), p.transport # "none"
  PROVE  /\ p.network # "none" \/ h.network = "none"
         /\ NetworkPresent(h, length) /\ TransportPresent(h, config)
         /\ h.transport = p.transport
         /\ p.transport = "udp" => h.udpLen = p.udpLen
<1>1. NetworkPresent(h, length) /\ TransportPresent(h, config)
  BY DEF Parse
<1>. QED
  BY <1>1 DEF Parse

(* A header that has what the parse of another found parses to the same.   *)
LEMMA ParsesTheSame ==
  ASSUME NEW h \in Header, NEW length, NEW config,
         NetworkPresent(h, length), TransportPresent(h, config),
         NEW p \in ParsedPacket,
         h.network = p.network, h.netLen = p.netLen, h.fragment = p.fragment,
         h.transport = p.transport,
         p.udpLen = IF p.transport = "udp" THEN h.udpLen ELSE 0
  PROVE  Parse(h, length, config) = p
BY DEF Parse, ParsedPacket

-----------------------------------------------------------------------------
(* The steps, by what they do to the snapshot. *)

(* The bytes keep their meaning and the lengths stay.                      *)
FieldStep == Still /\ Alike(header, header') /\ UNCHANGED history

(* A raw write.                                                            *)
RawStep == Still /\ history' = history \cup Disturbance

HeadStep ==
  \E n \in Int :
    /\ frame' = frame + n
    /\ journal'.delta = journal.delta + n
    /\ journal'.tailDelta = journal.tailDelta
    /\ journal'.base = journal.base
    /\ journal'.baseFrame = journal.baseFrame
    /\ history' = history \cup {"head"} \cup Disturbance

TailStep ==
  \E n \in Int :
    /\ frame' = frame + n
    /\ journal'.delta = journal.delta + n
    /\ journal'.tailDelta = journal.tailDelta + n
    /\ journal'.base = IF journal.base # {} THEN journal.base ELSE {CurrentParsed}
    /\ journal'.baseFrame = IF journal.base # {} THEN journal.baseFrame ELSE frame
    /\ history \cup Resumption \subseteq history'
    /\ history' \subseteq history \cup Resumption \cup {"disturbed"}
    /\ "disturbed" \notin history' => Alike(header, header')

(* A structured edit of the same length changes sums only.                 *)
LEMMA FieldEdits ==
  ASSUME TypeOK, EditEthernet \/ EditNetworkField \/ EditAddress \/ EditTransportField
  PROVE  FieldStep
<1>0. header \in Header
  BY DEF TypeOK
<1>1. EditSameLength
  BY DEF EditSameLength
<1>2. Still
  BY <1>1, EditIsWrite
<1>3. UNCHANGED history
  BY DEF EditEthernet, EditNetworkField, EditAddress, EditTransportField
<1>4. CASE EditEthernet
  BY <1>2, <1>3, <1>4 DEF EditEthernet, Write, FieldStep, Alike
<1>5. CASE EditNetworkField
  <2>1. header' = header \/ header' = [header EXCEPT !.ipSum = FALSE]
    BY <1>5 DEF EditNetworkField, Write
  <2>. QED
    BY <1>0, <1>2, <1>3, <2>1 DEF FieldStep, Alike, Header
<1>6. CASE EditAddress
  <2>1. header' = [header EXCEPT !.ipSum = @ /\ CurrentParsed.network # "ipv4",
                                 !.l4Sum = Spoiled(@)]
    BY <1>6 DEF EditAddress, Write
  <2>. QED
    BY <1>0, <1>2, <1>3, <2>1 DEF FieldStep, Alike, Header
<1>7. CASE EditTransportField
  <2>1. header' = [header EXCEPT !.l4Sum = Spoiled(@)]
    BY <1>7 DEF EditTransportField, Write
  <2>. QED
    BY <1>0, <1>2, <1>3, <2>1 DEF FieldStep, Alike, Header
<1>. QED
  BY <1>4, <1>5, <1>6, <1>7

LEMMA HeadResizes ==
  ASSUME TypeOK, NEW n \in 0 .. Storage, Prepend(n) \/ TrimHead(n)
  PROVE  HeadStep
<1>0. journal \in MutationJournal /\ n \in Int /\ -n \in Int /\ frame \in Int
  BY PacketMutationAssumption DEF TypeOK
<1>1. ASSUME NEW m \in Int, journal.delta + m \in Delta, frame' = frame + m,
             journal' = Resized(journal, m, FALSE),
             history' = history \cup {"head"} \cup Disturbance
      PROVE  HeadStep
  BY <1>0, <1>1, ResizedType DEF HeadStep
<1>2. CASE Prepend(n)
  BY <1>0, <1>1, <1>2 DEF Prepend, DeltaInRange
<1>3. CASE TrimHead(n)
  <2>1. /\ journal.delta + (-n) \in Delta
        /\ journal' = Resized(journal, -n, FALSE)
        /\ history' = history \cup {"head"} \cup Disturbance
    BY <1>3 DEF TrimHead, DeltaInRange
  <2>2. frame' = frame + (-n)
    BY <1>0, <1>3 DEF TrimHead
  <2>. QED
    BY <1>0, <1>1, <2>1, <2>2
<1>. QED
  BY <1>2, <1>3

LEMMA TailResizes ==
  ASSUME TypeOK, NEW n \in 0 .. Storage, Append(n) \/ TrimTail(n)
  PROVE  TailStep
<1>0. journal \in MutationJournal /\ n \in Int /\ -n \in Int /\ frame \in Int
      /\ header \in Header
  BY PacketMutationAssumption DEF TypeOK
<1>1. /\ Snapshot(journal).base = IF journal.base # {} THEN journal.base ELSE {CurrentParsed}
      /\ Snapshot(journal).baseFrame = IF journal.base # {} THEN journal.baseFrame ELSE frame
  BY <1>0, SnapshotType DEF Snapshot, MutationJournal
<1>2. ASSUME NEW m \in Int, journal.delta + m \in Delta, journal.tailDelta + m \in Delta,
             frame' = frame + m, journal' = Resized(Snapshot(journal), m, TRUE),
             history \cup Resumption \subseteq history',
             history' \subseteq history \cup Resumption \cup {"disturbed"},
             "disturbed" \notin history' => Alike(header, header')
      PROVE  TailStep
  <2> DEFINE j == Snapshot(journal)
  <2>1. j \in MutationJournal /\ j.delta = journal.delta /\ j.tailDelta = journal.tailDelta
    BY SnapshotType
  <2>2. /\ journal' = Resized(j, m, TRUE)
        /\ j.delta + m \in Delta /\ j.tailDelta + m \in Delta
    BY <1>2, <2>1
  <2>3. /\ j.base = IF journal.base # {} THEN journal.base ELSE {CurrentParsed}
        /\ j.baseFrame = IF journal.base # {} THEN journal.baseFrame ELSE frame
    BY <1>1
  <2> HIDE DEF j
  <2>4. /\ journal'.delta = j.delta + m /\ journal'.tailDelta = j.tailDelta + m
        /\ journal'.base = j.base /\ journal'.baseFrame = j.baseFrame
    BY <2>1, <2>2, ResizedType
  <2>. QED
    BY <1>2, <2>1, <2>3, <2>4 DEF TailStep
<1>3. Alike(header, [header EXCEPT !.l4Sum = Spoiled(@)])
  BY <1>0 DEF Alike, Header
<1>4. CASE Append(n)
  <2>1. /\ journal.delta + n \in Delta /\ journal.tailDelta + n \in Delta
        /\ frame' = frame + n /\ journal' = Resized(Snapshot(journal), n, TRUE)
    BY <1>4 DEF Append, DeltaInRange
  <2>2. /\ history \cup Resumption \subseteq history'
        /\ history' \subseteq history \cup Resumption \cup {"disturbed"}
        /\ "disturbed" \notin history' => Alike(header, header')
    BY <1>3, <1>4 DEF Append
  <2>. QED
    BY <1>0, <1>2, <2>1, <2>2
<1>5. CASE TrimTail(n)
  <2>1. /\ journal.delta + (-n) \in Delta /\ journal.tailDelta + (-n) \in Delta
        /\ journal' = Resized(Snapshot(journal), -n, TRUE)
    BY <1>5 DEF TrimTail, DeltaInRange
  <2>2. frame' = frame + (-n)
    BY <1>0, <1>5 DEF TrimTail
  <2>3. /\ history' = history \cup Resumption /\ Alike(header, header')
    BY <1>3, <1>5 DEF TrimTail
  <2>. QED
    BY <1>0, <1>2, <2>1, <2>2, <2>3
<1>. QED
  BY <1>4, <1>5

LEMMA SnapshotSteps ==
  ASSUME TypeOK, [Next]_vars
  PROVE  FieldStep \/ RawStep \/ HeadStep \/ TailStep \/ FinalizeDone
<1>1. ASSUME UNCHANGED header PROVE Alike(header, header')
  BY <1>1 DEF Alike
<1>2. ASSUME NEW config \in ParserConfig, ParseView(config) PROVE FieldStep
  BY <1>1, <1>2 DEF ParseView, Still, FieldStep
<1>3. CASE EditFails \/ FinalizeRefused \/ FinalizeRolledBack
  <2>1. CASE FinalizeRolledBack
    BY <1>1, <2>1, RolledBackStill, FailureStill DEF FieldStep
  <2>2. CASE EditFails \/ FinalizeRefused
    BY <1>1, <2>2, FailureStill DEF EditFails, FinalizeRefused, FieldStep
  <2>3. QED
    BY <1>3, <2>1, <2>2
<1>4. CASE EditSameLength
  <2>1. Still
    BY <1>4, EditIsWrite
  <2>. QED
    BY <1>4, <2>1, FieldEdits DEF EditSameLength, RawWrite, RawStep
<1>5. CASE UNCHANGED vars
  BY <1>1, <1>5 DEF vars, Still, FieldStep
<1>. QED
  BY <1>2, <1>3, <1>4, <1>5, HeadResizes, TailResizes, NextCases

-----------------------------------------------------------------------------
(* What the finalizer goes by. *)

(* The numbers the arithmetic below is about. *)
LEMMA NumbersType ==
  ASSUME TypeOK
  PROVE  /\ frame \in Nat /\ journal.tailDelta \in Int /\ journal.delta \in Int
         /\ journal.baseFrame \in Nat
         /\ header \in Header /\ journal.base \subseteq ParsedPacket
         /\ journal \in MutationJournal
BY PacketMutationAssumption DEF TypeOK, MutationJournal, Delta

LEMMA ParsedNumbers ==
  ASSUME NEW p \in ParsedPacket
  PROVE  /\ p.netLen \in Nat
         /\ p.udpLen \in Nat /\ p.udpLen <= MaxLength
         /\ NetworkEnd(p) = HeaderLen["ethernet"] + p.netLen
         /\ NetworkEnd(p) \in Nat
BY PacketMutationAssumption, HeaderLenType, MaxDeclaredType
   DEF ParsedPacket, NetworkEnd

LEMMA DeclaringType ==
  ASSUME NEW h \in Header, NEW p \in ParsedPacket
  PROVE  /\ Declaring(h, p) \in Header
         /\ Declaring(h, p).network = h.network /\ Declaring(h, p).netLen = p.netLen
         /\ Declaring(h, p).fragment = h.fragment
         /\ Declaring(h, p).transport = h.transport
         /\ Declaring(h, p).udpLen = IF p.transport = "udp" THEN p.udpLen ELSE h.udpLen
BY DEF Declaring, Header, ParsedPacket

(* A header that has the lengths of a parse is not changed by it.          *)
LEMMA DeclaringAlike ==
  ASSUME NEW h \in Header, NEW p \in ParsedPacket,
         h.netLen = p.netLen, p.transport = "udp" => h.udpLen = p.udpLen
  PROVE  Alike(h, Declaring(h, p))
BY DeclaringType DEF Alike

LEMMA DeclaringSame ==
  ASSUME NEW h \in Header, NEW length,
         NEW p \in ParsedPacket, p = Parse(h, length, "default"), p.network # "none"
  PROVE  p = Parse(Declaring(h, p), length, "default")
<1>1. h.netLen = p.netLen
  BY ParsedNetwork
<1>2. p.transport = "udp" => h.udpLen = p.udpLen
  BY ParsedTransport
<1>. QED
  BY <1>1, <1>2, DeclaringAlike, AlikeParse

(* Whether it was finalized or not, an undisturbed packet has the layers   *)
(* that the snapshot names, and its lengths are those of the snapshot or   *)
(* the ones a finalizer derived from them.                                 *)
LEMMA SnapshotSays ==
  ASSUME TypeOK, SnapshotInv, history \cap {"disturbed", "resumed"} = {},
         NEW p \in journal.base, p.network # "none"
  PROVE  /\ p \in ParsedPacket
         /\ p = Parse(Declaring(header, p), journal.baseFrame, "default")
         /\ frame = journal.baseFrame + journal.tailDelta
         /\ \/ /\ header.netLen = p.netLen
               /\ p.transport = "udp" => header.udpLen = p.udpLen
            \/ /\ NetworkEnd(header) = Extent(p, NetworkEnd(p))
               /\ p.transport = "udp" =>
                    TransportStart(p) + header.udpLen =
                      Extent(p, TransportStart(p) + p.udpLen)
<1>0. journal.base # {} /\ p \in ParsedPacket /\ header \in Header
  BY NumbersType
<1>1. frame = journal.baseFrame + journal.tailDelta
  BY <1>0 DEF SnapshotInv
<1>2. CASE "sealed" \in history
  BY <1>0, <1>1, <1>2 DEF SnapshotInv, Sealed
<1>3. CASE "sealed" \notin history
  <2>1. p = Parse(header, journal.baseFrame, "default")
    BY <1>3 DEF SnapshotInv
  <2>2. p = Parse(Declaring(header, p), journal.baseFrame, "default")
    BY <1>0, <2>1, DeclaringSame
  <2>3. header.netLen = p.netLen
    BY <2>1, ParsedNetwork
  <2>4. p.transport = "udp" => header.udpLen = p.udpLen
    BY <2>1, ParsedTransport
  <2>. QED
    BY <1>0, <1>1, <2>2, <2>3, <2>4
<1>. QED
  BY <1>2, <1>3

(* The same, layer by layer.                                               *)
LEMMA SnapshotLayers ==
  ASSUME TypeOK, SnapshotInv, history \cap {"disturbed", "resumed"} = {},
         NEW p \in journal.base, p.network # "none"
  PROVE  /\ header.network = p.network /\ header.fragment = p.fragment
         /\ HeaderLen[p.network] <= p.netLen
         /\ NetworkEnd(p) <= journal.baseFrame
         /\ p.transport # "none" => header.transport = p.transport
<1> DEFINE k == Declaring(header, p)
<1>1. p = Parse(k, journal.baseFrame, "default")
  BY SnapshotSays
<1>2. k.network = header.network /\ k.fragment = header.fragment
      /\ k.transport = header.transport
  BY NumbersType, DeclaringType
<1>. HIDE DEF k
<1>. QED
  BY <1>1, <1>2, ParsedNetwork, ParsedTransport

(* Without tail resizes, or once they cancel, the snapshot is the parse of *)
(* the packet as it is.                                                    *)
LEMMA CancelledSnapshot ==
  ASSUME TypeOK, SnapshotInv, history \cap {"disturbed", "resumed"} = {},
         NEW p \in journal.base, journal.tailDelta = 0
  PROVE  frame = journal.baseFrame /\ Parse(header, frame, "default") = p
<1>0. journal.base # {} /\ p \in ParsedPacket /\ header \in Header
      /\ frame \in Nat /\ journal.baseFrame \in Nat
  BY NumbersType
<1>1. frame = journal.baseFrame
  BY <1>0 DEF SnapshotInv
<1>2. CASE "sealed" \notin history
  BY <1>1, <1>2 DEF SnapshotInv
<1>3. CASE "sealed" \in history
  <2>1. Sealed(p)
    BY <1>3 DEF SnapshotInv
  <2>2. \A end : Extent(p, end) = end
    BY DEF Extent
  <2>3. header.netLen \in Nat /\ header.udpLen \in Nat /\ p.netLen \in Nat /\ p.udpLen \in Nat
    BY <1>0, PacketMutationAssumption DEF Header, ParsedPacket
  <2>4. NetworkEnd(header) = NetworkEnd(p)
    BY <2>1, <2>2 DEF Sealed
  <2>5. header.netLen = p.netLen
    BY <2>3, <2>4, HeaderLenType DEF NetworkEnd
  <2>6. ASSUME p.transport = "udp" PROVE header.udpLen = p.udpLen
    <3>1. TransportStart(p) + header.udpLen = TransportStart(p) + p.udpLen
      BY <2>1, <2>2, <2>6 DEF Sealed
    <3>2. p.network \in Network
      BY <1>0, <2>1 DEF Sealed, ParsedPacket
    <3>3. TransportStart(p) \in Nat
      BY <3>2, HeaderLenType DEF TransportStart
    <3>. QED
      BY <2>3, <3>1, <3>3
  <2>. QED
    BY <1>0, <1>1, <2>1, <2>5, <2>6, DeclaringAlike, AlikeParse DEF Sealed
<1>. QED
  BY <1>1, <1>2, <1>3

(* The finalizer goes by the snapshot, if there is one.                    *)
LEMMA BaseIsSnapshot ==
  ASSUME TypeOK, CacheIsCurrent, SnapshotInv,
         history \cap {"disturbed", "resumed"} = {}, NEW p \in journal.base
  PROVE  Base = p /\ BaseFrame = journal.baseFrame
<1>1. CASE journal.tailDelta = 0
  BY <1>1, CancelledSnapshot, ParsedIsParse DEF Base, BaseFrame, CurrentParsed
<1>2. CASE journal.tailDelta # 0
  <2>1. (CHOOSE q \in journal.base : TRUE) \in journal.base
    OBVIOUS
  <2>2. (CHOOSE q \in journal.base : TRUE) = p
    BY <2>1 DEF TypeOK
  <2>. QED
    BY <1>2, <2>2 DEF Base, BaseFrame
<1>. QED
  BY <1>1, <1>2

LEMMA BaseIsCurrent ==
  ASSUME TypeOK, CacheIsCurrent, DeltasAccountForFrame, journal.base = {}
  PROVE  /\ journal.tailDelta = 0
         /\ Base = Parse(header, frame, "default") /\ BaseFrame = frame
BY ParsedIsParse DEF Base, BaseFrame, CurrentParsed, DeltasAccountForFrame

(* All the finalizer relies on when it trusts its parse.                   *)
Trusted ==
  /\ Base \in ParsedPacket /\ BaseFrame \in Nat
  /\ Base.network \in Network
  /\ frame = BaseFrame + journal.tailDelta
  /\ Base = Parse(Declaring(header, Base), BaseFrame, "default")
  /\ header.network = Base.network /\ header.fragment = Base.fragment
  /\ HeaderLen[Base.network] <= Base.netLen
  /\ NetworkEnd(Base) <= BaseFrame
  /\ Base.transport # "none" => header.transport = Base.transport
  /\ \/ header.netLen = Base.netLen
     \/ NetworkEnd(header) = ResizedEnd(Base, NetworkEnd(Base))
  /\ Base.transport = "udp" =>
       \/ header.udpLen = Base.udpLen
       \/ TransportStart(Base) + header.udpLen =
            ResizedEnd(Base, TransportStart(Base) + Base.udpLen)

LEMMA UndisturbedIsTrusted ==
  ASSUME TypeOK, CacheIsCurrent, DeltasAccountForFrame, SnapshotInv,
         history \cap {"disturbed", "resumed"} = {}, Base.network # "none"
  PROVE  Trusted
<1>0. header \in Header /\ frame \in Nat /\ journal.baseFrame \in Nat
      /\ journal.base \subseteq ParsedPacket
  BY NumbersType
<1>1. CASE journal.base = {}
  <2>1. /\ journal.tailDelta = 0
        /\ Base = Parse(header, frame, "default") /\ BaseFrame = frame
    BY <1>1, BaseIsCurrent
  <2>2. Base \in ParsedPacket
    BY <1>0, <2>1, ParseType
  <2>3. Base = Parse(Declaring(header, Base), frame, "default")
    BY <1>0, <2>1, <2>2, DeclaringSame
  <2>4. /\ header.network = Base.network /\ header.netLen = Base.netLen
        /\ header.fragment = Base.fragment
        /\ HeaderLen[Base.network] <= Base.netLen /\ NetworkEnd(Base) <= frame
    BY <2>1, ParsedNetwork
  <2>5. Base.transport # "none" =>
          /\ header.transport = Base.transport
          /\ Base.transport = "udp" => header.udpLen = Base.udpLen
    BY <2>1, ParsedTransport
  <2>6. Base.network \in Network
    BY <2>2 DEF ParsedPacket
  <2>. QED
    BY <1>0, <2>1, <2>2, <2>3, <2>4, <2>5, <2>6 DEF Trusted
<1>2. ASSUME NEW p \in journal.base
      PROVE  Trusted
  <2>1. Base = p /\ BaseFrame = journal.baseFrame
    BY BaseIsSnapshot
  <2>2. \A end : Extent(p, end) = ResizedEnd(p, end)
    BY <2>1 DEF Extent, ResizedEnd
  <2>3. p.network # "none" /\ p \in ParsedPacket /\ p.network \in Network
    BY <1>0, <2>1 DEF ParsedPacket
  <2>. QED
    BY <1>0, <2>1, <2>2, <2>3, SnapshotSays, SnapshotLayers DEF Trusted
<1>. QED
  BY <1>1, <1>2

-----------------------------------------------------------------------------
(* What it writes. *)

LEMMA BaseNumbers ==
  ASSUME TypeOK, Trusted
  PROVE  /\ HeaderLen["ethernet"] \in Nat /\ HeaderLen[Base.network] \in Nat \ {0}
         /\ Base.transport \in Checksummed => HeaderLen[Base.transport] \in Nat \ {0}
         /\ Base.netLen \in Nat /\ Base.udpLen \in Nat
         /\ NetworkEnd(Base) = HeaderLen["ethernet"] + Base.netLen
         /\ TransportStart(Base) = HeaderLen["ethernet"] + HeaderLen[Base.network]
         /\ PayloadLen(Base) = Base.netLen - HeaderLen[Base.network]
         /\ frame \in Nat /\ BaseFrame \in Nat /\ journal.tailDelta \in Int
         /\ frame = BaseFrame + journal.tailDelta
         /\ NetworkEnd(Base) <= BaseFrame
         /\ header.netLen \in Nat /\ header.udpLen \in Nat
         /\ NetworkEnd(header) = HeaderLen["ethernet"] + header.netLen
<1>1. HeaderLen["ethernet"] \in Nat /\ HeaderLen[Base.network] \in Nat \ {0}
  BY HeaderLenType DEF Trusted
<1>2. Base.transport \in Checksummed => HeaderLen[Base.transport] \in Nat \ {0}
  BY HeaderLenType DEF Transport
<1>3. Base.netLen \in Nat /\ Base.udpLen \in Nat
  BY ParsedNumbers DEF Trusted
<1>4. header.netLen \in Nat /\ header.udpLen \in Nat
  BY NumbersType, PacketMutationAssumption DEF Header
<1>. QED
  BY <1>1, <1>2, <1>3, <1>4, NumbersType
     DEF Trusted, NetworkEnd, TransportStart, PayloadLen

(* An extent within the packet never ends after the frame.                 *)
LEMMA ResizedEndFits ==
  ASSUME TypeOK, Trusted, NEW end \in Int, end <= NetworkEnd(Base)
  PROVE  /\ ResizedEnd(Base, end) \in Int
         /\ ResizedEnd(Base, end) <= frame
         /\ ResizedEnd(Base, end) \in {end, frame}
<1>1. /\ frame \in Int /\ BaseFrame \in Int /\ journal.tailDelta \in Int
      /\ frame = BaseFrame + journal.tailDelta /\ NetworkEnd(Base) \in Int
      /\ NetworkEnd(Base) <= BaseFrame
  BY BaseNumbers
<1>2. CASE journal.tailDelta > 0
  BY <1>1, <1>2 DEF ResizedEnd
<1>3. CASE journal.tailDelta < 0
  BY <1>1, <1>3 DEF ResizedEnd
<1>4. CASE journal.tailDelta = 0
  BY <1>1, <1>4 DEF ResizedEnd
<1>. QED
  BY <1>1, <1>2, <1>3, <1>4

LEMMA NewNetwork ==
  ASSUME TypeOK, Trusted
  PROVE  /\ NewNetLen \in Int
         /\ HeaderLen["ethernet"] + NewNetLen = ResizedEnd(Base, NetworkEnd(Base))
         /\ HeaderLen["ethernet"] + NewNetLen <= frame
         /\ NetLenChanged \/ header.netLen = NewNetLen
<1> DEFINE eth == HeaderLen["ethernet"]
           end == ResizedEnd(Base, NetworkEnd(Base))
<1>1. /\ eth \in Nat /\ NetworkEnd(Base) = eth + Base.netLen /\ Base.netLen \in Nat
      /\ header.netLen \in Nat /\ NetworkEnd(header) = eth + header.netLen
  BY BaseNumbers
<1>2. end \in Int /\ end <= frame
  BY <1>1, ResizedEndFits
<1>3. NewNetLen = end - eth
  BY DEF NewNetLen
<1>4. header.netLen = Base.netLen \/ NetworkEnd(header) = end
  BY DEF Trusted
<1>5. frame \in Nat
  BY NumbersType
<1>. HIDE DEF eth, end
<1>6. NewNetLen \in Int /\ eth + NewNetLen = end /\ eth + NewNetLen <= frame
  BY <1>1, <1>2, <1>3, <1>5
<1>7. NetLenChanged \/ header.netLen = NewNetLen
  BY <1>1, <1>2, <1>3, <1>4 DEF NetLenChanged
<1>. QED
  BY <1>6, <1>7 DEF eth, end

(* The extent of the transport layer, and where it ends.                   *)
LEMMA NewTransport ==
  ASSUME TypeOK, Trusted, Base.transport \in Checksummed
  PROVE  /\ TransportLen(Base) \in Int
         /\ HeaderLen[Base.transport] <= TransportLen(Base)
         /\ NewTransportLen \in Int
         /\ TransportStart(Base) + NewTransportLen =
              ResizedEnd(Base, TransportStart(Base) + TransportLen(Base))
         /\ Base.transport = "tcp" =>
              NewTransportLen = NewNetLen - HeaderLen[Base.network]
         /\ Base.transport = "udp" => TransportLenChanged \/ header.udpLen = NewTransportLen
         /\ TransportStart(Base) + TransportLen(Base) \in Int
<1> DEFINE start_ == TransportStart(Base)
           length == TransportLen(Base)
           end == ResizedEnd(Base, start_ + length)
<1>1. /\ start_ \in Nat /\ Base.netLen \in Nat /\ Base.udpLen \in Nat
      /\ HeaderLen["ethernet"] \in Nat /\ HeaderLen[Base.network] \in Nat
      /\ start_ = HeaderLen["ethernet"] + HeaderLen[Base.network]
      /\ NetworkEnd(Base) = HeaderLen["ethernet"] + Base.netLen
      /\ PayloadLen(Base) = Base.netLen - HeaderLen[Base.network]
      /\ HeaderLen[Base.transport] \in Nat
      /\ header.udpLen \in Nat
  BY BaseNumbers
<1>2. /\ Base.transport = "udp" => length = Base.udpLen
      /\ Base.transport = "tcp" => length = PayloadLen(Base)
      /\ Base.transport \in {"tcp", "udp"}
  BY DEF TransportLen, Checksummed
<1>3. length \in Int
  BY <1>1, <1>2
<1>4. HeaderLen[Base.transport] <= length
  <2> DEFINE k == Declaring(header, Base)
  <2>1. /\ k.transport = header.transport /\ k.network = header.network
        /\ k.netLen = Base.netLen
        /\ k.udpLen = IF Base.transport = "udp" THEN Base.udpLen ELSE header.udpLen
    BY NumbersType, DeclaringType DEF Trusted
  <2>2. Base = Parse(k, BaseFrame, "default") /\ Base.transport # "none"
    BY DEF Trusted, Checksummed
  <2>. HIDE DEF k
  <2>3. TransportPresent(k, "default") /\ k.transport = Base.transport
    BY <2>2, ParsedTransport
  <2>4. PayloadLen(k) = PayloadLen(Base)
    BY <2>1 DEF PayloadLen, Trusted
  <2>. QED
    BY <1>2, <2>1, <2>3, <2>4 DEF TransportPresent
<1>5. end \in Int
  <2>1. frame \in Int
    BY NumbersType
  <2>. QED
    BY <1>1, <1>3, <2>1 DEF ResizedEnd
<1>6. NewTransportLen = end - start_
  BY DEF NewTransportLen
<1>7. ASSUME Base.transport = "tcp"
      PROVE  NewTransportLen = NewNetLen - HeaderLen[Base.network]
  <2>1. start_ + length = NetworkEnd(Base)
    BY <1>1, <1>2, <1>7
  <2>2. end = HeaderLen["ethernet"] + NewNetLen /\ NewNetLen \in Int
    BY <2>1, NewNetwork
  <2>. HIDE DEF end, start_
  <2>. QED
    BY <1>1, <1>6, <2>2
<1>8. ASSUME Base.transport = "udp"
      PROVE  TransportLenChanged \/ header.udpLen = NewTransportLen
  <2>1. header.udpLen = Base.udpLen \/ start_ + header.udpLen = end
    BY <1>2, <1>8 DEF Trusted
  <2>2. length = Base.udpLen
    BY <1>2, <1>8
  <2>3. TransportLenChanged <=> NewTransportLen # length
    BY DEF TransportLenChanged
  <2>. HIDE DEF end, start_, length
  <2>. QED
    BY <1>1, <1>5, <1>6, <2>1, <2>2, <2>3
<1>9. start_ + NewTransportLen = end /\ NewTransportLen \in Int
  <2>. HIDE DEF end, start_, length
  <2>. QED
    BY <1>1, <1>5, <1>6
<1>10. start_ + length \in Int
  <2>. HIDE DEF end, start_, length
  <2>. QED
    BY <1>1, <1>3
<1>. QED
  BY <1>3, <1>4, <1>7, <1>8, <1>9, <1>10

LEMMA TrustedInPlace ==
  ASSUME Trusted
  PROVE  Outcomes = {Patched(Pending)}
BY DEF Trusted, HeadersInPlace, Outcomes, Standing

(* The lengths of the header that is written are the new ones, whether     *)
(* they had to be written or not.                                          *)
LEMMA PatchedLengths ==
  ASSUME TypeOK, Trusted, NEW h, h = Patched(Pending)
  PROVE  /\ h.network = Base.network /\ h.fragment = Base.fragment
         /\ h.transport = header.transport
         /\ h.netLen = NewNetLen
         /\ h.udpLen = IF Base.transport = "udp" THEN NewTransportLen
                                                         ELSE header.udpLen
         /\ (IpSumComputed => h.ipSum)
         /\ (L4SumComputed => h.l4Sum = "right")
<1> DEFINE netLen == IF NetLenChanged THEN NewNetLen ELSE header.netLen
           udpLen == IF Base.transport = "udp" /\ TransportLenChanged
                       THEN NewTransportLen ELSE header.udpLen
           lengths == [header EXCEPT !.netLen = netLen, !.udpLen = udpLen]
           ipSum == IF IpSumComputed THEN lengths.netLen = NewNetLen
                    ELSE header.ipSum /\ lengths.netLen = header.netLen
           l4Sum == IF L4SumComputed
                      THEN IF TransportLen(lengths) = NewTransportLen
                             THEN "right" ELSE "wrong"
                      ELSE IF TransportLen(lengths) = TransportLen(header)
                             THEN header.l4Sum ELSE Spoiled(header.l4Sum)
<1>0. header \in Header
  BY NumbersType
<1>1. netLen = NewNetLen
  BY NewNetwork
<1>2. udpLen = IF Base.transport = "udp" THEN NewTransportLen ELSE header.udpLen
  <2>1. CASE Base.transport = "udp"
    <3>1. Base.transport \in Checksummed
      BY <2>1 DEF Checksummed
    <3>. QED
      BY <2>1, <3>1, NewTransport
  <2>2. CASE Base.transport # "udp"
    BY <2>2
  <2>. QED
    BY <2>1, <2>2
<1>. HIDE DEF netLen, udpLen
<1>3. /\ lengths.network = header.network /\ lengths.fragment = header.fragment
      /\ lengths.transport = header.transport
      /\ lengths.netLen = netLen /\ lengths.udpLen = udpLen
      /\ lengths.ipSum = header.ipSum /\ lengths.l4Sum = header.l4Sum
  BY <1>0 DEF Header
<1>4. {"ipSum", "l4Sum", "network", "netLen", "fragment", "transport", "udpLen"}
        = DOMAIN lengths
  BY <1>0 DEF Header
<1>5. h = [lengths EXCEPT !.ipSum = ipSum, !.l4Sum = l4Sum]
  <2>1. /\ "netLen" \in Pending <=> NetLenChanged
        /\ "udpLen" \in Pending <=> Base.transport = "udp" /\ TransportLenChanged
        /\ "ipSum" \in Pending <=> IpSumComputed
        /\ "l4Sum" \in Pending <=> L4SumComputed
    BY DEF Pending
  <2>2. Patched(Pending) = [lengths EXCEPT
          !.ipSum = IF "ipSum" \in Pending THEN lengths.netLen = NewNetLen
                    ELSE lengths.ipSum /\ lengths.netLen = header.netLen,
          !.l4Sum = IF "l4Sum" \in Pending
                      THEN IF TransportLen(lengths) = NewTransportLen
                             THEN "right" ELSE "wrong"
                      ELSE IF TransportLen(lengths) = TransportLen(header)
                             THEN lengths.l4Sum ELSE Spoiled(lengths.l4Sum)]
    BY <2>1 DEF Patched, netLen, udpLen
  <2>. QED
    BY <1>3, <2>1, <2>2
<1>6. ASSUME L4SumComputed PROVE TransportLen(lengths) = NewTransportLen
  <2>1. Base.transport \in Checksummed /\ Base.transport # "none"
    BY <1>6 DEF L4SumComputed, Checksummed
  <2>2. lengths.transport = Base.transport
    BY <1>3, <2>1 DEF Trusted
  <2>3. CASE Base.transport = "udp"
    BY <1>2, <1>3, <2>2, <2>3 DEF TransportLen
  <2>4. CASE Base.transport = "tcp"
    <3>1. TransportLen(lengths) = NewNetLen - HeaderLen[Base.network]
      BY <1>1, <1>3, <2>2, <2>4 DEF TransportLen, PayloadLen, Trusted
    <3>. QED
      BY <2>1, <2>4, <3>1, NewTransport
  <2>. QED
    BY <2>1, <2>3, <2>4 DEF Checksummed
<1>7. /\ IpSumComputed => ipSum
      /\ L4SumComputed => l4Sum = "right"
  BY <1>1, <1>3, <1>6
<1>. HIDE DEF ipSum, l4Sum, lengths
<1>8. /\ h.network = header.network /\ h.fragment = header.fragment
      /\ h.transport = header.transport /\ h.netLen = netLen
      /\ h.udpLen = udpLen /\ h.ipSum = ipSum /\ h.l4Sum = l4Sum
  BY <1>3, <1>4, <1>5
<1>. QED
  BY <1>1, <1>2, <1>7, <1>8 DEF Trusted

(* So a trusted packet is consistent once it is finalized.                 *)
LEMMA FinalizedConsistent ==
  ASSUME TypeOK, Trusted, FinalizeDone
  PROVE  Consistent'
<1>1. header' = Patched(Pending) /\ Accepted(header')
  BY TrustedInPlace DEF FinalizeDone
<1>2. /\ journal'.ipDue = journal.ipDue /\ journal'.l4Due = journal.l4Due
      /\ UNCHANGED frame
  BY NumbersType DEF FinalizeDone, MutationJournal
<1>3. NetworkPresent(header', frame)
  BY <1>1 DEF Accepted, Parse
<1>4. ASSUME journal.ipDue, header'.network = "ipv4"
      PROVE  header'.ipSum
  BY <1>1, <1>4, PatchedLengths DEF IpSumComputed
<1>5. ASSUME journal.l4Due, header'.transport \in Checksummed
      PROVE  header'.l4Sum = "right"
  <2>1. L4SumComputed
    BY <1>5 DEF FinalizeDone, Finalizable, L4SumComputed
  <2>. QED
    BY <1>1, <2>1, PatchedLengths
<1>. QED
  BY <1>2, <1>3, <1>4, <1>5 DEF Consistent, NetworkPresent, NetworkEnd

(* A packet becomes ready by a finalizer only, and stays as it left it.    *)
LEMMA ReadySteps ==
  ASSUME TypeOK, [Next]_vars, Ready'
  PROVE  \/ FinalizeDone
         \/ Ready /\ UNCHANGED <<header, frame, journal, history>>
<1>1. CASE EditFails \/ FinalizeRefused \/ FinalizeRolledBack
  BY <1>1, FailedType
     DEF EditFails, FinalizeRefused, FinalizeRolledBack, TypeOK, Ready
<1>2. ASSUME NEW n \in 0 .. Storage,
             EditSameLength \/ Prepend(n) \/ TrimHead(n) \/ Append(n) \/ TrimTail(n)
      PROVE  FALSE
  BY <1>2, EditsRecord DEF Recorder, Ready
<1>3. CASE EditSameLength
  <2>1. 0 \in 0 .. Storage
    BY PacketMutationAssumption
  <2>. QED
    BY <1>2, <1>3, <2>1
<1>4. ASSUME NEW config \in ParserConfig, ParseView(config)
      PROVE  Ready /\ UNCHANGED <<header, frame, journal, history>>
  BY <1>4 DEF ParseView, Ready
<1>5. CASE UNCHANGED vars
  BY <1>5 DEF vars, Ready
<1>. QED
  BY <1>1, <1>2, <1>3, <1>4, <1>5, NextCases

LEMMA FinalizedParses ==
  ASSUME FinalizeDone
  PROVE  ReadyPacketsParse'
<1>1. Accepted(header') /\ frame' = frame
  BY DEF FinalizeDone
<1>2. NetworkPresent(header', frame)
  BY <1>1 DEF Accepted, Parse
<1>3. ASSUME header'.network = "ipv6", header'.transport = "udp",
             TransportPresent(header', "default")
      PROVE  header'.l4Sum # "zero"
  BY <1>1, <1>2, <1>3 DEF Accepted, Parse
<1>. QED
  BY <1>1, <1>2, <1>3
     DEF ReadyPacketsParse, NetworkPresent, NetworkEnd, TransportPresent, PayloadLen

-----------------------------------------------------------------------------
(* The snapshot through a step. *)

(* What it says depends on what a parser tells apart, and on the lengths.  *)
LEMMA SaysStands ==
  ASSUME Alike(header, header'), header \in Header, header' \in Header,
         NEW p \in ParsedPacket,
         UNCHANGED frame, journal'.tailDelta = journal.tailDelta,
         journal'.baseFrame = journal.baseFrame
  PROVE  /\ Sealed(p) => Sealed(p)'
         /\ p = Parse(header, journal.baseFrame, "default") =>
              p = Parse(header', journal'.baseFrame, "default")
<1>1. Alike(Declaring(header, p), Declaring(header', p))
  BY DeclaringType DEF Alike
<1>2. \A end : Extent(p, end)' = Extent(p, end)
  BY DEF Extent, NetworkEnd
<1>3. NetworkEnd(header') = NetworkEnd(header) /\ header'.udpLen = header.udpLen
  BY DEF Alike, NetworkEnd
<1>4. Parse(header, journal.baseFrame, "default") = Parse(header', journal.baseFrame, "default")
  BY AlikeParse
<1>5. Parse(Declaring(header, p), journal.baseFrame, "default")
        = Parse(Declaring(header', p), journal.baseFrame, "default")
  BY <1>1, AlikeParse
<1>6. /\ TransportStart(p)' = TransportStart(p) /\ NetworkEnd(p)' = NetworkEnd(p)
      /\ NetworkEnd(header)' = NetworkEnd(header')
      /\ Parse(Declaring(header, p), journal.baseFrame, "default")'
           = Parse(Declaring(header', p), journal'.baseFrame, "default")
  BY DEF TransportStart, NetworkEnd, Parse, Declaring, NetworkPresent, TransportPresent,
         PayloadLen
<1>7. ASSUME Sealed(p) PROVE Sealed(p)'
  <2>1. p = Parse(Declaring(header', p), journal'.baseFrame, "default")
    BY <1>5, <1>7 DEF Sealed
  <2>2. NetworkEnd(header') = Extent(p, NetworkEnd(p))'
    BY <1>2, <1>3, <1>6, <1>7 DEF Sealed
  <2>3. ASSUME p.transport = "udp"
        PROVE  TransportStart(p) + header'.udpLen
                 = Extent(p, TransportStart(p) + p.udpLen)'
    BY <1>2, <1>3, <1>6, <1>7, <2>3 DEF Sealed
  <2>. QED
    BY <1>6, <1>7, <2>1, <2>2, <2>3 DEF Sealed
<1>. QED
  BY <1>4, <1>7

LEMMA FieldStepKeeps ==
  ASSUME TypeOK, TypeOK', SnapshotInv, FieldStep
  PROVE  SnapshotInv'
<1>1. /\ UNCHANGED <<frame, history>> /\ Alike(header, header')
      /\ journal'.delta = journal.delta /\ journal'.tailDelta = journal.tailDelta
      /\ journal'.base = journal.base /\ journal'.baseFrame = journal.baseFrame
      /\ header \in Header /\ header' \in Header
  BY DEF FieldStep, Still, TypeOK
<1>2. ASSUME NEW p \in journal.base, history \cap {"disturbed", "resumed"} = {}
      PROVE  IF "sealed" \in history
               THEN Sealed(p)'
               ELSE p = Parse(header', journal'.baseFrame, "default")
  <2>1. p \in ParsedPacket
    BY NumbersType
  <2>. QED
    BY <1>1, <1>2, <2>1, SaysStands DEF SnapshotInv
<1>. QED
  BY <1>1, <1>2, Zenon DEF SnapshotInv

(* A write or a resize of the front that a snapshot does not survive says  *)
(* so; without a snapshot there is nothing to say.                         *)
LEMMA DisturbingStepKeeps ==
  ASSUME TypeOK, SnapshotInv, RawStep \/ HeadStep
  PROVE  SnapshotInv'
<1>1. /\ journal'.base = journal.base
      /\ "sealed" \in history' => "sealed" \in history
      /\ journal.base # {} => "disturbed" \in history'
  BY DEF RawStep, HeadStep, Still, Disturbance
<1>2. "head" \notin history' => journal'.delta = journal'.tailDelta
  BY DEF RawStep, HeadStep, Still, SnapshotInv
<1>3. CASE journal.base = {}
  BY <1>1, <1>2, <1>3, Zenon DEF SnapshotInv
<1>4. CASE journal.base # {}
  BY <1>1, <1>2, <1>4, Zenon DEF SnapshotInv
<1>. QED
  BY <1>3, <1>4

LEMMA TailStepKeeps ==
  ASSUME TypeOK, TypeOK', CacheIsCurrent, DeltasAccountForFrame, SnapshotInv, TailStep
  PROVE  SnapshotInv'
<1>1. PICK n \in Int :
        /\ frame' = frame + n
        /\ journal'.delta = journal.delta + n
        /\ journal'.tailDelta = journal.tailDelta + n
        /\ journal'.base = IF journal.base # {} THEN journal.base ELSE {CurrentParsed}
        /\ journal'.baseFrame = IF journal.base # {} THEN journal.baseFrame ELSE frame
        /\ history \cup Resumption \subseteq history'
        /\ history' \subseteq history \cup Resumption \cup {"disturbed"}
        /\ "disturbed" \notin history' => Alike(header, header')
  BY DEF TailStep
<1>2. /\ frame \in Nat /\ journal.tailDelta \in Int /\ journal.delta \in Int
      /\ journal.baseFrame \in Nat /\ header \in Header /\ header' \in Header
  BY NumbersType DEF TypeOK
<1>3. ASSUME "head" \notin history' PROVE journal'.delta = journal'.tailDelta
  BY <1>1, <1>2, <1>3 DEF SnapshotInv
<1>4. ASSUME "disturbed" \notin history'
      PROVE  frame' = journal'.baseFrame + journal'.tailDelta
  <2>1. CASE journal.base # {}
    <3>1. frame = journal.baseFrame + journal.tailDelta
      BY <1>1, <1>4, <2>1 DEF SnapshotInv
    <3>. QED
      BY <1>1, <1>2, <2>1, <3>1
  <2>2. CASE journal.base = {}
    <3>1. journal.tailDelta = 0
      BY <2>2 DEF DeltasAccountForFrame
    <3>. QED
      BY <1>1, <1>2, <2>2, <3>1
  <2>. QED
    BY <2>1, <2>2
<1>5. journal'.base # {}
  BY <1>1
<1>6. ASSUME history' \cap {"disturbed", "resumed"} = {}, NEW p \in journal'.base
      PROVE  IF "sealed" \in history'
               THEN Sealed(p)'
               ELSE p = Parse(header', journal'.baseFrame, "default")
  <2>1. Alike(header, header') /\ "sealed" \notin history
    BY <1>1, <1>6 DEF Resumption
  <2>2. "sealed" \notin history'
    BY <1>1, <2>1 DEF Resumption
  <2>3. p = Parse(header, journal'.baseFrame, "default")
    <3>1. CASE journal.base # {}
      BY <1>1, <1>6, <2>1, <3>1 DEF SnapshotInv
    <3>2. CASE journal.base = {}
      BY <1>1, <1>6, <3>2, ParsedIsParse DEF CurrentParsed
    <3>. QED
      BY <3>1, <3>2
  <2>4. Parse(header, journal'.baseFrame, "default")
          = Parse(header', journal'.baseFrame, "default")
    BY <2>1, AlikeParse
  <2>. QED
    BY <2>2, <2>3, <2>4
<1>. QED
  BY <1>3, <1>4, <1>5, <1>6, Zenon DEF SnapshotInv

LEMMA FinalizeKeeps ==
  ASSUME TypeOK, TypeOK', CacheIsCurrent, DeltasAccountForFrame, SnapshotInv, FinalizeDone
  PROVE  SnapshotInv'
<1>1. /\ UNCHANGED frame
      /\ journal'.delta = journal.delta /\ journal'.tailDelta = journal.tailDelta
      /\ journal'.base = journal.base /\ journal'.baseFrame = journal.baseFrame
      /\ history' = history \cup IF journal.base # {} THEN {"sealed"} ELSE {}
      /\ Finalizable
  BY NumbersType DEF FinalizeDone, MutationJournal
<1>2. ASSUME history' \cap {"disturbed", "resumed"} = {}, NEW p \in journal.base
      PROVE  Sealed(p)'
  <2>1. history \cap {"disturbed", "resumed"} = {}
    BY <1>1, <1>2
  <2>2. Base = p /\ BaseFrame = journal.baseFrame
    BY <2>1, BaseIsSnapshot
  <2>3. p.network # "none" /\ Trusted
    BY <1>1, <2>1, <2>2, UndisturbedIsTrusted DEF Finalizable, DeclaredExtentsFit
  <2>4. header' = Patched(Pending)
    BY <2>3, TrustedInPlace DEF FinalizeDone
  <2>5. /\ header'.network = header.network /\ header'.fragment = header.fragment
        /\ header'.transport = header.transport /\ header'.netLen = NewNetLen
        /\ header'.udpLen = IF p.transport = "udp" THEN NewTransportLen ELSE header.udpLen
    BY <2>2, <2>3, <2>4, PatchedLengths DEF Trusted
  <2>6. header \in Header /\ header' \in Header /\ p \in ParsedPacket
    BY NumbersType DEF TypeOK
  <2>7. Alike(Declaring(header, p), Declaring(header', p))
    BY <2>5, <2>6, DeclaringType DEF Alike
  <2>8. p = Parse(Declaring(header', p), journal'.baseFrame, "default")
    BY <1>1, <2>2, <2>3, <2>7, AlikeParse DEF Trusted
  <2>9. \A end : Extent(p, end)' = ResizedEnd(p, end)
    BY <1>1, <2>2 DEF Extent, ResizedEnd, NetworkEnd
  <2>10. NetworkEnd(header') = ResizedEnd(p, NetworkEnd(p))
    BY <2>2, <2>3, <2>5, NewNetwork DEF NetworkEnd
  <2>11. ASSUME p.transport = "udp"
         PROVE  TransportStart(p) + header'.udpLen
                  = ResizedEnd(p, TransportStart(p) + p.udpLen)
    <3>1. Base.transport \in Checksummed /\ TransportLen(Base) = p.udpLen
      BY <2>2, <2>11 DEF Checksummed, TransportLen
    <3>. QED
      BY <2>2, <2>3, <2>5, <2>11, <3>1, NewTransport
  <2>12. /\ TransportStart(p)' = TransportStart(p) /\ NetworkEnd(p)' = NetworkEnd(p)
         /\ NetworkEnd(header)' = NetworkEnd(header')
         /\ Parse(Declaring(header, p), journal.baseFrame, "default")'
              = Parse(Declaring(header', p), journal'.baseFrame, "default")
    BY DEF TransportStart, NetworkEnd, Parse, Declaring, NetworkPresent, TransportPresent,
           PayloadLen
  <2>. QED
    BY <2>3, <2>8, <2>9, <2>10, <2>11, <2>12 DEF Sealed
<1>3. journal.base # {} => "sealed" \in history'
  BY <1>1
<1>4. "sealed" \in history' => journal.base # {}
  BY <1>1 DEF SnapshotInv
<1>5. ("head" \notin history' => "head" \notin history)
      /\ ("disturbed" \notin history' => "disturbed" \notin history)
  BY <1>1
<1>. QED
  BY <1>1, <1>2, <1>3, <1>4, <1>5, Zenon DEF SnapshotInv

LEMMA SnapshotInductive ==
  TypeOK /\ TypeOK' /\ CacheIsCurrent /\ DeltasAccountForFrame /\ SnapshotInv /\ [Next]_vars
    => SnapshotInv'
BY SnapshotSteps, FieldStepKeeps, DisturbingStepKeeps, TailStepKeeps, FinalizeKeeps

(* The finalizer's snapshot stays the parse of the bytes it writes over    *)
(* until a write, a resize of the front or a further tail resize.          *)
THEOREM SnapshotCorrect == Spec => []SnapshotInv
<1>1. Init => SnapshotInv
  BY DEF Init, Fresh, SnapshotInv
<1>2. QED
  BY <1>1, TypeCorrect, CacheCorrect, DeltasCorrect, SnapshotInductive, PTL DEF Spec

-----------------------------------------------------------------------------
(* Packets that may leave. *)

LEMMA FinalizedReady ==
  ASSUME TypeOK, CacheIsCurrent, DeltasAccountForFrame, SnapshotInv, FinalizeDone
  PROVE  ReadyInv'
<1>1. ReadyPacketsParse'
  BY FinalizedParses
<1>2. /\ journal'.base = journal.base
      /\ history' = history \cup IF journal.base # {} THEN {"sealed"} ELSE {}
      /\ Finalizable
  BY NumbersType DEF FinalizeDone, MutationJournal
<1>3. ASSUME history' \cap {"disturbed", "resumed"} = {}
      PROVE  Consistent'
  <2>1. history \cap {"disturbed", "resumed"} = {}
    BY <1>2, <1>3
  <2>2. Trusted
    BY <1>2, <2>1, UndisturbedIsTrusted DEF Finalizable, DeclaredExtentsFit
  <2>. QED
    BY <2>2, FinalizedConsistent
<1>. QED
  BY <1>1, <1>2, <1>3 DEF ReadyInv, ReadyPacketsConsistent

LEMMA ReadyInductive ==
  TypeOK /\ CacheIsCurrent /\ DeltasAccountForFrame /\ SnapshotInv /\ ReadyInv /\ [Next]_vars
    => ReadyInv'
<1>. SUFFICES ASSUME TypeOK, CacheIsCurrent, DeltasAccountForFrame, SnapshotInv,
                     ReadyInv, [Next]_vars
              PROVE  ReadyInv'
  OBVIOUS
<1>1. CASE ~ Ready'
  BY <1>1 DEF ReadyInv, ReadyPacketsConsistent, ReadyPacketsParse
<1>2. CASE FinalizeDone
  BY <1>2, FinalizedReady
<1>3. CASE Ready /\ UNCHANGED <<header, frame, journal, history>>
  BY <1>3 DEF ReadyInv, ReadyPacketsConsistent, ReadyPacketsParse, Consistent, Ready,
              NetworkPresent, NetworkEnd, TransportPresent, PayloadLen
<1>. QED
  BY <1>1, <1>2, <1>3, ReadySteps

LEMMA ReadyCorrect == Spec => []ReadyInv
<1>1. Init => ReadyInv
  BY DEF Init, Fresh, Ready, ReadyInv, ReadyPacketsConsistent, ReadyPacketsParse
<1>2. QED
  BY <1>1, TypeCorrect, CacheCorrect, DeltasCorrect, SnapshotCorrect, ReadyInductive,
     PTL DEF Spec

(* Whatever is written, resized and finalized in whatever order, an edited *)
(* packet that validateForOutput lets out parses; and unless the bytes its *)
(* snapshot was parsed from were disturbed, or a second round of tail      *)
(* resizes followed a finalizer, its checksums are right over the lengths  *)
(* it declares.                                                            *)
THEOREM ReadyConsistent == Spec => []ReadyPacketsConsistent
BY ReadyCorrect, PTL DEF ReadyInv

LEMMA LengthsFollow ==
  ASSUME TypeOK, SnapshotInv, ReadyInv
  PROVE  LengthsFollowTailResizes
<1>. SUFFICES ASSUME Ready, history \cap {"head", "disturbed", "resumed"} = {},
                     NEW p \in journal.base
              PROVE  NetworkEnd(header) =
                       IF NetworkEnd(p) = journal.baseFrame \/ frame < NetworkEnd(p)
                         THEN frame
                         ELSE NetworkEnd(p)
  BY DEF LengthsFollowTailResizes
<1>1. "sealed" \in history /\ history \cap {"disturbed", "resumed"} = {}
  BY DEF ReadyInv
<1>2. Sealed(p)
  BY <1>1 DEF SnapshotInv
<1>3. /\ p \in ParsedPacket /\ p.network # "none"
      /\ NetworkEnd(p) <= journal.baseFrame
      /\ frame = journal.baseFrame + journal.tailDelta
  BY <1>1, <1>2, SnapshotSays, SnapshotLayers DEF Sealed
<1>4. /\ frame \in Nat /\ journal.baseFrame \in Nat /\ journal.tailDelta \in Int
      /\ NetworkEnd(p) \in Nat
  BY <1>3, NumbersType, ParsedNumbers
<1>5. NetworkEnd(header) = Extent(p, NetworkEnd(p))
  BY <1>2 DEF Sealed
<1>6. CASE journal.tailDelta > 0
  BY <1>3, <1>4, <1>5, <1>6 DEF Extent
<1>7. CASE journal.tailDelta < 0
  BY <1>3, <1>4, <1>5, <1>7 DEF Extent
<1>8. CASE journal.tailDelta = 0
  BY <1>3, <1>4, <1>5, <1>8 DEF Extent
<1>. QED
  BY <1>4, <1>6, <1>7, <1>8

(* After appends and tail trims up to the first finalizer, and without     *)
(* resizes of the front or bytes of callers where the headers were, the    *)
(* finalizer declares the packet to end with the frame if it did before or *)
(* was cut off, else where it ended: padding never becomes payload, for    *)
(* any header sizes and any number of resizes.                             *)
THEOREM LengthsCorrect == Spec => []LengthsFollowTailResizes
BY TypeCorrect, SnapshotCorrect, ReadyCorrect, LengthsFollow, PTL

-----------------------------------------------------------------------------
(* Legal edits. *)

(* The snapshot, or the parse of the packet: what the finalizer goes by.   *)
LEMMA LegalBase ==
  ASSUME TypeOK, CacheIsCurrent, DeltasAccountForFrame, SnapshotInv,
         LegallyEdited, "resumed" \notin history
  PROVE  /\ Trusted
         /\ Base.fragment = "whole" /\ Base.transport \in Checksummed
         /\ HeaderBytes(Base) <= frame /\ frame <= HeaderLen["ethernet"] + MaxLength
         /\ journal.tailDelta # 0 => journal.base # {} /\ journal.tailDelta = journal.delta
<1> DEFINE p == IF journal.base # {} THEN CHOOSE q \in journal.base : TRUE
                                     ELSE Parse(header, frame, "default")
<1>1. /\ history \cap {"disturbed", "resumed"} = {} /\ "head" \notin history
      /\ p.network # "none" /\ p.fragment = "whole" /\ p.transport \in Checksummed
      /\ HeaderBytes(p) <= frame /\ frame <= HeaderLen["ethernet"] + MaxLength
  BY DEF LegallyEdited
<1>2. Base = p
  <2>1. CASE journal.base = {}
    BY <2>1, BaseIsCurrent
  <2>2. CASE journal.base # {}
    <3>1. p \in journal.base
      BY <2>2
    <3>. QED
      BY <1>1, <3>1, BaseIsSnapshot
  <2>. QED
    BY <2>1, <2>2
<1>. HIDE DEF p
<1>3. Trusted
  BY <1>1, <1>2, UndisturbedIsTrusted
<1>4. journal.tailDelta # 0 => journal.base # {} /\ journal.tailDelta = journal.delta
  BY <1>1 DEF DeltasAccountForFrame, SnapshotInv
<1>. QED
  BY <1>1, <1>2, <1>3, <1>4

(* A whole packet's transport extent ends with the network's at the latest. *)
LEMMA LegalExtents ==
  ASSUME TypeOK, Trusted, Base.fragment = "whole", Base.transport \in Checksummed
  PROVE  TransportStart(Base) + TransportLen(Base) <= NetworkEnd(Base)
<1> DEFINE k == Declaring(header, Base)
<1>1. /\ k.transport = header.transport /\ k.network = header.network
      /\ k.fragment = header.fragment /\ k.netLen = Base.netLen
      /\ k.udpLen = IF Base.transport = "udp" THEN Base.udpLen ELSE header.udpLen
  BY NumbersType, DeclaringType DEF Trusted
<1>2. Base = Parse(k, BaseFrame, "default") /\ Base.transport # "none"
  BY DEF Trusted, Checksummed
<1>. HIDE DEF k
<1>3. TransportPresent(k, "default") /\ k.transport = Base.transport
  BY <1>2, ParsedTransport
<1>4. PayloadLen(k) = PayloadLen(Base) /\ k.fragment = "whole"
  BY <1>1 DEF PayloadLen, Trusted
<1>5. TransportLen(Base) <= PayloadLen(Base) /\ TransportLen(Base) \in Int
      /\ PayloadLen(Base) \in Int
  <2>1. CASE Base.transport = "udp"
    <3>1. Base.udpLen <= PayloadLen(Base) /\ TransportLen(Base) = Base.udpLen
      BY <1>1, <1>3, <1>4, <2>1 DEF TransportPresent, TransportLen
    <3>. QED
      BY <3>1, BaseNumbers
  <2>2. CASE Base.transport = "tcp"
    BY <2>2, BaseNumbers DEF TransportLen
  <2>. QED
    BY <2>1, <2>2 DEF Checksummed
<1>6. /\ TransportStart(Base) = HeaderLen["ethernet"] + HeaderLen[Base.network]
      /\ NetworkEnd(Base) = HeaderLen["ethernet"] + Base.netLen
      /\ PayloadLen(Base) = Base.netLen - HeaderLen[Base.network]
      /\ HeaderLen["ethernet"] \in Nat /\ HeaderLen[Base.network] \in Nat /\ Base.netLen \in Nat
  BY BaseNumbers
<1>. QED
  BY <1>5, <1>6

(* Both layers still have room for their headers, and fit the frame.       *)
LEMMA LegalLengths ==
  ASSUME TypeOK, Trusted, Base.fragment = "whole", Base.transport \in Checksummed,
         HeaderBytes(Base) <= frame, frame <= HeaderLen["ethernet"] + MaxLength
  PROVE  /\ HeaderLen[Base.network] + HeaderLen[Base.transport] <= NewNetLen
         /\ NewNetLen <= MaxLength
         /\ HeaderLen[Base.transport] <= NewTransportLen
         /\ HeaderLen[Base.network] + NewTransportLen <= NewNetLen
<1> DEFINE eth == HeaderLen["ethernet"]
           net == HeaderLen[Base.network]
           tra == HeaderLen[Base.transport]
           tlen == TransportLen(Base)
           netEnd == ResizedEnd(Base, NetworkEnd(Base))
           traEnd == ResizedEnd(Base, TransportStart(Base) + tlen)
<1>1. /\ eth \in Nat /\ net \in Nat /\ tra \in Nat /\ Base.netLen \in Nat
      /\ NetworkEnd(Base) = eth + Base.netLen
      /\ TransportStart(Base) = eth + net
      /\ frame \in Nat /\ NetworkEnd(Base) <= BaseFrame /\ BaseFrame \in Nat
      /\ PayloadLen(Base) = Base.netLen - net
  BY BaseNumbers
<1>2. MaxLength \in Nat
  BY PacketMutationAssumption
<1>3. eth + net + tra <= frame
  BY DEF HeaderBytes, Trusted, Network
<1>4. tra <= PayloadLen(Base)
  <2> DEFINE k == Declaring(header, Base)
  <2>1. /\ k.transport = header.transport /\ k.network = header.network
        /\ k.netLen = Base.netLen
    BY NumbersType, DeclaringType DEF Trusted
  <2>2. Base = Parse(k, BaseFrame, "default") /\ Base.transport # "none"
    BY DEF Trusted, Checksummed
  <2>. HIDE DEF k
  <2>3. TransportPresent(k, "default") /\ k.transport = Base.transport
    BY <2>2, ParsedTransport
  <2>. QED
    BY <2>1, <2>3 DEF TransportPresent, PayloadLen, Trusted
<1>5. /\ NewNetLen \in Int /\ eth + NewNetLen = netEnd
      /\ netEnd \in {NetworkEnd(Base), frame}
  <2>1. NetworkEnd(Base) \in Int /\ NetworkEnd(Base) <= NetworkEnd(Base)
    BY <1>1
  <2>. QED
    BY <2>1, NewNetwork, ResizedEndFits
<1>6. /\ tlen \in Int /\ tra <= tlen /\ NewTransportLen \in Int
      /\ TransportStart(Base) + NewTransportLen = traEnd
      /\ TransportStart(Base) + tlen \in Int
  BY NewTransport
<1>7. traEnd \in {TransportStart(Base) + tlen, frame}
  BY <1>1, <1>6 DEF ResizedEnd
<1>8. traEnd <= netEnd
  <2>1. Base \in ParsedPacket /\ BaseFrame \in Int /\ BaseFrame + journal.tailDelta = frame
    BY BaseNumbers DEF Trusted
  <2>. QED
    BY <1>6, <2>1, LegalExtents, ResizedEndBounded
<1>. HIDE DEF eth, net, tra, tlen, netEnd, traEnd
<1>9. net + tra <= NewNetLen
  BY <1>1, <1>3, <1>4, <1>5
<1>10. NewNetLen <= MaxLength
  <2>1. frame <= eth + MaxLength
    BY DEF eth
  <2>2. eth + NewNetLen <= frame
    BY NewNetwork DEF eth
  <2>. QED
    BY <1>1, <1>2, <1>5, <2>1, <2>2
<1>11. tra <= NewTransportLen
  BY <1>1, <1>3, <1>6, <1>7
<1>12. netEnd \in Int /\ traEnd \in Int
  BY <1>1, <1>5, <1>6
<1>13. net + NewTransportLen <= NewNetLen
  BY <1>1, <1>5, <1>6, <1>8, <1>12
<1>. QED
  BY <1>9, <1>10, <1>11, <1>13 DEF eth, net, tra, tlen

LEMMA LegalFinalizable ==
  ASSUME TypeOK, CacheIsCurrent, DeltasAccountForFrame, SnapshotInv,
         LegallyEdited, "resumed" \notin history
  PROVE  Finalizable
<1>1. /\ Trusted
      /\ Base.fragment = "whole" /\ Base.transport \in Checksummed
      /\ HeaderBytes(Base) <= frame /\ frame <= HeaderLen["ethernet"] + MaxLength
      /\ journal.tailDelta # 0 => journal.base # {} /\ journal.tailDelta = journal.delta
  BY LegalBase
<1>2. DeclaredExtentsFit(Base, BaseFrame)
  <2>1. Base.network # "none"
    BY <1>1 DEF Trusted, Network
  <2>2. TransportStart(Base) + TransportLen(Base) <= NetworkEnd(Base)
    BY <1>1, LegalExtents
  <2>. QED
    BY <1>1, <2>1, <2>2 DEF DeclaredExtentsFit, Trusted
<1>3. /\ HeaderLen[Base.network] <= NewNetLen /\ NewNetLen <= MaxLength
      /\ HeaderLen[Base.transport] <= NewTransportLen
  <2>1. /\ HeaderLen[Base.network] \in Nat /\ HeaderLen[Base.transport] \in Nat
        /\ NewNetLen \in Int
    BY <1>1, BaseNumbers, NewNetwork
  <2>2. /\ HeaderLen[Base.network] + HeaderLen[Base.transport] <= NewNetLen
        /\ NewNetLen <= MaxLength
        /\ HeaderLen[Base.transport] <= NewTransportLen
    BY <1>1, LegalLengths
  <2>. QED
    BY <2>1, <2>2
<1>4. BaseFrame + journal.tailDelta = frame
  BY <1>1 DEF Trusted
<1>. QED
  BY <1>1, <1>2, <1>3, <1>4 DEF Finalizable

LEMMA LegalAccepted ==
  ASSUME TypeOK, CacheIsCurrent, DeltasAccountForFrame, SnapshotInv,
         LegallyEdited, "resumed" \notin history
  PROVE  Accepted(Patched(Pending))
<1> DEFINE h == Patched(Pending)
<1>1. /\ Trusted
      /\ Base.fragment = "whole" /\ Base.transport \in Checksummed
      /\ HeaderBytes(Base) <= frame /\ frame <= HeaderLen["ethernet"] + MaxLength
  BY LegalBase
<1>2. /\ h.network = Base.network /\ h.fragment = "whole" /\ h.transport = Base.transport
      /\ h.netLen = NewNetLen /\ h.network # "none" /\ h.transport # "none"
      /\ Base.transport = "udp" => h.udpLen = NewTransportLen
      /\ L4SumComputed => h.l4Sum = "right"
  BY <1>1, PatchedLengths DEF Trusted, Network, Checksummed
<1>3. /\ HeaderLen[Base.network] + HeaderLen[Base.transport] <= NewNetLen
      /\ HeaderLen[Base.transport] <= NewTransportLen
      /\ HeaderLen[Base.network] + NewTransportLen <= NewNetLen
  BY <1>1, LegalLengths
<1>4. /\ HeaderLen[Base.network] \in Nat /\ HeaderLen[Base.transport] \in Nat
      /\ NewNetLen \in Int /\ NewTransportLen \in Int
      /\ HeaderLen["ethernet"] + NewNetLen <= frame
  BY <1>1, BaseNumbers, NewNetwork, NewTransport
<1>. HIDE DEF h
<1>5. NetworkPresent(h, frame)
  BY <1>2, <1>3, <1>4 DEF NetworkPresent, NetworkEnd
<1>6. TransportPresent(h, "default")
  <2>1. /\ HeaderLen[h.transport] <= PayloadLen(h)
        /\ h.transport = "udp" => HeaderLen["udp"] <= h.udpLen /\ h.udpLen <= PayloadLen(h)
    BY <1>2, <1>3, <1>4 DEF PayloadLen
  <2>. QED
    BY <1>2, <2>1 DEF TransportPresent
<1>7. ASSUME h.network = "ipv6", h.transport = "udp" PROVE h.l4Sum # "zero"
  BY <1>1, <1>2, <1>7 DEF L4SumComputed
<1>8. Accepted(h)
  BY <1>2, <1>5, <1>6, <1>7 DEF Accepted, Parse
<1>. QED
  BY <1>8 DEF h

(* A whole TCP or UDP packet that was edited field by field and resized at *)
(* the tail, in any number and order of edits, can be finalized as long as *)
(* its headers are there and its length can be declared.                   *)
THEOREM LegalEditsCorrect == Spec => []LegalEditsFinalize
<1>1. TypeOK /\ CacheIsCurrent /\ DeltasAccountForFrame /\ SnapshotInv => LegalEditsFinalize
  <2>. SUFFICES ASSUME TypeOK, CacheIsCurrent, DeltasAccountForFrame, SnapshotInv,
                       LegallyEdited, "resumed" \notin history
                PROVE  FinalizeSucceeds
    BY DEF LegalEditsFinalize
  <2>1. Finalizable /\ Accepted(Patched(Pending))
    BY LegalFinalizable, LegalAccepted
  <2>2. Outcomes = {Patched(Pending)}
    BY LegalBase, TrustedInPlace
  <2>. QED
    BY <2>1, <2>2 DEF FinalizeSucceeds
<1>2. QED
  BY <1>1, TypeCorrect, CacheCorrect, DeltasCorrect, SnapshotCorrect, PTL
=============================================================================
