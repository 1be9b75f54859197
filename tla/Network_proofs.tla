--------------------------- MODULE Network_proofs ---------------------------
(***************************************************************************)
(* What travels over a network that loses, repeats and reorders.           *)
(*                                                                         *)
(* Packets: for every modulus, acknowledgement window, ledger capacity,    *)
(* first sequences and number of packets below half the sequence space,    *)
(* acknowledgements are true and packets are accepted once.                *)
(*                                                                         *)
(* Snapshots: what a client reconstructs from deltas is what the server    *)
(* took, and while the ids span less than half their space the server      *)
(* builds deltas only on what the client has got past: for any number of   *)
(* snapshots with different ids, any entities, components, generations and *)
(* payloads, and stores of any capacity.                                   *)
(*                                                                         *)
(* The ring of received snapshots implements the window of sequence        *)
(* numbers, and what is shown between two snapshots lies on the motion     *)
(* they describe, for every capacity while the largest number is not used. *)
(***************************************************************************)
EXTENDS PacketChannel, SnapshotReplication, InterpolationBuffer, Functions, FiniteSetTheorems,
        WellFoundedInduction, TLAPS

-----------------------------------------------------------------------------
(***************************************************************************)
(* Packets                                                                 *)
(***************************************************************************)
LEMMA ConstantFacts ==
  /\ Modulus \in Nat /\ Modulus >= 2
  /\ HalfRange \in Nat /\ 2 * HalfRange < Modulus
  /\ AckHistory \in Nat /\ AckHistory >= 1 /\ AckHistory <= HalfRange
  /\ HistoryCapacity \in Nat /\ HistoryCapacity >= 1
  BY ModulusAssumption, WindowAssumption DEF HalfRange

LEMMA SlotType == \A s \in SequenceNumber : SentSlot(s) \in SentSlots
<1> SUFFICES ASSUME NEW s \in SequenceNumber PROVE SentSlot(s) \in SentSlots
  OBVIOUS
<1>1. s \in Nat
  BY ConstantFacts DEF SequenceNumber
<1> QED BY <1>1, ConstantFacts DEF SentSlot, SentSlots

LEMMA DistanceType ==
  \A s, t \in SequenceNumber : Distance(s, t) \in SequenceNumber
  BY ConstantFacts DEF Distance, SequenceNumber

LEMMA NextType == \A s \in SequenceNumber : NextSequence(s) \in SequenceNumber
  BY ConstantFacts DEF NextSequence, SequenceNumber

(* A step back of at most the window stays a sequence number.              *)
LEMMA BackType ==
  \A s \in SequenceNumber, k \in 1 .. AckHistory : Back(s, k) \in SequenceNumber
  BY ConstantFacts DEF Back, Distance, SequenceNumber

(* Shifting by the distance between two sequences keeps naming the same    *)
(* ones: k behind s is k plus that distance behind the later t.            *)
LEMMA ShiftNamesTheSame ==
  ASSUME NEW s \in SequenceNumber, NEW t \in SequenceNumber, NEW k \in Nat,
         k <= AckHistory, k + Distance(t, s) <= AckHistory
  PROVE  Back(t, k + Distance(t, s)) = Back(s, k)
  BY ConstantFacts DEF Back, Distance, SequenceNumber

(* An older sequence is named by its distance from the latest.             *)
LEMMA BackOfDistance ==
  ASSUME NEW s \in SequenceNumber, NEW t \in SequenceNumber
  PROVE  Back(t, Distance(t, s)) = s
  BY ConstantFacts DEF Back, Distance, SequenceNumber

-----------------------------------------------------------------------------
(* observe keeps the tracker a tracker.                                    *)
LEMMA ObservedType ==
  ASSUME NEW t \in AcknowledgementState, NEW s \in SequenceNumber, IsNews(t, s)
  PROVE  Observed(t, s) \in AcknowledgementState
<1>1. t.latest \in SequenceNumber /\ t.history \in SUBSET (1 .. AckHistory)
  BY DEF AcknowledgementState
<1>2. CASE ~t.valid
  BY <1>2 DEF Observed, AcknowledgementState
<1>3. CASE t.valid /\ MoreRecent(s, t.latest)
  <2>1. Distance(s, t.latest) \in Nat /\ Distance(s, t.latest) >= 1
    BY <1>1, <1>3, ConstantFacts DEF MoreRecent, Distance, SequenceNumber
  <2>2. Shifted(t, Distance(s, t.latest)) \in SUBSET (1 .. AckHistory)
    BY <2>1, ConstantFacts DEF Shifted
  <2> QED BY <1>3, <2>2 DEF Observed, AcknowledgementState
<1>4. CASE t.valid /\ ~MoreRecent(s, t.latest)
  <2>1. s # t.latest /\ Distance(t.latest, s) <= AckHistory
    BY <1>4 DEF IsNews
  <2>2. Distance(t.latest, s) \in 1 .. AckHistory
    BY <1>1, <2>1, ConstantFacts DEF Distance, SequenceNumber
  <2> QED BY <1>4, <2>2 DEF Observed, AcknowledgementState
<1> QED BY <1>2, <1>3, <1>4

LEMMA NamedType ==
  ASSUME NEW ack \in AcknowledgementState
  PROVE  Named(ack) \subseteq SequenceNumber
  BY BackType DEF Named, AcknowledgementState

LEMMA TypeInit == PacketInit => TypeOK
  BY SendsAssumption, ConstantFacts
     DEF PacketInit, TypeOK, NothingReceived, AcknowledgementState, SequenceNumber

LEMMA TypeProcess ==
  ASSUME TypeOK, NEW e \in Endpoints, NEW d \in network, ProcessAcknowledgements(e, d)
  PROVE  TypeOK'
<1> DEFINE newly == NewlyAcknowledged(e, d.ack)
<1>1. newly \subseteq SequenceNumber
  BY NamedType DEF NewlyAcknowledged, TypeOK, Datagram
<1>2. ASSUME NEW i \in SentSlots, NEW s \in newly, SentSlot(s) = i
      PROVE  ledger[e][i] \in Record
  <2>1. ledger[e][i] = [sequence |-> s, acknowledged |-> FALSE]
    BY <1>2 DEF NewlyAcknowledged
  <2> HIDE DEF newly
  <2> QED BY <1>1, <2>1 DEF Record
<1>3. \A r \in Record : [r EXCEPT !.acknowledged = TRUE] \in Record
  BY DEF Record
<1> DEFINE marked == [i \in SentSlots |->
             IF \E s \in newly : SentSlot(s) = i
             THEN [ledger[e][i] EXCEPT !.acknowledged = TRUE] ELSE ledger[e][i]]
<1>4. marked \in [SentSlots -> Record \cup {NoRecord}]
  <2> HIDE DEF newly
  <2> SUFFICES ASSUME NEW i \in SentSlots
               PROVE  marked[i] \in Record \cup {NoRecord}
    OBVIOUS
  <2>1. ledger[e][i] \in Record \cup {NoRecord}
    BY DEF TypeOK
  <2>2. CASE \E s \in newly : SentSlot(s) = i
    <3>1. PICK s \in newly : SentSlot(s) = i
      BY <2>2
    <3>2. ledger[e][i] \in Record
      BY <1>2, <3>1
    <3> QED BY <1>3, <2>2, <3>2
  <2>3. CASE ~ \E s \in newly : SentSlot(s) = i
    BY <2>1, <2>3
  <2> QED BY <2>2, <2>3
<1>5. ledger' = [ledger EXCEPT ![e] = marked]
  BY DEF ProcessAcknowledgements
<1>6. ledger' \in [Endpoints -> [SentSlots -> Record \cup {NoRecord}]]
  <2> HIDE DEF marked
  <2> QED BY <1>4, <1>5 DEF TypeOK
<1>7. reported' \in [Endpoints -> SUBSET SequenceNumber]
  BY <1>1 DEF ProcessAcknowledgements, TypeOK
<1> QED BY <1>6, <1>7 DEF ProcessAcknowledgements, TypeOK

LEMMA TypeNext ==
  ASSUME TypeOK, [PacketNext]_packetVars
  PROVE  TypeOK'
<1>1. ASSUME NEW e \in Endpoints, MakeHeader(e)
      PROVE  TypeOK'
  <2>1. [from |-> e, sequence |-> nextSequence[e], ack |-> received[e]] \in Datagram
    BY DEF TypeOK, Datagram
  <2>2. NextSequence(nextSequence[e]) \in SequenceNumber
    BY NextType DEF TypeOK
  <2> QED BY <1>1, <2>1, <2>2 DEF MakeHeader, TypeOK
<1>2. ASSUME NEW e \in Endpoints, TrackSent(e)
      PROVE  TypeOK'
  <2>1. PICK header \in prepared[e] :
          LET slot == SentSlot(header.sequence) IN
          /\ ledger' = [ledger EXCEPT ![e][slot] =
               [sequence |-> header.sequence, acknowledged |-> FALSE]]
          /\ historySize' = IF ledger[e][slot] = NoRecord
                            THEN [historySize EXCEPT ![e] = @ + 1] ELSE historySize
          /\ network' = network \cup {header}
          /\ prepared' = [prepared EXCEPT ![e] = {}]
          /\ UNCHANGED <<nextSequence, received, accepted, reported, resets>>
    BY <1>2 DEF TrackSent
  <2>2. header \in Datagram /\ header.sequence \in SequenceNumber
    BY DEF TypeOK, Datagram
  <2>3. [sequence |-> header.sequence, acknowledged |-> FALSE] \in Record
    BY <2>2 DEF Record
  <2>4. ledger' \in [Endpoints -> [SentSlots -> Record \cup {NoRecord}]]
    BY <2>1, <2>3 DEF TypeOK
  <2>5. historySize' \in [Endpoints -> Nat]
    BY <2>1 DEF TypeOK
  <2>6. network' \subseteq Datagram
    BY <2>1, <2>2 DEF TypeOK
  <2>7. prepared' \in [Endpoints -> SUBSET Datagram]
    BY <2>1 DEF TypeOK
  <2> QED BY <2>1, <2>4, <2>5, <2>6, <2>7 DEF TypeOK
<1>3. ASSUME NEW e \in Endpoints, AbandonHeader(e)
      PROVE  TypeOK'
  BY <1>3 DEF AbandonHeader, TypeOK
<1>4. ASSUME NEW e \in Endpoints, Reset(e)
      PROVE  TypeOK'
  <2>1. NothingReceived \in AcknowledgementState
    BY ConstantFacts DEF NothingReceived, AcknowledgementState, SequenceNumber
  <2>2. [i \in SentSlots |-> NoRecord] \in [SentSlots -> Record \cup {NoRecord}]
    OBVIOUS
  <2>3. FirstSequence[e] \in SequenceNumber
    BY SendsAssumption
  <2>4. /\ nextSequence' \in [Endpoints -> SequenceNumber]
        /\ received' \in [Endpoints -> AcknowledgementState]
        /\ historySize' \in [Endpoints -> Nat]
        /\ resets' \in [Endpoints -> Nat]
    BY <1>4, <2>1, <2>3 DEF Reset, TypeOK
  <2>5. ledger' \in [Endpoints -> [SentSlots -> Record \cup {NoRecord}]]
    <3> DEFINE fresh == [i \in SentSlots |-> NoRecord]
    <3>1. ledger' = [ledger EXCEPT ![e] = fresh]
      BY <1>4 DEF Reset
    <3> HIDE DEF fresh
    <3> QED BY <2>2, <3>1 DEF TypeOK, fresh
  <2>6. /\ prepared' \in [Endpoints -> SUBSET Datagram]
        /\ accepted' \in [Endpoints -> SUBSET SequenceNumber]
        /\ reported' \in [Endpoints -> SUBSET SequenceNumber]
        /\ network' \subseteq Datagram
    BY <1>4 DEF Reset, TypeOK
  <2> QED BY <2>4, <2>5, <2>6 DEF TypeOK
<1>5. ASSUME NEW e \in Endpoints, NEW d \in network, ObserveReceived(e, d)
      PROVE  TypeOK'
  <2>1. d.sequence \in SequenceNumber /\ received[e] \in AcknowledgementState
    BY DEF TypeOK, Datagram
  <2>2. Observed(received[e], d.sequence) \in AcknowledgementState
    BY <1>5, <2>1, ObservedType DEF ObserveReceived
  <2> QED BY <1>5, <2>1, <2>2 DEF ObserveReceived, TypeOK
<1>6. ASSUME NEW e \in Endpoints, NEW d \in network, ProcessAcknowledgements(e, d)
      PROVE  TypeOK'
  BY <1>6, TypeProcess
<1>7. CASE UNCHANGED packetVars
  BY <1>7 DEF packetVars, channelVars, TypeOK
<1> QED BY <1>1, <1>2, <1>3, <1>4, <1>5, <1>6, <1>7 DEF PacketNext

(* The channel state keeps its types, resets included.                     *)
THEOREM TypeCorrect == PacketSpec => []TypeOK
<1>1. TypeOK /\ [PacketNext]_packetVars => TypeOK'
  BY TypeNext
<1> QED BY <1>1, TypeInit, PTL DEF PacketSpec

-----------------------------------------------------------------------------
(* Observing s makes the tracker name nothing but s that it did not name.  *)
LEMMA ObservedNames ==
  ASSUME NEW t \in AcknowledgementState, NEW s \in SequenceNumber, IsNews(t, s)
  PROVE  Named(Observed(t, s)) \subseteq Named(t) \cup {s}
<1>1. t.latest \in SequenceNumber /\ t.history \in SUBSET (1 .. AckHistory)
  BY DEF AcknowledgementState
<1>2. CASE ~t.valid
  BY <1>2 DEF Observed, Named
<1>3. CASE t.valid /\ MoreRecent(s, t.latest)
  <2> DEFINE distance == Distance(s, t.latest)
  <2>1. Named(t) = {t.latest} \cup {Back(t.latest, k) : k \in t.history}
    BY <1>3 DEF Named
  <2>2. Named(Observed(t, s)) = {s} \cup {Back(s, k) : k \in Shifted(t, distance)}
    BY <1>3 DEF Named, Observed
  <2>3. ASSUME NEW k \in Shifted(t, distance)
        PROVE  Back(s, k) \in Named(t)
    <3>1. CASE k = distance
      BY <1>1, <2>1, <3>1, BackOfDistance
    <3>2. CASE k # distance
      <4>1. PICK j \in t.history : k = j + distance /\ k \in 1 .. AckHistory
        BY <2>3, <3>2 DEF Shifted
      <4>2. j \in Nat /\ j <= AckHistory /\ j + distance <= AckHistory
        BY <1>1, <4>1, ConstantFacts
      <4>3. Back(s, k) = Back(t.latest, j)
        BY <1>1, <4>1, <4>2, ShiftNamesTheSame
      <4> QED BY <2>1, <4>1, <4>3
    <3> QED BY <3>1, <3>2
  <2> HIDE DEF distance
  <2> QED BY <2>2, <2>3
<1>4. CASE t.valid /\ ~MoreRecent(s, t.latest)
  <2> DEFINE distance == Distance(t.latest, s)
  <2>1. Named(t) = {t.latest} \cup {Back(t.latest, k) : k \in t.history}
    BY <1>4 DEF Named
  <2>2. Named(Observed(t, s))
          = {t.latest} \cup {Back(t.latest, k) : k \in t.history \cup {distance}}
    BY <1>1, <1>4 DEF Named, Observed, AcknowledgementState
  <2>3. Back(t.latest, distance) = s
    BY <1>1, BackOfDistance
  <2> HIDE DEF distance
  <2> QED BY <2>1, <2>2, <2>3
<1> QED BY <1>2, <1>3, <1>4

AckFacts == TypeOK /\ AcksNameReceived /\ ReportsAreTrue

LEMMA AckInit == PacketInit => AckFacts
<1> SUFFICES ASSUME PacketInit PROVE AckFacts
  OBVIOUS
<1>1. Named(NothingReceived) = {}
  BY DEF Named, NothingReceived
<1> QED BY <1>1, TypeInit DEF PacketInit, AckFacts, AcksNameReceived, ReportsAreTrue

LEMMA AckObserve ==
  ASSUME AckFacts, NEW e \in Endpoints, NEW d \in network, ObserveReceived(e, d)
  PROVE  AcksNameReceived' /\ ReportsAreTrue'
<1>1. d.sequence \in SequenceNumber /\ received[e] \in AcknowledgementState
  BY DEF AckFacts, TypeOK, Datagram
<1>2. Named(Observed(received[e], d.sequence)) \subseteq accepted[e] \cup {d.sequence}
  BY <1>1, ObservedNames DEF AckFacts, AcksNameReceived, ObserveReceived
<1>3. /\ received' = [received EXCEPT ![e] = Observed(received[e], d.sequence)]
      /\ accepted' = [accepted EXCEPT ![e] = accepted[e] \cup {d.sequence}]
      /\ UNCHANGED <<prepared, network, reported, resets>>
  BY DEF ObserveReceived
<1>4. accepted \in [Endpoints -> SUBSET SequenceNumber]
      /\ received \in [Endpoints -> AcknowledgementState]
  BY DEF AckFacts, TypeOK
<1>5. \A o \in Endpoints : accepted[o] \subseteq accepted'[o]
  BY <1>3, <1>4
<1>6. \A o \in Endpoints : Named(received'[o]) \subseteq accepted'[o]
  <2> TAKE o \in Endpoints
  <2>1. CASE o = e
    BY <1>2, <1>3, <1>4, <2>1
  <2>2. CASE o # e
    BY <1>3, <1>4, <2>2 DEF AckFacts, AcksNameReceived
  <2> QED BY <2>1, <2>2
<1>7. \A g \in network : g.from \in Endpoints
  BY DEF AckFacts, TypeOK, Datagram
<1>8. AcksNameReceived'
  BY <1>3, <1>5, <1>6, <1>7 DEF AckFacts, AcksNameReceived
<1>9. ReportsAreTrue'
  <2> SUFFICES ASSUME NEW o \in Endpoints
               PROVE  reported[o] \subseteq accepted'[Peer(o)]
    BY <1>3 DEF ReportsAreTrue
  <2>1. CASE Peer(o) = e
    BY <1>3, <1>4, <2>1 DEF AckFacts, ReportsAreTrue
  <2>2. CASE Peer(o) # e
    <3>1. accepted'[Peer(o)] = accepted[Peer(o)]
      BY <1>3, <1>4, <2>2
    <3> QED BY <3>1 DEF AckFacts, ReportsAreTrue
  <2> QED BY <2>1, <2>2
<1> QED BY <1>8, <1>9

LEMMA AckNext ==
  ASSUME AckFacts, [PacketNext]_packetVars, NeverReset'
  PROVE  AckFacts'
<1>0. TypeOK'
  BY TypeNext DEF AckFacts
<1>1. ASSUME NEW e \in Endpoints, MakeHeader(e)
      PROVE  AcksNameReceived' /\ ReportsAreTrue'
  <2> DEFINE header == [from |-> e, sequence |-> nextSequence[e], ack |-> received[e]]
  <2>1. /\ prepared' = [prepared EXCEPT ![e] = {header}]
        /\ UNCHANGED <<received, network, accepted, reported, resets>>
    BY <1>1 DEF MakeHeader
  <2>2. header.from = e /\ Named(header.ack) \subseteq accepted[e]
    BY DEF AckFacts, AcksNameReceived
  <2>3. \A o \in Endpoints : \A h \in prepared'[o] :
          h.from = o /\ Named(h.ack) \subseteq accepted[o]
    <3> HIDE DEF header
    <3> QED BY <2>1, <2>2 DEF AckFacts, AcksNameReceived, TypeOK
  <2> QED BY <2>1, <2>3 DEF AckFacts, AcksNameReceived, ReportsAreTrue
<1>2. ASSUME NEW e \in Endpoints, TrackSent(e)
      PROVE  AcksNameReceived' /\ ReportsAreTrue'
  <2>1. PICK header \in prepared[e] :
          /\ network' = network \cup {header}
          /\ prepared' = [prepared EXCEPT ![e] = {}]
          /\ UNCHANGED <<received, accepted, reported, resets>>
    BY <1>2 DEF TrackSent
  <2>2. Named(header.ack) \subseteq accepted[header.from]
    BY DEF AckFacts, AcksNameReceived
  <2>3. \A o \in Endpoints : \A h \in prepared'[o] :
          h.from = o /\ Named(h.ack) \subseteq accepted[o]
    BY <2>1 DEF AckFacts, AcksNameReceived, TypeOK
  <2> QED BY <2>1, <2>2, <2>3 DEF AckFacts, AcksNameReceived, ReportsAreTrue
<1>3. ASSUME NEW e \in Endpoints, AbandonHeader(e)
      PROVE  AcksNameReceived' /\ ReportsAreTrue'
  <2>1. \A o \in Endpoints : \A h \in prepared'[o] :
          h.from = o /\ Named(h.ack) \subseteq accepted[o]
    BY <1>3 DEF AbandonHeader, AckFacts, AcksNameReceived, TypeOK
  <2> QED BY <1>3, <2>1 DEF AbandonHeader, AckFacts, AcksNameReceived, ReportsAreTrue
<1>4. ASSUME NEW e \in Endpoints, Reset(e)
      PROVE  FALSE
  <2>1. resets'[e] = resets[e] + 1
    BY <1>4 DEF Reset, AckFacts, TypeOK
  <2> QED BY <2>1 DEF AckFacts, TypeOK, NeverReset
<1>5. ASSUME NEW e \in Endpoints, NEW d \in network, ObserveReceived(e, d)
      PROVE  AcksNameReceived' /\ ReportsAreTrue'
  BY <1>5, AckObserve
<1>6. ASSUME NEW e \in Endpoints, NEW d \in network, ProcessAcknowledgements(e, d)
      PROVE  AcksNameReceived' /\ ReportsAreTrue'
  <2>1. /\ reported' = [reported EXCEPT ![e] = reported[e] \cup NewlyAcknowledged(e, d.ack)]
        /\ UNCHANGED <<received, prepared, network, accepted, resets>>
    BY <1>6 DEF ProcessAcknowledgements
  <2>2. NewlyAcknowledged(e, d.ack) \subseteq accepted[Peer(e)]
    BY <1>6 DEF NewlyAcknowledged, ProcessAcknowledgements, AckFacts, AcksNameReceived
  <2>3. ReportsAreTrue'
    BY <2>1, <2>2 DEF AckFacts, ReportsAreTrue, TypeOK
  <2> QED BY <2>1, <2>3 DEF AckFacts, AcksNameReceived
<1>7. ASSUME UNCHANGED packetVars
      PROVE  AcksNameReceived' /\ ReportsAreTrue'
  <2>1. UNCHANGED <<received, prepared, network, accepted, reported, resets>>
    BY <1>7 DEF packetVars, channelVars
  <2> QED BY <2>1 DEF AckFacts, AcksNameReceived, ReportsAreTrue
<1>8. AcksNameReceived' /\ ReportsAreTrue'
  <2>1. CASE PacketNext
    <3>1. PICK e \in Endpoints :
            \/ MakeHeader(e) \/ TrackSent(e) \/ AbandonHeader(e) \/ Reset(e)
            \/ \E d \in network : ObserveReceived(e, d) \/ ProcessAcknowledgements(e, d)
      BY <2>1 DEF PacketNext
    <3> QED BY <1>1, <1>2, <1>3, <1>4, <1>5, <1>6, <3>1
  <2> QED BY <1>7, <2>1
<1> QED BY <1>0, <1>8 DEF AckFacts

(* Resets are counted and never undone.                                    *)
LEMMA ResetsOnlyGrow ==
  ASSUME TypeOK, [PacketNext]_packetVars, NeverReset'
  PROVE  NeverReset
<1>1. ASSUME NEW e \in Endpoints, Reset(e)
      PROVE  FALSE
  <2>1. resets'[e] = resets[e] + 1
    BY <1>1 DEF Reset, TypeOK
  <2> QED BY <2>1 DEF TypeOK, NeverReset
<1>2. UNCHANGED resets
  BY <1>1 DEF PacketNext, packetVars, MakeHeader, TrackSent, AbandonHeader, ObserveReceived,
              ProcessAcknowledgements
<1> QED BY <1>2 DEF NeverReset

AckInv == TypeOK /\ (NeverReset => AckFacts)

(* An acknowledgement reported to one end is of a packet the other end     *)
(* received, whatever the network does, until a channel is reset: an       *)
(* acknowledgement does not say which session it belongs to.               *)
THEOREM AcknowledgementsAreTrue == PacketSpec => []ReportedWasReceived
<1>1. PacketInit => AckInv
  BY AckInit DEF AckInv, AckFacts
<1>2. AckInv /\ [PacketNext]_packetVars => AckInv'
  BY TypeNext, ResetsOnlyGrow, AckNext DEF AckInv
<1>3. AckInv => ReportedWasReceived
  BY DEF AckInv, AckFacts, ReportedWasReceived
<1> QED BY <1>1, <1>2, <1>3, PTL DEF PacketSpec

-----------------------------------------------------------------------------
(* Within one session the wrap-safe comparison is the order of sending.    *)
LEMMA OffsetOrder ==
  ASSUME NEW e \in Endpoints, NEW s \in SequenceNumber, NEW t \in SequenceNumber,
         Offset(e, s) <= HalfRange, Offset(e, t) <= HalfRange
  PROVE  /\ Offset(e, s) \in Nat /\ Offset(e, t) \in Nat
         /\ MoreRecent(s, t) <=> Offset(e, s) > Offset(e, t)
         /\ Offset(e, s) >= Offset(e, t) =>
              Distance(s, t) = Offset(e, s) - Offset(e, t)
         /\ Offset(e, s) = Offset(e, t) => s = t
<1>1. FirstSequence[e] \in SequenceNumber
  BY SendsAssumption
<1> QED BY <1>1, ConstantFacts DEF Offset, MoreRecent, Distance, SequenceNumber

(* A step back of k loses k of the offset, unless it leaves the session.   *)
LEMMA OffsetOfBack ==
  ASSUME NEW e \in Endpoints, NEW s \in SequenceNumber, NEW k \in 1 .. AckHistory,
         Offset(e, s) <= HalfRange, Offset(e, Back(s, k)) <= Offset(e, s)
  PROVE  Offset(e, Back(s, k)) = Offset(e, s) - k
<1>1. FirstSequence[e] \in SequenceNumber
  BY SendsAssumption
<1> QED BY <1>1, ConstantFacts DEF Offset, Back, Distance, SequenceNumber

LEMMA BoundFacts ==
  \A e \in Endpoints : MaxSends[e] \in Nat /\ MaxSends[e] <= HalfRange
  BY SendsAssumption, ConstantFacts

LEMMA OffsetType ==
  \A e \in Endpoints, s \in SequenceNumber : Offset(e, s) \in Nat
<1> SUFFICES ASSUME NEW e \in Endpoints, NEW s \in SequenceNumber
             PROVE  Offset(e, s) \in Nat
  OBVIOUS
<1>1. Distance(s, FirstSequence[e]) \in SequenceNumber
  BY DistanceType, SendsAssumption
<1> QED BY <1>1 DEF Offset, SequenceNumber

SessionInv == TypeOK /\ WithinSession

LEMMA SessionInit == PacketInit => SessionInv
<1> SUFFICES ASSUME PacketInit PROVE SessionInv
  OBVIOUS
<1>1. \A e \in Endpoints : Offset(e, FirstSequence[e]) = 0
  BY SendsAssumption, ConstantFacts DEF Offset, Distance, SequenceNumber
<1>2. WithinSession
  BY <1>1, BoundFacts DEF PacketInit, WithinSession
<1> QED BY <1>2, TypeInit DEF SessionInv

(* Allocation moves the offset of the next sequence up by one.             *)
LEMMA AllocationOffset ==
  ASSUME NEW e \in Endpoints, NEW s \in SequenceNumber, Offset(e, s) < MaxSends[e]
  PROVE  Offset(e, NextSequence(s)) = Offset(e, s) + 1
<1>1. FirstSequence[e] \in SequenceNumber /\ MaxSends[e] \in Nat /\ MaxSends[e] <= HalfRange
  BY SendsAssumption, BoundFacts
<1> QED BY <1>1, ConstantFacts DEF Offset, Distance, NextSequence, SequenceNumber

LEMMA SessionNext ==
  ASSUME SessionInv, [PacketNext]_packetVars
  PROVE  SessionInv'
<1>0. TypeOK'
  BY TypeNext DEF SessionInv
<1>1. ASSUME NEW e \in Endpoints, MakeHeader(e)
      PROVE  WithinSession'
  <2> DEFINE n == nextSequence[e]
             header == [from |-> e, sequence |-> n, ack |-> received[e]]
  <2>1. /\ prepared' = [prepared EXCEPT ![e] = {header}]
        /\ nextSequence' = [nextSequence EXCEPT ![e] = NextSequence(n)]
        /\ UNCHANGED network
        /\ Offset(e, n) < MaxSends[e]
    BY <1>1 DEF MakeHeader, Offset
  <2>2. n \in SequenceNumber
    BY DEF SessionInv, TypeOK
  <2>3. Offset(e, NextSequence(n)) = Offset(e, n) + 1 /\ Offset(e, n) \in Nat
    BY <2>1, <2>2, AllocationOffset, OffsetType
  <2>4. Offset(e, NextSequence(n)) <= MaxSends[e] /\ Offset(e, n) < Offset(e, NextSequence(n))
    BY <2>1, <2>3, BoundFacts
  <2>5. header.from = e /\ header.sequence = n
    OBVIOUS
  <2> HIDE DEF n, header
  <2>6. ASSUME NEW o \in Endpoints
        PROVE  /\ Offset(o, nextSequence'[o]) <= MaxSends[o]
               /\ \A h \in prepared'[o] :
                    h.from = o /\ Offset(o, h.sequence) < Offset(o, nextSequence'[o])
    <3>1. CASE o = e
      BY <2>1, <2>4, <2>5, <3>1 DEF SessionInv, TypeOK
    <3>2. CASE o # e
      BY <2>1, <3>2 DEF SessionInv, TypeOK, WithinSession
    <3> QED BY <3>1, <3>2
  <2> QED BY <2>1, <2>6 DEF SessionInv, WithinSession
<1>2. ASSUME NEW e \in Endpoints, TrackSent(e)
      PROVE  WithinSession'
  <2>1. PICK header \in prepared[e] :
          /\ network' = network \cup {header}
          /\ prepared' = [prepared EXCEPT ![e] = {}]
          /\ UNCHANGED nextSequence
    BY <1>2 DEF TrackSent
  <2>2. /\ header.from = e /\ Offset(e, header.sequence) < Offset(e, nextSequence[e])
        /\ Offset(e, nextSequence[e]) <= MaxSends[e]
    BY DEF SessionInv, WithinSession
  <2>3. Offset(e, header.sequence) \in Nat /\ Offset(e, nextSequence[e]) \in Nat
    BY OffsetType DEF SessionInv, TypeOK, Datagram
  <2>4. Offset(header.from, header.sequence) < MaxSends[header.from]
    BY <2>2, <2>3, BoundFacts
  <2> QED BY <2>1, <2>4 DEF SessionInv, TypeOK, WithinSession
<1>3. ASSUME NEW e \in Endpoints, AbandonHeader(e)
      PROVE  WithinSession'
  BY <1>3 DEF AbandonHeader, SessionInv, TypeOK, WithinSession
<1>4. ASSUME NEW e \in Endpoints, Reset(e)
      PROVE  WithinSession'
  <2>1. Offset(e, FirstSequence[e]) = 0
    BY SendsAssumption, ConstantFacts DEF Offset, Distance, SequenceNumber
  <2>2. /\ prepared' = [prepared EXCEPT ![e] = {}]
        /\ nextSequence' = [nextSequence EXCEPT ![e] = FirstSequence[e]]
        /\ UNCHANGED network
    BY <1>4 DEF Reset
  <2> QED BY <2>1, <2>2, BoundFacts DEF SessionInv, TypeOK, WithinSession
<1>5. ASSUME UNCHANGED <<nextSequence, prepared, network>>
      PROVE  WithinSession'
  BY <1>5 DEF SessionInv, WithinSession
<1>6. ASSUME NEW e \in Endpoints, NEW d \in network,
             ObserveReceived(e, d) \/ ProcessAcknowledgements(e, d)
      PROVE  UNCHANGED <<nextSequence, prepared, network>>
  BY <1>6 DEF ObserveReceived, ProcessAcknowledgements
<1>7. ASSUME UNCHANGED packetVars
      PROVE  UNCHANGED <<nextSequence, prepared, network>>
  BY <1>7 DEF packetVars, channelVars
<1>8. WithinSession'
  <2>1. CASE PacketNext
    <3>1. PICK e \in Endpoints :
            \/ MakeHeader(e) \/ TrackSent(e) \/ AbandonHeader(e) \/ Reset(e)
            \/ \E d \in network : ObserveReceived(e, d) \/ ProcessAcknowledgements(e, d)
      BY <2>1 DEF PacketNext
    <3> QED BY <1>1, <1>2, <1>3, <1>4, <1>5, <1>6, <3>1
  <2> QED BY <1>5, <1>7, <2>1
<1> QED BY <1>0, <1>8 DEF SessionInv

-----------------------------------------------------------------------------
(* One tracker against the set of sequences it accepted, all sent by p.    *)
LEMMA SummaryOfNewest ==
  ASSUME NEW p \in Endpoints, NEW t \in AcknowledgementState,
         NEW heard \in SUBSET SequenceNumber, Summarises(p, t, heard),
         NEW s \in SequenceNumber, Offset(p, s) < MaxSends[p],
         t.valid, MoreRecent(s, t.latest)
  PROVE  Summarises(p, Observed(t, s), heard \cup {s})
<1> DEFINE latest == t.latest
           distance == Distance(s, latest)
           seen == heard \cup {s}
<1>1. /\ latest \in SequenceNumber /\ latest \in heard
      /\ t.history \in SUBSET (1 .. AckHistory)
  BY DEF AcknowledgementState, Summarises
<1>2. /\ MaxSends[p] \in Nat /\ MaxSends[p] <= HalfRange /\ HalfRange \in Nat
      /\ Offset(p, s) \in Nat /\ Offset(p, latest) \in Nat
      /\ Offset(p, latest) < MaxSends[p]
  BY <1>1, BoundFacts, ConstantFacts, OffsetType DEF Summarises
<1>3. /\ Offset(p, s) > Offset(p, latest)
      /\ distance = Offset(p, s) - Offset(p, latest)
      /\ distance \in Nat /\ distance >= 1
  BY <1>1, <1>2, OffsetOrder
<1>4. Observed(t, s) = [valid |-> TRUE, latest |-> s, history |-> Shifted(t, distance)]
  BY DEF Observed
<1>5. \A q \in heard : /\ q \in SequenceNumber /\ Offset(p, q) \in Nat
                       /\ Offset(p, q) <= Offset(p, latest)
  BY OffsetType DEF Summarises
<1>6. ASSUME NEW k \in 1 .. AckHistory
      PROVE  k \in Shifted(t, distance) <=> Back(s, k) \in seen
  <2>1. Back(s, k) # s
    BY ConstantFacts DEF Back, Distance, SequenceNumber
  <2>2. ASSUME k \in Shifted(t, distance)
        PROVE  Back(s, k) \in heard
    <3>1. CASE k = distance
      BY <1>1, <3>1, BackOfDistance
    <3>2. CASE k # distance
      <4>1. PICK j \in t.history : k = j + distance
        BY <2>2, <3>2 DEF Shifted
      <4>2. j \in 1 .. AckHistory /\ Back(latest, j) \in heard
        BY <1>1, <4>1 DEF Summarises
      <4>3. Back(s, k) = Back(latest, j)
        BY <1>1, <1>3, <4>1, <4>2, ConstantFacts, ShiftNamesTheSame
      <4> QED BY <4>2, <4>3
    <3> QED BY <3>1, <3>2
  <2>3. ASSUME Back(s, k) \in heard
        PROVE  k \in Shifted(t, distance)
    <3>1. /\ Offset(p, Back(s, k)) <= Offset(p, latest)
          /\ Offset(p, Back(s, k)) = Offset(p, s) - k
      BY <1>2, <1>3, <1>5, <2>3, OffsetOfBack
    <3>2. k >= distance /\ distance <= AckHistory
      BY <1>2, <1>3, <3>1, ConstantFacts
    <3>3. CASE k = distance
      BY <3>2, <3>3, <1>3, ConstantFacts DEF Shifted
    <3>4. CASE k # distance
      <4> DEFINE j == k - distance
      <4>1. j \in 1 .. AckHistory /\ k = j + distance /\ j \in Nat
        BY <1>3, <3>2, <3>4, ConstantFacts
      <4>2. Back(s, k) = Back(latest, j)
        BY <1>1, <4>1, ConstantFacts, ShiftNamesTheSame
      <4>3. j \in t.history
        BY <2>3, <4>1, <4>2 DEF Summarises
      <4> HIDE DEF j
      <4>4. k \in {i + distance : i \in t.history} \cap 1 .. AckHistory
        BY <4>1, <4>3
      <4> QED BY <1>3, <3>2, <4>4, ConstantFacts DEF Shifted
    <3> QED BY <3>3, <3>4
  <2> QED BY <2>1, <2>2, <2>3
<1>7. \A q \in seen : Offset(p, q) < MaxSends[p] /\ Offset(p, q) <= Offset(p, s)
  BY <1>2, <1>3, <1>5 DEF Summarises
<1> HIDE DEF distance
<1> QED BY <1>4, <1>6, <1>7 DEF Summarises

LEMMA SummaryOfLate ==
  ASSUME NEW p \in Endpoints, NEW t \in AcknowledgementState,
         NEW heard \in SUBSET SequenceNumber, Summarises(p, t, heard),
         NEW s \in SequenceNumber, Offset(p, s) < MaxSends[p],
         t.valid, IsNews(t, s), ~MoreRecent(s, t.latest)
  PROVE  Summarises(p, Observed(t, s), heard \cup {s})
<1> DEFINE latest == t.latest
           distance == Distance(latest, s)
<1>1. /\ latest \in SequenceNumber /\ latest \in heard
      /\ t.history \in SUBSET (1 .. AckHistory)
  BY DEF AcknowledgementState, Summarises
<1>2. /\ MaxSends[p] \in Nat /\ MaxSends[p] <= HalfRange /\ HalfRange \in Nat
      /\ Offset(p, s) \in Nat /\ Offset(p, latest) \in Nat
      /\ Offset(p, latest) < MaxSends[p]
  BY <1>1, BoundFacts, ConstantFacts, OffsetType DEF Summarises
<1>3. s # latest /\ distance <= AckHistory
  BY DEF IsNews
<1>4. Offset(p, s) < Offset(p, latest)
  BY <1>1, <1>2, <1>3, OffsetOrder
<1>5. distance \in 1 .. AckHistory
  BY <1>1, <1>3, ConstantFacts DEF Distance, SequenceNumber
<1>6. /\ Observed(t, s).valid /\ Observed(t, s).latest = latest
      /\ Observed(t, s).history = t.history \cup {distance}
  BY DEF Observed, AcknowledgementState
<1>7. \A k \in 1 .. AckHistory : Back(latest, k) = s <=> k = distance
  BY <1>1, <1>5, ConstantFacts DEF Back, Distance, SequenceNumber
<1>8. \A k \in 1 .. AckHistory :
        k \in t.history \cup {distance} <=> Back(latest, k) \in heard \cup {s}
  BY <1>7 DEF Summarises
<1>9. \A q \in heard \cup {s} :
        Offset(p, q) < MaxSends[p] /\ Offset(p, q) <= Offset(p, latest)
  BY <1>2, <1>4 DEF Summarises
<1> HIDE DEF distance
<1> QED BY <1>1, <1>6, <1>8, <1>9 DEF Summarises

LEMMA SummaryOfFirst ==
  ASSUME NEW p \in Endpoints, NEW t \in AcknowledgementState,
         NEW s \in SequenceNumber, Offset(p, s) < MaxSends[p], ~t.valid
  PROVE  Summarises(p, Observed(t, s), {s})
<1>1. \A k \in 1 .. AckHistory : Back(s, k) # s
  BY ConstantFacts DEF Back, Distance, SequenceNumber
<1>2. Offset(p, s) \in Nat
  BY OffsetType
<1> QED BY <1>1, <1>2 DEF Summarises, Observed

(* A sequence the tracker has accepted is no news to it.                   *)
LEMMA TakenIsNoNews ==
  ASSUME NEW p \in Endpoints, NEW t \in AcknowledgementState,
         NEW heard \in SUBSET SequenceNumber, Summarises(p, t, heard),
         NEW s \in heard
  PROVE  t.valid /\ ~MoreRecent(s, t.latest) /\ ~IsNews(t, s)
<1>1. t.valid /\ t.latest \in heard /\ t.latest \in SequenceNumber
  BY DEF Summarises, AcknowledgementState
<1>2. /\ Offset(p, s) <= Offset(p, t.latest)
      /\ Offset(p, s) <= HalfRange /\ Offset(p, t.latest) <= HalfRange
      /\ s \in SequenceNumber
  BY <1>1, BoundFacts, ConstantFacts, OffsetType DEF Summarises
<1>3. ~MoreRecent(s, t.latest)
  BY <1>1, <1>2, OffsetOrder
<1>4. ASSUME s # t.latest, Distance(t.latest, s) <= AckHistory
      PROVE  Distance(t.latest, s) \in t.history
  <2>1. Distance(t.latest, s) \in 1 .. AckHistory
    BY <1>1, <1>2, <1>4, ConstantFacts DEF Distance, SequenceNumber
  <2>2. Back(t.latest, Distance(t.latest, s)) \in heard
    BY <1>1, <1>2, BackOfDistance
  <2> QED BY <1>1, <2>1, <2>2 DEF Summarises
<1> QED BY <1>1, <1>3, <1>4 DEF IsNews

LEMMA PeerIsEndpoint == \A e \in Endpoints : Peer(e) \in Endpoints
<1> SUFFICES ASSUME NEW e \in Endpoints PROVE Peer(e) \in Endpoints
  OBVIOUS
<1>1. \E p \in Endpoints : p # e
  <2> SUFFICES ASSUME Endpoints = {e} PROVE FALSE
    OBVIOUS
  <2>1. Cardinality({e}) = 1
    BY FS_Singleton
  <2> QED BY <2>1, EndpointsAssumption
<1> QED BY <1>1 DEF Peer

TrackerInv == SessionInv /\ TrackerSummarises

LEMMA TrackerInit == PacketInit => TrackerInv
<1> SUFFICES ASSUME PacketInit PROVE TrackerInv
  OBVIOUS
<1>1. \A p \in Endpoints : Summarises(p, NothingReceived, {})
  BY DEF Summarises, NothingReceived
<1> QED BY <1>1, SessionInit, PeerIsEndpoint DEF PacketInit, TrackerInv, TrackerSummarises

LEMMA TrackerObserve ==
  ASSUME TrackerInv, NEW e \in Endpoints, NEW d \in network, ObserveReceived(e, d)
  PROVE  TrackerSummarises'
<1> DEFINE t == received[e]
           heard == accepted[e]
           s == d.sequence
<1>1. /\ t \in AcknowledgementState /\ heard \in SUBSET SequenceNumber
      /\ s \in SequenceNumber /\ Peer(e) \in Endpoints
      /\ IsNews(t, s)
  BY PeerIsEndpoint DEF TrackerInv, SessionInv, TypeOK, Datagram, ObserveReceived
<1>2. Summarises(Peer(e), t, heard)
  BY DEF TrackerInv, TrackerSummarises
<1>3. Offset(Peer(e), s) < MaxSends[Peer(e)]
  BY DEF TrackerInv, SessionInv, WithinSession, ObserveReceived
<1>4. Summarises(Peer(e), Observed(t, s), heard \cup {s})
  <2>1. CASE ~t.valid
    <3>1. heard = {}
      BY <1>2, <2>1 DEF Summarises
    <3>2. Summarises(Peer(e), Observed(t, s), {s})
      BY <1>1, <1>3, <2>1, SummaryOfFirst
    <3> QED BY <3>1, <3>2
  <2>2. CASE t.valid /\ MoreRecent(s, t.latest)
    BY <1>1, <1>2, <1>3, <2>2, SummaryOfNewest
  <2>3. CASE t.valid /\ ~MoreRecent(s, t.latest)
    BY <1>1, <1>2, <1>3, <2>3, SummaryOfLate
  <2> QED BY <2>1, <2>2, <2>3
<1>5. /\ received' = [received EXCEPT ![e] = Observed(t, s)]
      /\ accepted' = [accepted EXCEPT ![e] = heard \cup {s}]
  BY DEF ObserveReceived
<1> HIDE DEF t, heard, s
<1>6. ASSUME NEW o \in Endpoints
      PROVE  Summarises(Peer(o), received'[o], accepted'[o])
  <2>1. CASE o = e
    <3>1. received'[o] = Observed(t, s) /\ accepted'[o] = heard \cup {s}
      BY <1>5, <2>1 DEF TrackerInv, SessionInv, TypeOK
    <3> QED BY <1>4, <2>1, <3>1
  <2>2. CASE o # e
    <3>1. received'[o] = received[o] /\ accepted'[o] = accepted[o]
      BY <1>5, <2>2 DEF TrackerInv, SessionInv, TypeOK
    <3> QED BY <3>1 DEF TrackerInv, TrackerSummarises
  <2> QED BY <2>1, <2>2
<1> QED BY <1>6 DEF TrackerSummarises, Summarises

LEMMA TrackerReset ==
  ASSUME TrackerInv, NEW e \in Endpoints, Reset(e)
  PROVE  TrackerSummarises'
<1>1. /\ received' = [received EXCEPT ![e] = NothingReceived]
      /\ accepted' = [accepted EXCEPT ![e] = {}]
  BY DEF Reset
<1>2. Summarises(Peer(e), NothingReceived, {})
  BY DEF Summarises, NothingReceived
<1>3. ASSUME NEW o \in Endpoints
      PROVE  Summarises(Peer(o), received'[o], accepted'[o])
  <2>1. CASE o = e
    <3>1. received'[o] = NothingReceived /\ accepted'[o] = {}
      BY <1>1, <2>1 DEF TrackerInv, SessionInv, TypeOK
    <3> QED BY <1>2, <2>1, <3>1
  <2>2. CASE o # e
    <3>1. received'[o] = received[o] /\ accepted'[o] = accepted[o]
      BY <1>1, <2>2 DEF TrackerInv, SessionInv, TypeOK
    <3> QED BY <3>1 DEF TrackerInv, TrackerSummarises
  <2> QED BY <2>1, <2>2
<1> QED BY <1>3 DEF TrackerSummarises, Summarises

LEMMA TrackerNext ==
  ASSUME TrackerInv, [PacketNext]_packetVars
  PROVE  TrackerInv'
<1>1. SessionInv'
  BY SessionNext DEF TrackerInv
<1>2. ASSUME UNCHANGED <<received, accepted>>
      PROVE  TrackerSummarises'
  BY <1>2 DEF TrackerInv, TrackerSummarises, Summarises
<1>3. ASSUME NEW e \in Endpoints,
             \/ MakeHeader(e) \/ TrackSent(e) \/ AbandonHeader(e)
             \/ \E d \in network : ProcessAcknowledgements(e, d)
      PROVE  UNCHANGED <<received, accepted>>
  BY <1>3 DEF MakeHeader, TrackSent, AbandonHeader, ProcessAcknowledgements
<1>4. CASE UNCHANGED packetVars
  BY <1>1, <1>2, <1>4 DEF packetVars, channelVars, TrackerInv
<1>5. CASE PacketNext
  <2>1. PICK e \in Endpoints :
          \/ MakeHeader(e) \/ TrackSent(e) \/ AbandonHeader(e) \/ Reset(e)
          \/ \E d \in network : ObserveReceived(e, d) \/ ProcessAcknowledgements(e, d)
    BY <1>5 DEF PacketNext
  <2> QED BY <1>1, <1>2, <1>3, <2>1, TrackerObserve, TrackerReset DEF TrackerInv
<1> QED BY <1>4, <1>5

(* A summary answers containment exactly within its window.                *)
LEMMA SummaryIsExact ==
  ASSUME NEW p \in Endpoints, NEW t \in AcknowledgementState,
         NEW heard \in SUBSET SequenceNumber, Summarises(p, t, heard),
         NEW s \in SequenceNumber
  PROVE  AcknowledgementContains(t, s) <=>
           s \in heard /\ Distance(t.latest, s) <= AckHistory
<1>0. t.latest \in SequenceNumber /\ t.history \in SUBSET (1 .. AckHistory)
  BY DEF AcknowledgementState
<1>1. ASSUME AcknowledgementContains(t, s)
      PROVE  s \in heard /\ Distance(t.latest, s) <= AckHistory
  <2>1. CASE s = t.latest
    <3>1. Distance(s, s) = 0
      BY DEF Distance, SequenceNumber
    <3> QED BY <1>1, <2>1, <3>1, ConstantFacts DEF AcknowledgementContains, Summarises
  <2>2. CASE s # t.latest
    <3>1. Distance(t.latest, s) \in t.history
      BY <1>1, <2>2 DEF AcknowledgementContains
    <3>2. Back(t.latest, Distance(t.latest, s)) \in heard
      BY <1>0, <3>1 DEF Summarises
    <3>3. Back(t.latest, Distance(t.latest, s)) = s
      BY <1>0, BackOfDistance
    <3> QED BY <1>0, <3>1, <3>2, <3>3, ConstantFacts
  <2> QED BY <2>1, <2>2
<1>2. ASSUME s \in heard, Distance(t.latest, s) <= AckHistory
      PROVE  AcknowledgementContains(t, s)
  <2>1. t.valid /\ ~MoreRecent(s, t.latest) /\ ~IsNews(t, s)
    BY <1>2, TakenIsNoNews
  <2> QED BY <1>2, <2>1 DEF IsNews, AcknowledgementContains
<1> QED BY <1>1, <1>2

(* received(s) answers the truth about the window behind the latest        *)
(* sequence, for sessions shorter than half the sequence space, resets     *)
(* included.                                                               *)
THEOREM TrackerTellsTheTruth == PacketSpec => []TrackerIsExact
<1>1. TrackerInv => TrackerIsExact
  <2> SUFFICES ASSUME TrackerInv, NEW e \in Endpoints, NEW s \in SequenceNumber
               PROVE  AcknowledgementContains(received[e], s) <=>
                 s \in accepted[e] /\ Distance(received[e].latest, s) <= AckHistory
    BY DEF TrackerIsExact
  <2>1. /\ received[e] \in AcknowledgementState /\ Peer(e) \in Endpoints
        /\ accepted[e] \in SUBSET SequenceNumber
        /\ Summarises(Peer(e), received[e], accepted[e])
    BY PeerIsEndpoint DEF TrackerInv, SessionInv, TypeOK, TrackerSummarises
  <2> QED BY <2>1, SummaryIsExact
<1>2. TrackerInv /\ [PacketNext]_packetVars => TrackerInv'
  BY TrackerNext
<1> QED BY <1>1, <1>2, TrackerInit, PTL DEF PacketSpec

(* A datagram already handed to the game is refused, even when the network *)
(* repeats it after the receive window has moved on.                       *)
THEOREM PacketsAcceptedOnce == PacketSpec => AcceptedOnce
<1>1. TrackerInv /\ [PacketNext]_packetVars =>
        [\A e \in Endpoints : \A d \in network :
           ObserveReceived(e, d) => d.sequence \notin accepted[e]]_packetVars
  <2> SUFFICES ASSUME TrackerInv, NEW e \in Endpoints, NEW d \in network,
                      ObserveReceived(e, d), d.sequence \in accepted[e]
               PROVE  FALSE
    OBVIOUS
  <2>1. /\ received[e] \in AcknowledgementState /\ Peer(e) \in Endpoints
        /\ accepted[e] \in SUBSET SequenceNumber
        /\ Summarises(Peer(e), received[e], accepted[e])
    BY PeerIsEndpoint DEF TrackerInv, SessionInv, TypeOK, TrackerSummarises
  <2>2. ~IsNews(received[e], d.sequence)
    BY <2>1, TakenIsNoNews
  <2> QED BY <2>2 DEF ObserveReceived
<1>2. TrackerInv /\ [PacketNext]_packetVars => TrackerInv'
  BY TrackerNext
<1> QED BY <1>1, <1>2, TrackerInit, PTL DEF PacketSpec, AcceptedOnce

-----------------------------------------------------------------------------
(***************************************************************************)
(* Snapshots                                                               *)
(***************************************************************************)
(* A delta reconstructs the snapshot it was built from.                    *)
LEMMA PartialDomain ==
  ASSUME NEW S, NEW T, NEW f \in Partial(S, T)
  PROVE  /\ DOMAIN f \subseteq S
         /\ f = [x \in DOMAIN f |-> f[x]]
         /\ \A x \in DOMAIN f : f[x] \in T
  BY DEF Partial

(* A subset of a set within a limit is within it.                          *)
LEMMA SmallerWithin ==
  ASSUME NEW S, IsFiniteSet(S), NEW D \in SUBSET S, NEW limit \in Nat,
         Cardinality(S) <= limit
  PROVE  Cardinality(D) <= limit
<1>1. IsFiniteSet(D) /\ Cardinality(D) <= Cardinality(S)
  BY FS_Subset
<1> QED BY <1>1, FS_CardinalityType

LEMMA EntityFacts ==
  ASSUME NEW s \in Snapshot, NEW e \in DOMAIN s.entities
  PROVE  /\ e \in EntityIds
         /\ s.entities[e] \in Entity
         /\ s.entities[e].components \in Partial(ComponentIds, Payloads)
         /\ s.entities[e] = [generation |-> s.entities[e].generation,
                             components |-> s.entities[e].components]
<1>1. s.entities \in Partial(EntityIds, Entity)
  BY DEF Snapshot
<1>2. e \in EntityIds /\ s.entities[e] \in Entity
  BY <1>1, PartialDomain
<1> QED BY <1>2 DEF Entity

(* Patching an entity with its difference gives the new components.        *)
LEMMA PatchRestores ==
  ASSUME NEW old \in Entity, NEW new \in Entity
  PROVE  Patched(old.components, Difference(old, new)) = new.components
<1> DEFINE o == old.components
           n == new.components
           d == Difference(old, new)
<1>1. n = [k \in DOMAIN n |-> n[k]]
  BY PartialDomain DEF Entity
<1>2. /\ d.removed = DOMAIN o \ DOMAIN n
      /\ DOMAIN d.changed = Differing(old, new)
      /\ \A k \in Differing(old, new) : d.changed[k] = n[k]
  BY DEF Difference
<1>3. Differing(old, new) = {k \in DOMAIN n : k \in DOMAIN o => o[k] # n[k]}
  BY DEF Differing
<1> HIDE DEF o, n, d
<1>4. (DOMAIN o \ d.removed) \cup DOMAIN d.changed = DOMAIN n
  BY <1>2, <1>3
<1>5. \A k \in DOMAIN n :
        (IF k \in DOMAIN d.changed THEN d.changed[k] ELSE o[k]) = n[k]
  BY <1>2, <1>3
<1>6. Patched(o, d) = [k \in DOMAIN n |-> n[k]]
  BY <1>4, <1>5 DEF Patched
<1> QED BY <1>1, <1>6 DEF o, n, d

(* An empty difference means nothing changed.                              *)
LEMMA EmptyDifference ==
  ASSUME NEW old \in Entity, NEW new \in Entity,
         ~Recreated(old, new), ~NotEmpty(Difference(old, new))
  PROVE  old = new
<1>1. Patched(old.components, Difference(old, new)) = new.components
  BY PatchRestores
<1> DEFINE d == Difference(old, new)
<1>2. d.removed = {} /\ DOMAIN d.changed = {}
  BY DEF NotEmpty
<1>3. Patched(old.components, d) = [k \in DOMAIN old.components |-> old.components[k]]
  <2> HIDE DEF d
  <2> QED BY <1>2 DEF Patched
<1>4. old.components = [k \in DOMAIN old.components |-> old.components[k]]
  BY PartialDomain DEF Entity
<1>5. old.components = new.components
  BY <1>1, <1>3, <1>4
<1> QED BY <1>5 DEF Entity, Recreated

LEMMA DifferenceValid ==
  ASSUME NEW old \in Entity, NEW new \in Entity,
         Cardinality(DOMAIN old.components) <= MaxComponents,
         Cardinality(DOMAIN new.components) <= MaxComponents,
         NotEmpty(Difference(old, new))
  PROVE  ValidChange(Difference(old, new))
<1> DEFINE d == Difference(old, new)
<1>1. /\ DOMAIN old.components \subseteq ComponentIds
      /\ DOMAIN new.components \subseteq ComponentIds
  BY PartialDomain DEF Entity
<1>2. IsFiniteSet(DOMAIN old.components) /\ IsFiniteSet(DOMAIN new.components)
  BY <1>1, FS_Subset, IdsAssumption
<1>3. /\ d.created = FALSE
      /\ d.removed = DOMAIN old.components \ DOMAIN new.components
      /\ DOMAIN d.changed = Differing(old, new)
      /\ Differing(old, new) \subseteq DOMAIN new.components
  BY DEF Difference, Differing
<1>4. Cardinality(d.removed) <= MaxComponents
  BY <1>2, <1>3, SmallerWithin, LimitsAssumption
<1>5. Cardinality(DOMAIN d.changed) <= MaxComponents
  BY <1>2, <1>3, SmallerWithin, LimitsAssumption
<1>6. NotEmpty(d)
  OBVIOUS
<1> HIDE DEF d
<1>7. ValidChange(d)
  BY <1>3, <1>4, <1>5, <1>6 DEF ValidChange, NotEmpty
<1> QED BY <1>7 DEF d

(* What one entity's change is, that it is valid, that it can be applied,  *)
(* and what it makes of the baseline.                                      *)
LEMMA ChangeOutcome ==
  ASSUME NEW b \in Snapshot, NEW c \in Snapshot,
         ValidSnapshot(b), ValidSnapshot(c),
         NEW e \in DOMAIN c.entities, NotEmpty(ChangeOf(b, c, e))
  PROVE  /\ ValidChange(ChangeOf(b, c, e))
         /\ Changed(b, ChangeOf(b, c, e), e) = c.entities[e]
         /\ ~ChangeOf(b, c, e).created =>
              /\ e \in DOMAIN b.entities
              /\ b.entities[e].generation = ChangeOf(b, c, e).generation
<1> DEFINE change == ChangeOf(b, c, e)
           new == c.entities[e]
           old == b.entities[e]
<1>1. /\ new \in Entity
      /\ new = [generation |-> new.generation, components |-> new.components]
      /\ Cardinality(DOMAIN new.components) <= MaxComponents
  BY EntityFacts DEF ValidSnapshot
<1>2. CASE e \notin DOMAIN b.entities \/ Recreated(old, new)
  <2>1. change = Whole(new)
    BY <1>2 DEF ChangeOf
  <2>2. /\ change.created /\ change.removed = {}
        /\ change.changed = new.components /\ change.generation = new.generation
    BY <2>1 DEF Whole
  <2> HIDE DEF change, new, old
  <2>3. ValidChange(change)
    BY <1>1, <2>2, FS_EmptySet, LimitsAssumption DEF ValidChange
  <2>4. Changed(b, change, e) = new
    BY <1>1, <2>2 DEF Changed
  <2> QED BY <2>2, <2>3, <2>4 DEF change, new
<1>3. CASE e \in DOMAIN b.entities /\ ~Recreated(old, new)
  <2>1. change = Difference(old, new)
    BY <1>3 DEF ChangeOf
  <2>2. old \in Entity /\ Cardinality(DOMAIN old.components) <= MaxComponents
    BY <1>3, EntityFacts DEF ValidSnapshot
  <2>3. Patched(old.components, change) = new.components
    BY <1>1, <2>1, <2>2, PatchRestores
  <2>4. ValidChange(change)
    BY <1>1, <2>1, <2>2, DifferenceValid
  <2>5. ~change.created /\ change.generation = new.generation
        /\ old.generation = new.generation
    BY <1>3, <2>1 DEF Difference, Recreated
  <2>6. Changed(b, change, e) = [generation |-> new.generation, components |-> new.components]
    BY <2>3, <2>5 DEF Changed
  <2> QED BY <1>1, <1>3, <2>4, <2>5, <2>6
<1> QED BY <1>2, <1>3

(* applySnapshotDelta(b, buildSnapshotDelta(b, c)) is c, and is never      *)
(* refused, for any two valid snapshots: entities created, removed,        *)
(* replaced under a reused id, and components added, changed or removed    *)
(* are all restored.                                                       *)
THEOREM DeltaReconstructs ==
  ASSUME NEW b \in Snapshot, NEW c \in Snapshot,
         ValidSnapshot(b), ValidSnapshot(c)
  PROVE  ApplyDelta(b, BuildDelta(b, c)) = c
<1> DEFINE d == BuildDelta(b, c)
           touched == {x \in DOMAIN c.entities : NotEmpty(ChangeOf(b, c, x))}
<1>1. /\ d.id = c.id /\ d.baseline = b.id
      /\ d.removed = DOMAIN b.entities \ DOMAIN c.entities
      /\ DOMAIN d.changes = touched
      /\ \A e \in touched : d.changes[e] = ChangeOf(b, c, e)
  BY DEF BuildDelta
<1>2. /\ DOMAIN b.entities \subseteq EntityIds /\ DOMAIN c.entities \subseteq EntityIds
      /\ IsFiniteSet(DOMAIN b.entities) /\ IsFiniteSet(DOMAIN c.entities)
  <2>1. b.entities \in Partial(EntityIds, Entity) /\ c.entities \in Partial(EntityIds, Entity)
    BY DEF Snapshot
  <2>2. DOMAIN b.entities \subseteq EntityIds /\ DOMAIN c.entities \subseteq EntityIds
    BY <2>1, PartialDomain
  <2> QED BY <2>2, FS_Subset, IdsAssumption
<1>3. /\ Cardinality(DOMAIN b.entities) <= MaxEntities
      /\ Cardinality(DOMAIN c.entities) <= MaxEntities
  BY DEF ValidSnapshot
<1>4. \A e \in touched :
        /\ ValidChange(d.changes[e])
        /\ Changed(b, d.changes[e], e) = c.entities[e]
        /\ ~d.changes[e].created =>
             e \in DOMAIN b.entities /\ b.entities[e].generation = d.changes[e].generation
  BY <1>1, ChangeOutcome
<1>5. ASSUME NEW e \in DOMAIN c.entities, e \notin touched
      PROVE  e \in DOMAIN b.entities /\ b.entities[e] = c.entities[e]
  <2>1. ~NotEmpty(ChangeOf(b, c, e))
    BY <1>5
  <2>2. e \in DOMAIN b.entities /\ ~Recreated(b.entities[e], c.entities[e])
    BY <2>1 DEF ChangeOf, NotEmpty, Whole
  <2>3. ~NotEmpty(Difference(b.entities[e], c.entities[e]))
    BY <2>1, <2>2 DEF ChangeOf
  <2> QED BY <2>2, <2>3, EntityFacts, EmptyDifference
<1>6. c.entities = [e \in DOMAIN c.entities |-> c.entities[e]]
      /\ c = [id |-> c.id, entities |-> c.entities]
  BY PartialDomain DEF Snapshot
<1> HIDE DEF d
<1>7. ValidDelta(d)
  <2>1. Cardinality(d.removed) <= MaxEntities
    BY <1>1, <1>2, <1>3, SmallerWithin, LimitsAssumption
  <2>2. Cardinality(DOMAIN d.changes) <= MaxEntities
    BY <1>1, <1>2, <1>3, SmallerWithin, LimitsAssumption
  <2> QED BY <1>1, <1>4, <2>1, <2>2 DEF ValidDelta
<1>8. Unchangeable(b, d) = {}
  BY <1>1, <1>4 DEF Unchangeable, Kept
<1>9. Kept(b, d) \cup DOMAIN d.changes = DOMAIN c.entities
  BY <1>1, <1>5 DEF Kept
<1>10. \A e \in DOMAIN c.entities :
         (IF e \in DOMAIN d.changes THEN Changed(b, d.changes[e], e)
          ELSE b.entities[e]) = c.entities[e]
  BY <1>1, <1>4, <1>5
<1>11. Outcome(b, d) = c
  BY <1>1, <1>6, <1>9, <1>10 DEF Outcome
<1>12. ApplyDelta(b, d) = c
  BY <1>1, <1>7, <1>8, <1>11 DEF ApplyDelta
<1> QED BY <1>12 DEF d

-----------------------------------------------------------------------------
Taken == {taken[n] : n \in DOMAIN taken}

(* The n-th snapshot's id.                                                 *)
IdOf(n) == IF FirstId + n - 1 < Modulus THEN FirstId + n - 1
           ELSE FirstId + n - 1 - Modulus

(* The server numbers the snapshots of its worlds one after the other; its *)
(* store holds some of them; a message is one, or the delta between two;   *)
(* and the client holds none but them.                                     *)
TakenInv ==
  \E k \in 0 .. MaxSnapshots :
    /\ DOMAIN taken = 1 .. k
    /\ \A n \in 1 .. k : /\ taken[n] \in Snapshot
                         /\ ValidSnapshot(taken[n])
                         /\ taken[n].id = IdOf(n)
MessageInv ==
  \A m \in downstream :
    m \in Taken \/ \E b, c \in Taken : m = BuildDelta(b, c)
MirrorInv == /\ TakenInv /\ MessageInv
             /\ serverStore \subseteq Taken /\ clientStore \subseteq Taken

LEMMA IdsDiffer ==
  ASSUME TakenInv, NEW s \in Taken, NEW t \in Taken, s.id = t.id
  PROVE  s = t
<1>1. PICK k \in 0 .. MaxSnapshots :
        DOMAIN taken = 1 .. k /\ \A n \in 1 .. k : taken[n].id = IdOf(n)
  BY DEF TakenInv
<1>2. PICK m \in 1 .. k, n \in 1 .. k : s = taken[m] /\ t = taken[n]
  BY <1>1 DEF Taken
<1>3. IdOf(m) = IdOf(n)
  BY <1>1, <1>2
<1>4. /\ FirstId \in Nat /\ FirstId < Modulus /\ Modulus \in Nat
      /\ m \in Nat /\ n \in Nat /\ m >= 1 /\ n >= 1 /\ m <= Modulus /\ n <= Modulus
  BY SnapshotIdsAssumption, ModulusAssumption DEF SequenceNumber
<1>5. m = n
  BY <1>3, <1>4 DEF IdOf
<1> QED BY <1>2, <1>5

LEMMA TakenFacts ==
  ASSUME TakenInv, NEW s \in Taken
  PROVE  s \in Snapshot /\ ValidSnapshot(s)
  BY DEF TakenInv, Taken

-----------------------------------------------------------------------------
LEMMA MirrorInit == Init => MirrorInv
<1> SUFFICES ASSUME Init PROVE MirrorInv
  OBVIOUS
<1>1. DOMAIN taken = {} /\ Taken = {}
  BY DEF Init, Taken
<1>2. 0 \in 0 .. MaxSnapshots /\ DOMAIN taken = 1 .. 0
  BY <1>1, SnapshotIdsAssumption
<1>3. TakenInv
  BY <1>2 DEF TakenInv
<1> QED BY <1>1, <1>3 DEF Init, MirrorInv, MessageInv

(* A new snapshot gets the next id, and no other changes.                  *)
LEMMA TakenTake ==
  ASSUME TakenInv, NEW world \in Worlds, Take(world)
  PROVE  /\ TakenInv' /\ Taken \subseteq Taken'
         /\ \E s \in Taken' : serverStore' = Stored(serverStore, s, ServerCapacity)
<1>1. PICK k \in 0 .. MaxSnapshots :
        /\ DOMAIN taken = 1 .. k
        /\ \A n \in 1 .. k : /\ taken[n] \in Snapshot
                             /\ ValidSnapshot(taken[n])
                             /\ taken[n].id = IdOf(n)
  BY DEF TakenInv
<1>2. k \in Nat /\ Count = k
  BY <1>1, SnapshotIdsAssumption, FS_Interval DEF Count
<1>3. PICK s : s = [id |-> IdAfter(Count), entities |-> world]
  OBVIOUS
<1>4. /\ k < MaxSnapshots
      /\ taken' = [n \in 1 .. k + 1 |-> IF n = k + 1 THEN s ELSE taken[n]]
      /\ serverStore' = Stored(serverStore, s, ServerCapacity)
  BY <1>2, <1>3 DEF Take
<1>5. FirstId \in Nat /\ FirstId < Modulus /\ Modulus \in Nat /\ MaxSnapshots <= Modulus
      /\ MaxSnapshots \in Nat /\ Modulus > 1
  BY SnapshotIdsAssumption, ModulusAssumption DEF SequenceNumber
<1>6. s.id = IdOf(k + 1)
  <2>1. CASE k = 0
    BY <1>2, <1>3, <1>5, <2>1 DEF IdAfter, IdOf
  <2>2. CASE k # 0
    <3>1. k \in 1 .. k
      BY <1>2, <2>2
    <3>2. s.id = NextSequence(IdOf(k))
      BY <1>1, <1>2, <1>3, <2>2, <3>1 DEF IdAfter
    <3> QED BY <1>2, <1>4, <1>5, <2>2, <3>2 DEF NextSequence, IdOf
  <2> QED BY <2>1, <2>2
<1>7. s \in Snapshot
  <2>1. s.id \in SnapshotIds
    BY <1>2, <1>4, <1>5, <1>6, SnapshotIdsAssumption DEF IdOf, SequenceNumber
  <2> QED BY <1>3, <2>1, WorldsAssumption DEF Snapshot
<1>8. ValidSnapshot(s)
  BY <1>3, WorldsAssumption DEF ValidSnapshot
<1>9. TakenInv'
  <2>1. k + 1 \in 0 .. MaxSnapshots /\ DOMAIN taken' = 1 .. k + 1
    BY <1>2, <1>4, <1>5
  <2>2. \A n \in 1 .. k + 1 : /\ taken'[n] \in Snapshot
                              /\ ValidSnapshot(taken'[n])
                              /\ taken'[n].id = IdOf(n)
    BY <1>1, <1>2, <1>4, <1>6, <1>7, <1>8
  <2> QED BY <2>1, <2>2 DEF TakenInv
<1>10. Taken' = Taken \cup {s}
  <2>1. \A n \in 1 .. k : taken'[n] = taken[n]
    BY <1>2, <1>4
  <2>2. taken'[k + 1] = s /\ DOMAIN taken' = (1 .. k) \cup {k + 1}
    BY <1>2, <1>4
  <2> QED BY <1>1, <2>1, <2>2 DEF Taken
<1> QED BY <1>4, <1>9, <1>10

(* A store holds what it held and the snapshot stored, or less.            *)
LEMMA StoredWithin ==
  ASSUME NEW store, NEW s, NEW capacity
  PROVE  Stored(store, s, capacity) \subseteq store \cup {s}
  BY DEF Stored

(* Whatever the client makes of a datagram was taken: a delta names one    *)
(* baseline, and the client's snapshot of that id is the server's.         *)
LEMMA ReconstructedTaken ==
  ASSUME MirrorInv, NEW m \in downstream, NEW s \in Reconstructed(m)
  PROVE  s \in Taken
<1>1. CASE m \in Taken
  <2>1. m \in Snapshot
    BY <1>1, TakenFacts DEF MirrorInv
  <2>2. "baseline" \notin DOMAIN m
    BY <2>1 DEF Snapshot
  <2> QED BY <1>1, <2>2 DEF Reconstructed
<1>2. ASSUME NEW b \in Taken, NEW c \in Taken, m = BuildDelta(b, c)
      PROVE  s \in Taken
  <2>1. "baseline" \in DOMAIN m /\ m.baseline = b.id
    BY <1>2 DEF BuildDelta
  <2>2. PICK held \in Find(clientStore, b.id) : s = ApplyDelta(held, m)
    BY <2>1 DEF Reconstructed
  <2>3. held = b
    BY <2>2, IdsDiffer DEF Find, MirrorInv
  <2>4. ApplyDelta(b, BuildDelta(b, c)) = c
    BY TakenFacts, DeltaReconstructs DEF MirrorInv
  <2> QED BY <1>2, <2>2, <2>3, <2>4
<1> QED BY <1>1, <1>2 DEF MirrorInv, MessageInv

-----------------------------------------------------------------------------
LEMMA MirrorStep == MirrorInv /\ [Next]_vars => MirrorInv'
<1> SUFFICES ASSUME MirrorInv, [Next]_vars PROVE MirrorInv'
  OBVIOUS
<1>0. ASSUME taken' = taken PROVE Taken' = Taken /\ TakenInv'
  BY <1>0 DEF MirrorInv, TakenInv, Taken
<1>1. ASSUME NEW world \in Worlds, Take(world) PROVE MirrorInv'
  <2>1. /\ TakenInv' /\ Taken \subseteq Taken'
        /\ \E s \in Taken' : serverStore' = Stored(serverStore, s, ServerCapacity)
    BY <1>1, TakenTake DEF MirrorInv
  <2>2. serverStore' \subseteq Taken'
    BY <2>1, StoredWithin DEF MirrorInv
  <2>3. clientStore' = clientStore /\ downstream' = downstream
    BY <1>1 DEF Take
  <2>4. MessageInv'
    BY <2>1, <2>3 DEF MirrorInv, MessageInv
  <2> QED BY <2>1, <2>2, <2>3, <2>4 DEF MirrorInv
<1>2. CASE Send
  <2>1. Taken' = Taken /\ TakenInv' /\ serverStore' = serverStore /\ clientStore' = clientStore
    BY <1>0, <1>2 DEF Send
  <2>2. Current \in Taken
    <3>1. PICK k \in 0 .. MaxSnapshots : DOMAIN taken = 1 .. k
      BY DEF MirrorInv, TakenInv
    <3>2. k \in Nat /\ Count = k
      BY <3>1, SnapshotIdsAssumption, FS_Interval DEF Count
    <3>3. Count \in DOMAIN taken
      BY <1>2, <3>1, <3>2 DEF Send
    <3> QED BY <3>3 DEF Current, Taken
  <2>3. Baselines \subseteq Taken
    BY DEF Baselines, Find, MirrorInv
  <2>4. \A m \in downstream' : m \in downstream \/ m = Current
                               \/ \E b \in Baselines : m = BuildDelta(b, Current)
    BY <1>2 DEF Send
  <2>5. MessageInv'
    BY <2>1, <2>2, <2>3, <2>4 DEF MirrorInv, MessageInv
  <2> QED BY <2>1, <2>5 DEF MirrorInv
<1>3. ASSUME NEW m \in downstream, Receive(m) PROVE MirrorInv'
  <2>1. PICK s \in Reconstructed(m) : clientStore' = Stored(clientStore, s, ClientCapacity)
    BY <1>3 DEF Receive
  <2>2. s \in Taken
    BY <2>1, ReconstructedTaken
  <2>3. Taken' = Taken /\ TakenInv' /\ serverStore' = serverStore /\ downstream' = downstream
    BY <1>0, <1>3 DEF Receive
  <2>4. clientStore' \subseteq Taken'
    BY <2>1, <2>2, <2>3, StoredWithin DEF MirrorInv
  <2> QED BY <2>3, <2>4 DEF MirrorInv, MessageInv
<1>4. CASE Acknowledge
  BY <1>0, <1>4 DEF Acknowledge, MirrorInv, MessageInv
<1>5. ASSUME NEW id \in upstream, ReceiveAcknowledgement(id) PROVE MirrorInv'
  <2>1. serverStore' \subseteq serverStore
    BY <1>5 DEF ReceiveAcknowledgement, Acknowledged
  <2> QED BY <1>0, <1>5, <2>1 DEF ReceiveAcknowledgement, MirrorInv, MessageInv
<1>6. CASE UNCHANGED vars
  BY <1>0, <1>6 DEF vars, MirrorInv, MessageInv
<1> QED BY <1>1, <1>2, <1>3, <1>4, <1>5, <1>6 DEF Next

(* Every snapshot a client holds is one the server took.                   *)
THEOREM ClientsMirrorTheServer == Spec => []ClientMirrorsServer
<1>1. MirrorInv => ClientMirrorsServer
  BY DEF MirrorInv, Taken, ClientMirrorsServer
<1> QED BY MirrorInit, MirrorStep, <1>1, PTL DEF Spec

-----------------------------------------------------------------------------
(* While the ids taken span no more than half of their space, "more        *)
(* recent" is "taken later".                                               *)
Spanned == MaxSnapshots <= HalfRange + 1

LEMMA RecentIsLater ==
  ASSUME Spanned, TakenInv, NEW m \in DOMAIN taken, NEW n \in DOMAIN taken
  PROVE  MoreRecent(taken[m].id, taken[n].id) <=> m > n
<1>1. PICK k \in 0 .. MaxSnapshots :
        DOMAIN taken = 1 .. k /\ \A i \in 1 .. k : taken[i].id = IdOf(i)
  BY DEF TakenInv
<1>2. /\ FirstId \in Nat /\ FirstId < Modulus /\ Modulus \in Nat /\ Modulus > 1
      /\ MaxSnapshots \in Nat /\ MaxSnapshots <= Modulus
      /\ m \in Nat /\ n \in Nat /\ m >= 1 /\ n >= 1 /\ m <= MaxSnapshots /\ n <= MaxSnapshots
  BY <1>1, SnapshotIdsAssumption, ModulusAssumption DEF SequenceNumber
<1>3. HalfRange \in Nat /\ 2 * HalfRange <= Modulus - 1 /\ MaxSnapshots <= HalfRange + 1
  BY <1>2 DEF HalfRange, Spanned
<1>4. MoreRecent(IdOf(m), IdOf(n)) <=> m > n
  <2>1. CASE FirstId + m - 1 < Modulus /\ FirstId + n - 1 < Modulus
    BY <1>2, <1>3, <2>1 DEF IdOf, MoreRecent
  <2>2. CASE FirstId + m - 1 >= Modulus /\ FirstId + n - 1 < Modulus
    BY <1>2, <1>3, <2>2 DEF IdOf, MoreRecent
  <2>3. CASE FirstId + m - 1 < Modulus /\ FirstId + n - 1 >= Modulus
    BY <1>2, <1>3, <2>3 DEF IdOf, MoreRecent
  <2>4. CASE FirstId + m - 1 >= Modulus /\ FirstId + n - 1 >= Modulus
    BY <1>2, <1>3, <2>4 DEF IdOf, MoreRecent
  <2> QED BY <1>2, <2>1, <2>2, <2>3, <2>4
<1> QED BY <1>1, <1>4

(* Numbers up to a bound have a least one.                                 *)
LEMMA LeastNumber ==
  ASSUME NEW k \in Nat, NEW T, T \subseteq 0 .. k, T # {}
  PROVE  \E x \in T : \A y \in T : x <= y
<1> DEFINE U == {0 .. m : m \in T}
<1>1. IsWellFoundedOn(StrictSubsetOrdering(0 .. k), FiniteSubsetsOf(0 .. k))
  BY FS_StrictSubsetOrderingWellFounded
<1>2. U \subseteq FiniteSubsetsOf(0 .. k) /\ U # {}
  <2>1. ASSUME NEW m \in T PROVE 0 .. m \subseteq 0 .. k /\ IsFiniteSet(0 .. m)
    BY FS_Interval
  <2> QED BY <2>1 DEF FiniteSubsetsOf
<1>3. PICK S \in U : \A R \in U : <<R, S>> \notin StrictSubsetOrdering(0 .. k)
  BY <1>1, <1>2, WFMin
<1>4. PICK x \in T : S = 0 .. x
  BY <1>3
<1>5. ASSUME NEW y \in T, y < x PROVE FALSE
  <2>1. /\ 0 .. y \in U /\ 0 .. y \subseteq 0 .. x /\ x \in 0 .. x /\ x \notin 0 .. y
        /\ 0 .. y \in SUBSET (0 .. k) /\ 0 .. x \in SUBSET (0 .. k)
    BY <1>5
  <2> QED BY <1>3, <1>4, <2>1 DEF StrictSubsetOrdering
<1> QED BY <1>4, <1>5

(* A store of snapshots that were taken has an end on either side.         *)
LEMMA StoreEnds ==
  ASSUME TakenInv, NEW store, store \subseteq Taken, store # {}
  PROVE  /\ \E m \in DOMAIN taken : /\ taken[m] \in store
                                    /\ \A n \in DOMAIN taken : taken[n] \in store => m <= n
         /\ \E m \in DOMAIN taken : /\ taken[m] \in store
                                    /\ \A n \in DOMAIN taken : taken[n] \in store => n <= m
<1>1. PICK k \in Nat : DOMAIN taken = 1 .. k
  BY SnapshotIdsAssumption DEF TakenInv
<1> DEFINE T == {n \in 1 .. k : taken[n] \in store}
           D == {k - n : n \in T}
<1>2. T \subseteq 0 .. k /\ D \subseteq 0 .. k /\ T # {} /\ D # {}
  BY <1>1 DEF Taken
<1>3. PICK x \in T : \A y \in T : x <= y
  <2> HIDE DEF T
  <2> QED BY <1>2, LeastNumber
<1>4. PICK z \in D : \A y \in D : z <= y
  <2> HIDE DEF D
  <2> QED BY <1>2, LeastNumber
<1>5. PICK w \in T : z = k - w
  BY <1>4
<1>6. \A n \in T : n <= w
  <2> SUFFICES ASSUME NEW n \in T PROVE n <= w
    OBVIOUS
  <2>1. z <= k - n
    BY <1>4
  <2> QED BY <1>5, <2>1
<1> QED BY <1>1, <1>3, <1>5, <1>6

LEMMA NewestIsLatest ==
  ASSUME Spanned, TakenInv, NEW store, store \subseteq Taken, store # {}
  PROVE  \E m \in DOMAIN taken : /\ taken[m] \in store /\ NewestSnapshotId(store) = taken[m].id
                                 /\ \A n \in DOMAIN taken : taken[n] \in store => n <= m
<1>1. PICK m \in DOMAIN taken : /\ taken[m] \in store
                                /\ \A n \in DOMAIN taken : taken[n] \in store => n <= m
  BY StoreEnds
<1>2. \A n \in DOMAIN taken : n \in Nat
  BY DEF TakenInv
<1>3. taken[m].id \in Ids(store)
  BY <1>1 DEF Ids
<1>4. \A j \in Ids(store) : j = taken[m].id \/ MoreRecent(taken[m].id, j)
  <2> SUFFICES ASSUME NEW s \in store PROVE s.id = taken[m].id \/ MoreRecent(taken[m].id, s.id)
    BY DEF Ids
  <2>1. PICK n \in DOMAIN taken : s = taken[n]
    BY DEF Taken
  <2>2. n <= m
    BY <1>1, <2>1
  <2> QED BY <1>2, <2>1, <2>2, RecentIsLater
<1>5. ASSUME NEW i \in Ids(store), \A j \in Ids(store) : j = i \/ MoreRecent(i, j)
      PROVE  i = taken[m].id
  <2>1. PICK n \in DOMAIN taken : taken[n] \in store /\ i = taken[n].id
    BY DEF Ids, Taken
  <2>2. taken[m].id = i \/ m < n
    BY <1>2, <1>3, <1>5, <2>1, RecentIsLater
  <2> QED BY <1>1, <1>2, <2>1, <2>2
<1>6. NewestSnapshotId(store) = taken[m].id
  <2>1. PICK i : i = NewestSnapshotId(store)
    OBVIOUS
  <2>2. i \in Ids(store) /\ \A j \in Ids(store) : j = i \/ MoreRecent(i, j)
    BY <1>3, <1>4, <2>1 DEF NewestSnapshotId
  <2> QED BY <1>5, <2>1, <2>2
<1> QED BY <1>1, <1>6

(* Storing never takes away the latest snapshot: the one dropped is the    *)
(* oldest of at least two.                                                 *)
LEMMA StoredStaysRecent ==
  ASSUME Spanned, TakenInv, NEW store, store \subseteq Taken, NEW s \in Taken,
         NEW capacity \in Nat \ {0}
  PROVE  /\ Stored(store, s, capacity) # {}
         /\ \A n \in DOMAIN taken : taken[n] \in store =>
              \E m \in DOMAIN taken : n <= m /\ taken[m] \in Stored(store, s, capacity)
<1>1. PICK grown : grown = (store \ Find(store, s.id)) \cup {s}
  OBVIOUS
<1>2. grown \subseteq Taken /\ s \in grown
  BY <1>1
<1>3. \A t \in store : t \in grown
  <2> SUFFICES ASSUME NEW t \in store, t.id = s.id PROVE t = s
    BY <1>1 DEF Find
  <2> QED BY IdsDiffer
<1>4. \A n \in DOMAIN taken : n \in Nat
  BY DEF TakenInv
<1>5. CASE ~(Cardinality(grown) > capacity)
  <2>1. Stored(store, s, capacity) = grown
    BY <1>1, <1>5 DEF Stored
  <2> QED BY <1>2, <1>3, <1>4, <2>1
<1>6. CASE Cardinality(grown) > capacity
  <2>1. PICK o : o = Oldest(grown)
    OBVIOUS
  <2>2. Stored(store, s, capacity) = grown \ {o}
    BY <1>1, <1>6, <2>1 DEF Stored
  <2>3. PICK m \in DOMAIN taken : /\ taken[m] \in grown
                                  /\ \A n \in DOMAIN taken : taken[n] \in grown => m <= n
    BY <1>2, StoreEnds
  <2>4. \A t \in grown : t = taken[m] \/ MoreRecent(t.id, taken[m].id)
    <3> SUFFICES ASSUME NEW t \in grown PROVE t = taken[m] \/ MoreRecent(t.id, taken[m].id)
      OBVIOUS
    <3>1. PICK n \in DOMAIN taken : t = taken[n]
      BY <1>2 DEF Taken
    <3>2. m <= n
      BY <2>3, <3>1
    <3> QED BY <1>4, <3>1, <3>2, RecentIsLater
  <2>5. o \in grown /\ \A t \in grown : t = o \/ MoreRecent(t.id, o.id)
    BY <2>1, <2>3, <2>4 DEF Oldest
  <2>6. PICK p \in DOMAIN taken : o = taken[p]
    BY <1>2, <2>5 DEF Taken
  <2>7. \A n \in DOMAIN taken : taken[n] \in grown /\ taken[n] # o => p < n
    BY <1>4, <2>5, <2>6, RecentIsLater
  <2>8. PICK t \in grown : t # o
    <3> SUFFICES ASSUME grown = {o} PROVE FALSE
      BY <2>5
    <3>1. Cardinality(grown) = 1
      BY FS_Singleton
    <3> QED BY <1>6, <3>1
  <2>9. PICK q \in DOMAIN taken : t = taken[q]
    BY <1>2, <2>8 DEF Taken
  <2>10. ASSUME NEW n \in DOMAIN taken, taken[n] \in store
         PROVE  \E i \in DOMAIN taken : n <= i /\ taken[i] \in grown \ {o}
    <3>1. CASE taken[n] # o
      BY <1>3, <1>4, <2>10, <3>1
    <3>2. CASE taken[n] = o
      <4>1. p < q
        BY <2>7, <2>8, <2>9
      <4>2. n = p
        <5>1. ~(n < p) /\ ~(p < n)
          BY <1>4, <2>6, <3>2, RecentIsLater
        <5> QED BY <1>4, <5>1
      <4> QED BY <1>4, <2>8, <2>9, <4>1, <4>2
    <3> QED BY <3>1, <3>2
  <2> QED BY <2>2, <2>8, <2>10
<1> QED BY <1>5, <1>6

-----------------------------------------------------------------------------
(* What the client says it holds, it holds or has gone past.               *)
Passed(i) == \E m, n \in DOMAIN taken : i = taken[m].id /\ m <= n /\ taken[n] \in clientStore
SharedInv == /\ MirrorInv
             /\ \A i \in upstream \cup acknowledged : Passed(i)

LEMMA SharedInit == Init => SharedInv
  BY MirrorInit DEF Init, SharedInv

(* A step that only adds to what was taken, and to what the client holds   *)
(* or has gone past, leaves what it said true.                             *)
LEMMA PassedStays ==
  ASSUME \A n \in DOMAIN taken : n \in Nat /\ n \in DOMAIN taken' /\ taken'[n] = taken[n],
         \A n \in DOMAIN taken' : n \in Nat,
         \A n \in DOMAIN taken : taken[n] \in clientStore =>
           \E m \in DOMAIN taken' : n <= m /\ taken'[m] \in clientStore',
         NEW i, Passed(i)
  PROVE  Passed(i)'
<1>1. PICK m, n \in DOMAIN taken : i = taken[m].id /\ m <= n /\ taken[n] \in clientStore
  BY DEF Passed
<1>2. PICK p \in DOMAIN taken' : n <= p /\ taken'[p] \in clientStore'
  BY <1>1
<1>3. m \in DOMAIN taken' /\ i = taken'[m].id /\ m <= p
  BY <1>1, <1>2
<1> QED BY <1>2, <1>3 DEF Passed

LEMMA SharedStep ==
  ASSUME Spanned
  PROVE  SharedInv /\ [Next]_vars => SharedInv'
<1> SUFFICES ASSUME SharedInv, [Next]_vars PROVE SharedInv'
  OBVIOUS
<1>1. MirrorInv /\ MirrorInv'
  BY MirrorStep DEF SharedInv
<1>2. \A n \in DOMAIN taken : n \in Nat
  BY <1>1 DEF MirrorInv, TakenInv
<1>3. \A n \in DOMAIN taken' : n \in Nat
  BY <1>1 DEF MirrorInv, TakenInv
<1>4. ASSUME taken' = taken, clientStore' = clientStore, NEW i, Passed(i)
      PROVE  Passed(i)'
  BY <1>4 DEF Passed
<1>5. ASSUME NEW world \in Worlds, Take(world) PROVE SharedInv'
  <2>1. PICK k \in Nat : DOMAIN taken = 1 .. k
    BY <1>1, SnapshotIdsAssumption DEF MirrorInv, TakenInv
  <2>2. Count = k
    BY <2>1, FS_Interval DEF Count
  <2>3. \A n \in DOMAIN taken : n \in DOMAIN taken' /\ taken'[n] = taken[n]
    BY <1>5, <2>1, <2>2 DEF Take
  <2>4. clientStore' = clientStore /\ upstream' = upstream /\ acknowledged' = acknowledged
    BY <1>5 DEF Take
  <2>5. \A i : Passed(i) => Passed(i)'
    BY <1>2, <1>3, <2>3, <2>4, PassedStays
  <2> QED BY <1>1, <2>4, <2>5 DEF SharedInv
<1>6. ASSUME NEW m \in downstream, Receive(m) PROVE SharedInv'
  <2>1. PICK s \in Reconstructed(m) : clientStore' = Stored(clientStore, s, ClientCapacity)
    BY <1>6 DEF Receive
  <2>2. taken' = taken /\ upstream' = upstream /\ acknowledged' = acknowledged
    BY <1>6 DEF Receive
  <2>3. s \in Taken /\ clientStore \subseteq Taken /\ TakenInv
    BY <1>1, <2>1, ReconstructedTaken DEF MirrorInv
  <2>4. \A n \in DOMAIN taken : taken[n] \in clientStore =>
          \E p \in DOMAIN taken' : n <= p /\ taken'[p] \in clientStore'
    BY <2>1, <2>2, <2>3, StoredStaysRecent, StoresAssumption
  <2>5. \A i : Passed(i) => Passed(i)'
    BY <1>2, <1>3, <2>2, <2>4, PassedStays
  <2> QED BY <1>1, <2>2, <2>5 DEF SharedInv
<1>7. CASE Acknowledge
  <2>1. /\ clientStore # {} /\ upstream' = upstream \cup {NewestSnapshotId(clientStore)}
        /\ taken' = taken /\ clientStore' = clientStore /\ acknowledged' = acknowledged
    BY <1>7 DEF Acknowledge
  <2>2. Passed(NewestSnapshotId(clientStore))
    <3>1. PICK m \in DOMAIN taken :
            taken[m] \in clientStore /\ NewestSnapshotId(clientStore) = taken[m].id
      BY <1>1, <2>1, NewestIsLatest DEF MirrorInv
    <3>2. m <= m
      BY <1>2
    <3> QED BY <3>1, <3>2 DEF Passed
  <2>3. \A i \in upstream' \cup acknowledged' : Passed(i)
    BY <2>1, <2>2 DEF SharedInv
  <2> QED BY <1>1, <1>4, <2>1, <2>3 DEF SharedInv
<1>8. ASSUME NEW id \in upstream, ReceiveAcknowledgement(id) PROVE SharedInv'
  <2>1. /\ acknowledged' = {id} /\ upstream' = upstream
        /\ taken' = taken /\ clientStore' = clientStore
    BY <1>8 DEF ReceiveAcknowledgement
  <2> QED BY <1>1, <1>4, <2>1 DEF SharedInv
<1>9. CASE Send
  BY <1>1, <1>4, <1>9 DEF Send, SharedInv
<1>10. CASE UNCHANGED vars
  BY <1>1, <1>4, <1>10 DEF vars, SharedInv
<1> QED BY <1>5, <1>6, <1>7, <1>8, <1>9, <1>10 DEF Next

LEMMA SharedInvShares ==
  ASSUME Spanned
  PROVE  SharedInv => BaselineIsShared
<1> SUFFICES ASSUME SharedInv, NEW b \in Baselines
             PROVE  /\ \E n \in DOMAIN taken : taken[n] = b
                    /\ clientStore # {} /\ ~MoreRecent(b.id, NewestSnapshotId(clientStore))
  BY DEF BaselineIsShared
<1>1. b.id \in acknowledged /\ b \in Taken
  BY DEF Baselines, Find, SharedInv, MirrorInv
<1>2. PICK m, n \in DOMAIN taken : b.id = taken[m].id /\ m <= n /\ taken[n] \in clientStore
  BY <1>1 DEF SharedInv, Passed
<1>3. TakenInv /\ clientStore \subseteq Taken
  BY DEF SharedInv, MirrorInv
<1>4. PICK p \in DOMAIN taken : /\ NewestSnapshotId(clientStore) = taken[p].id
                                /\ \A i \in DOMAIN taken : taken[i] \in clientStore => i <= p
  BY <1>2, <1>3, NewestIsLatest
<1>5. ~(m > p)
  <2>1. m \in Nat /\ n \in Nat /\ p \in Nat
    BY <1>3 DEF TakenInv
  <2> QED BY <1>2, <1>4, <2>1
<1>6. ~MoreRecent(taken[m].id, taken[p].id)
  BY <1>3, <1>5, RecentIsLater
<1> QED BY <1>1, <1>2, <1>4, <1>6 DEF Taken

(* As long as the ids taken span at most half of the sequence space, which *)
(* is as far as sequenceMoreRecent orders them, SnapshotBaselineStore only *)
(* ever offers the server baselines that it took itself and that the       *)
(* client has reconstructed or gone past.                                  *)
THEOREM BaselinesAreShared ==
  ASSUME MaxSnapshots <= HalfRange + 1
  PROVE  Spec => []BaselineIsShared
<1>1. Spanned
  BY DEF Spanned
<1>2. SharedInv /\ [Next]_vars => SharedInv'
  BY <1>1, SharedStep
<1>3. SharedInv => BaselineIsShared
  BY <1>1, SharedInvShares
<1> QED BY <1>2, <1>3, SharedInit, PTL DEF Spec

-----------------------------------------------------------------------------
(***************************************************************************)
(* What is shown between two snapshots                                     *)
(***************************************************************************)
(* A nonempty bounded set of naturals has a largest element.               *)
LEMMA LargestExists ==
  ASSUME NEW top \in Nat, NEW S \in SUBSET (0 .. top), S # {}
  PROVE  \E n \in S : \A m \in S : m <= n
<1> DEFINE Mirror == {top - m : m \in S}
<1>1. Mirror \subseteq Nat /\ Mirror # {}
  <2>1. \A m \in S : m \in Nat /\ top - m \in Nat
    OBVIOUS
  <2> QED BY <2>1
<1>2. PICK x \in Mirror : \A y \in Mirror : ~ (<<y, x>> \in OpToRel(<, Nat))
  BY <1>1, WFMin, NatLessThanWellFounded
<1>3. \A y \in Mirror : x <= y
  <2> TAKE y \in Mirror
  <2>1. x \in Nat /\ y \in Nat
    BY <1>1
  <2>2. <<y, x>> \notin {ss \in Nat \X Nat : ss[1] < ss[2]}
    BY <1>2 DEF OpToRel
  <2>3. ~ (y < x)
    BY <2>1, <2>2
  <2> QED BY <2>1, <2>3
<1>4. PICK n \in S : x = top - n
  BY <1>2
<1>5. \A m \in S : m <= n
  <2> TAKE m \in S
  <2>1. top - m \in Mirror
    OBVIOUS
  <2>2. x <= top - m
    BY <2>1, <1>3
  <2> HIDE DEF Mirror
  <2> QED BY <2>2, <1>4
<1> QED BY <1>5

(* Two sequences less than Capacity apart never share a slot.              *)
LEMMA SlotsDoNotCollide ==
  ASSUME NEW s \in Nat, NEW t \in Nat, SlotFor(s) = SlotFor(t),
         s < t + Capacity, t < s + Capacity
  PROVE  s = t
<1>1. Capacity \in Nat /\ Capacity > 0
  BY CapacityAssumption
<1> DEFINE q == s \div Capacity
           r == t \div Capacity
<1>2. /\ q \in Int /\ r \in Int
      /\ s = Capacity * q + (s % Capacity)
      /\ t = Capacity * r + (t % Capacity)
  BY <1>1
<1>3. s - t = Capacity * (q - r)
  BY <1>1, <1>2 DEF SlotFor
<1> HIDE DEF q, r
<1>4. CASE q - r >= 1
  BY <1>1, <1>2, <1>3, <1>4
<1>5. CASE q - r <= -1
  BY <1>1, <1>2, <1>3, <1>5
<1>6. CASE q = r
  BY <1>1, <1>2, <1>6 DEF SlotFor
<1> QED BY <1>2, <1>4, <1>5, <1>6

LEMMA HomeSlot == \A s \in Nat : SlotFor(s) \in Slots
  BY CapacityAssumption DEF SlotFor, Slots

LEMMA LiveEntryType ==
  ASSUME RingTypeOK
  PROVE  \A i \in Occupied : /\ entries[i] \in Entry
                             /\ entries[i].sequence \in Sequences
                             /\ entries[i].sequence \in 0 .. MaxSequence
                             /\ entries[i].sequence \in Nat
<1> SUFFICES ASSUME NEW i \in Occupied
             PROVE  /\ entries[i] \in Entry
                    /\ entries[i].sequence \in Sequences
                    /\ entries[i].sequence \in 0 .. MaxSequence
                    /\ entries[i].sequence \in Nat
  OBVIOUS
<1>1. entries[i] \in Entry
  BY DEF RingTypeOK, Occupied
<1>2. entries[i].sequence \in Sequences
  BY <1>1 DEF Entry
<1>3. \A q \in Sequences : q \in 0 .. MaxSequence /\ q \in Nat
  BY SequencesAssumption
<1> QED BY <1>1, <1>2, <1>3

LEMMA SlotsFinite == IsFiniteSet(Slots)
  BY FS_Interval, CapacityAssumption DEF Slots

-----------------------------------------------------------------------------
(* Vacating slots removes their entries and leaves the others alone.       *)
LEMMA VacateEffect ==
  ASSUME RingTypeOK, SizeCountsOccupied,
         NEW gone \in SUBSET Occupied, entries' = Vacate(gone)
  PROVE  /\ entries' \in [Slots -> Entry \cup {Vacant}]
         /\ Occupied' = Occupied \ gone
         /\ \A i \in Occupied' : entries'[i] = entries[i]
         /\ Cardinality(gone) \in Nat
         /\ size - Cardinality(gone) \in Nat
         /\ size - Cardinality(gone) = Cardinality(Occupied')
<1>1. /\ entries' \in [Slots -> Entry \cup {Vacant}]
      /\ Occupied' = Occupied \ gone
      /\ \A i \in Occupied' : entries'[i] = entries[i]
  BY DEF RingTypeOK, Vacate, Occupied
<1>2. IsFiniteSet(Occupied) /\ IsFiniteSet(gone)
  BY SlotsFinite, FS_Subset DEF Occupied
<1>3. Occupied \cap gone = gone
  OBVIOUS
<1>4. /\ Cardinality(gone) \in Nat
      /\ Cardinality(Occupied \ gone) = Cardinality(Occupied) - Cardinality(gone)
      /\ Cardinality(Occupied \ gone) \in Nat
  <2>1. IsFiniteSet(Occupied \ gone)
    BY <1>2, FS_Difference
  <2>2. Cardinality(Occupied \ gone)
          = Cardinality(Occupied) - Cardinality(Occupied \cap gone)
    BY <1>2, FS_Difference
  <2> QED BY <1>2, <1>3, <2>1, <2>2, FS_CardinalityType
<1> QED BY <1>1, <1>4 DEF SizeCountsOccupied

(* Below the top of the type, what store expires is exactly what the       *)
(* window ending at the new newest sequence no longer covers.              *)
LEMMA ExpiryIsExact ==
  ASSUME MaxSequence \notin Sequences, NEW s \in Sequences, NEW q \in Nat
  PROVE  q < WindowFloor(s) <=> ~ (s < q + Capacity)
<1>1. s \in Nat /\ s # MaxSequence /\ Capacity \in Nat /\ Capacity > 0
  BY SequencesAssumption, CapacityAssumption
<1> QED BY <1>1 DEF WindowFloor, Successor

(* What an accepted store does to the slots: the expired entries go, the   *)
(* home slot of s holds the new entry, everything else stays; the entry    *)
(* that was in that slot, if it survived the expiry, was that of s itself. *)
StoreOutcome(s, v) ==
  /\ entries' \in [Slots -> Entry \cup {Vacant}]
  /\ entries'[SlotFor(s)] = [sequence |-> s, value |-> v]
  /\ Occupied' = (Occupied \ Expired(s)) \cup {SlotFor(s)}
  /\ \A i \in Occupied' \ {SlotFor(s)} : entries'[i] = entries[i]
  /\ newestSequence' \in Sequences
  /\ s <= newestSequence' /\ newestSequence' < s + Capacity
  /\ \A i \in Occupied :
       /\ i \in Expired(s) <=> ~ (newestSequence' < entries[i].sequence + Capacity)
       /\ i \notin Expired(s) => entries[i].sequence <= newestSequence'
  /\ SlotFor(s) \in Occupied \ Expired(s) => entries[SlotFor(s)].sequence = s

LEMMA StoreEffect ==
  ASSUME MaxSequence \notin Sequences, IInv,
         NEW s \in Sequences, NEW v \in Values, StoreAccepted(s, v)
  PROVE  StoreOutcome(s, v)
<1> DEFINE kept == Vacate(Expired(s))
<1>1. /\ s \in Nat /\ s \in 0 .. MaxSequence
      /\ Capacity \in Nat /\ Capacity > 0
      /\ newestSequence \in Nat /\ MaxSequence \in Nat
  BY SequencesAssumption, CapacityAssumption DEF IInv, RingTypeOK
<1>2. Expired(s) \subseteq Occupied
  BY DEF Expired
<1>3. SlotFor(s) \in Slots
  BY <1>1, HomeSlot
<1>4. \A i \in Occupied : entries[i] \in Entry /\ entries[i].sequence \in Nat
  BY LiveEntryType DEF IInv
<1>5. [sequence |-> s, value |-> v] \in Entry
  BY DEF Entry
<1>6. kept \in [Slots -> Entry \cup {Vacant}]
  BY DEF Vacate, IInv, RingTypeOK
<1>7. entries' = [kept EXCEPT ![SlotFor(s)] = [sequence |-> s, value |-> v]]
  BY DEF StoreAccepted
<1>8. /\ entries' \in [Slots -> Entry \cup {Vacant}]
      /\ entries'[SlotFor(s)] = [sequence |-> s, value |-> v]
      /\ \A i \in Slots \ {SlotFor(s)} : entries'[i] = kept[i]
  BY <1>3, <1>5, <1>6, <1>7
<1>9. Occupied' = (Occupied \ Expired(s)) \cup {SlotFor(s)}
  <2>1. entries'[SlotFor(s)] # Vacant
    BY <1>5, <1>8, VacantAssumption
  <2> QED BY <1>2, <1>3, <1>8, <2>1 DEF Occupied, Vacate
<1>10. \A i \in Occupied' \ {SlotFor(s)} : entries'[i] = entries[i]
  BY <1>2, <1>8, <1>9 DEF Occupied, Vacate
<1>11. /\ newestSequence' \in Sequences
       /\ s <= newestSequence' /\ newestSequence' < s + Capacity
  BY <1>1 DEF StoreAccepted, Advances, TooOld, IInv, RingTypeOK
<1>12. \A i \in Occupied :
         /\ i \in Expired(s) <=> ~ (newestSequence' < entries[i].sequence + Capacity)
         /\ i \notin Expired(s) => entries[i].sequence <= newestSequence'
  <2> TAKE i \in Occupied
  <2>1. CASE Advances(s)
    BY <1>1, <1>4, <2>1, ExpiryIsExact
       DEF Expired, StoreAccepted, Advances, IInv, LiveEntriesInWindow
  <2>2. CASE ~Advances(s)
    BY <1>1, <1>4, <2>2
       DEF Expired, StoreAccepted, Advances, IInv, LiveEntriesInWindow
  <2> QED BY <2>1, <2>2
<1>13. SlotFor(s) \in Occupied \ Expired(s) => entries[SlotFor(s)].sequence = s
  <2> SUFFICES ASSUME SlotFor(s) \in Occupied \ Expired(s)
               PROVE  entries[SlotFor(s)].sequence = s
    OBVIOUS
  <2> DEFINE q == entries[SlotFor(s)].sequence
  <2>1. q \in Nat /\ SlotFor(q) = SlotFor(s)
    BY <1>4 DEF IInv, LiveEntriesInWindow
  <2>2. q <= newestSequence' /\ newestSequence' < q + Capacity
    BY <1>12
  <2>3. newestSequence' \in Nat
    BY <1>11, SequencesAssumption
  <2>4. q < s + Capacity /\ s < q + Capacity
    BY <1>1, <1>11, <2>1, <2>2, <2>3
  <2> QED BY <1>1, <2>1, <2>4, SlotsDoNotCollide
<1> QED BY <1>8, <1>9, <1>10, <1>11, <1>12, <1>13 DEF StoreOutcome

-----------------------------------------------------------------------------
LEMMA CallType ==
  /\ \A o \in Operations, s \in Sequences :
       <<o, s>> \in Operations \X (0 .. MaxSequence)
  /\ \A o \in Operations : <<o, 0>> \in Operations \X (0 .. MaxSequence)
  BY SequencesAssumption

LEMMA InitInvariant == RingInit => IInv
<1> SUFFICES ASSUME RingInit PROVE IInv
  OBVIOUS
<1>1. Occupied = {}
  BY DEF RingInit, Occupied
<1>2. RingTypeOK
  BY CallType DEF RingInit, RingTypeOK, Operations
<1>3. SizeCountsOccupied
  BY <1>1, FS_EmptySet DEF RingInit, SizeCountsOccupied
<1> QED BY <1>1, <1>2, <1>3 DEF RingInit, IInv, LiveEntriesInWindow

LEMMA StoreInvariant ==
  ASSUME MaxSequence \notin Sequences, IInv,
         NEW s \in Sequences, NEW v \in Values, StoreAccepted(s, v)
  PROVE  IInv'
<1> DEFINE gone == Expired(s)
           home == SlotFor(s)
<1>0. StoreOutcome(s, v)
  BY StoreEffect
<1>1. /\ s \in Nat /\ Capacity \in Nat /\ newestSequence' \in Nat
      /\ home \in Slots
  BY <1>0, SequencesAssumption, CapacityAssumption, HomeSlot DEF StoreOutcome
<1>2. /\ IsFiniteSet(Occupied) /\ gone \subseteq Occupied
      /\ IsFiniteSet(Occupied \ gone)
  <2>1. IsFiniteSet(Occupied)
    BY SlotsFinite, FS_Subset DEF Occupied
  <2> QED BY <2>1, FS_Difference DEF Expired
<1>3. /\ Cardinality(Occupied \ gone) = size - Cardinality(gone)
      /\ Cardinality(Occupied \ gone) \in Nat
  <2>1. Occupied \cap gone = gone
    BY <1>2
  <2>2. Cardinality(Occupied \ gone) = Cardinality(Occupied) - Cardinality(gone)
    BY <1>2, <2>1, FS_Difference
  <2> QED BY <1>2, <2>2, FS_CardinalityType DEF IInv, SizeCountsOccupied
<1>4. size' = IF home \in Occupied \ gone
              THEN Cardinality(Occupied \ gone)
              ELSE Cardinality(Occupied \ gone) + 1
  <2>1. Vacate(gone)[home] = Vacant <=> home \notin Occupied \ gone
    BY <1>1, <1>2 DEF Vacate, Occupied
  <2>2. size' = size - Cardinality(gone)
                  + (IF Vacate(gone)[home] = Vacant THEN 1 ELSE 0)
    BY DEF StoreAccepted
  <2> QED BY <1>3, <2>1, <2>2
<1>5. size' = Cardinality((Occupied \ gone) \cup {home}) /\ size' \in Nat
  <2>1. Cardinality((Occupied \ gone) \cup {home})
          = IF home \in Occupied \ gone
            THEN Cardinality(Occupied \ gone)
            ELSE Cardinality(Occupied \ gone) + 1
    BY <1>2, FS_AddElement
  <2> QED BY <1>3, <1>4, <2>1
<1>6. RingTypeOK'
  <2>1. call' \in Operations \X (0 .. MaxSequence)
    BY CallType DEF StoreAccepted, Operations
  <2> QED BY <1>0, <1>5, <2>1 DEF RingTypeOK, StoreAccepted, StoreOutcome
<1>7. SizeCountsOccupied'
  BY <1>0, <1>5 DEF SizeCountsOccupied, StoreOutcome
<1>8. LiveEntriesInWindow'
  <2> SUFFICES ASSUME NEW i \in Occupied'
               PROVE  /\ SlotFor(entries'[i].sequence) = i
                      /\ hasNewest'
                      /\ entries'[i].sequence <= newestSequence'
                      /\ newestSequence' < entries'[i].sequence + Capacity
    BY DEF LiveEntriesInWindow
  <2>1. hasNewest'
    BY DEF StoreAccepted
  <2>2. CASE i = home
    BY <1>0, <2>1, <2>2 DEF StoreOutcome
  <2>3. CASE i # home
    <3>1. i \in Occupied \ gone /\ entries'[i] = entries[i]
      BY <1>0, <2>3 DEF StoreOutcome
    <3> QED BY <1>0, <2>1, <3>1 DEF StoreOutcome, IInv, LiveEntriesInWindow
  <2> QED BY <2>2, <2>3
<1> QED BY <1>6, <1>7, <1>8 DEF IInv

(* Any removal keeps the invariant when the newest sequence stays, or when *)
(* it moves down to the newest survivor.                                   *)
LEMMA RemovalInvariant ==
  ASSUME IInv, NEW gone \in SUBSET Occupied, entries' = Vacate(gone),
         size' = size - Cardinality(gone), returned' \in Nat,
         call' \in Operations \X (0 .. MaxSequence),
         \/ UNCHANGED <<newestSequence, hasNewest>>
         \/ RecomputeNewest(Occupied \ gone)
  PROVE  IInv'
<1>1. /\ entries' \in [Slots -> Entry \cup {Vacant}]
      /\ Occupied' = Occupied \ gone
      /\ \A i \in Occupied' : entries'[i] = entries[i]
      /\ size' \in Nat /\ size' = Cardinality(Occupied')
  BY VacateEffect DEF IInv
<1>2. Capacity \in Nat /\ MaxSequence \in Nat /\ newestSequence \in Nat
  BY SequencesAssumption, CapacityAssumption DEF IInv, RingTypeOK
<1>3. \A i \in Occupied : /\ entries[i].sequence \in Sequences
                          /\ entries[i].sequence \in 0 .. MaxSequence
                          /\ entries[i].sequence \in Nat
  BY LiveEntryType DEF IInv
<1>4. CASE UNCHANGED <<newestSequence, hasNewest>>
  BY <1>1, <1>4 DEF IInv, RingTypeOK, SizeCountsOccupied, LiveEntriesInWindow
<1>5. CASE RecomputeNewest(Occupied \ gone)
  <2> DEFINE left == Occupied \ gone
             sequences == {entries[i].sequence : i \in left}
  <2>1. CASE left = {}
    BY <1>1, <1>2, <1>5, <2>1
       DEF RecomputeNewest, IInv, RingTypeOK, SizeCountsOccupied, LiveEntriesInWindow
  <2>2. CASE left # {}
    <3>1. /\ hasNewest' = TRUE
          /\ newestSequence' = CHOOSE n \in sequences :
                                 \A i \in left : entries[i].sequence <= n
      BY <1>5, <2>2 DEF RecomputeNewest
    <3>2. sequences \in SUBSET (0 .. MaxSequence) /\ sequences # {}
      BY <1>3, <2>2
    <3>3. \E n \in sequences : \A m \in sequences : m <= n
      BY <1>2, <3>2, LargestExists
    <3>4. \E n \in sequences : \A i \in left : entries[i].sequence <= n
      BY <3>3
    <3>5. /\ newestSequence' \in sequences
          /\ \A i \in left : entries[i].sequence <= newestSequence'
      BY <3>1, <3>4
    <3>6. PICK j \in left : newestSequence' = entries[j].sequence
      BY <3>5
    <3>7. /\ newestSequence' <= newestSequence
          /\ newestSequence' \in Sequences /\ newestSequence' \in Nat
      BY <1>3, <3>6 DEF IInv, LiveEntriesInWindow
    <3>8. RingTypeOK' /\ SizeCountsOccupied'
      BY <1>1, <3>1, <3>7 DEF RingTypeOK, SizeCountsOccupied
    <3>9. LiveEntriesInWindow'
      <4> SUFFICES ASSUME NEW i \in Occupied'
                   PROVE  /\ SlotFor(entries'[i].sequence) = i
                          /\ hasNewest'
                          /\ entries'[i].sequence <= newestSequence'
                          /\ newestSequence' < entries'[i].sequence + Capacity
        BY DEF LiveEntriesInWindow
      <4>1. i \in left /\ entries'[i] = entries[i]
        BY <1>1
      <4>2. /\ SlotFor(entries[i].sequence) = i
            /\ newestSequence < entries[i].sequence + Capacity
        BY <4>1 DEF IInv, LiveEntriesInWindow
      <4>3. entries[i].sequence \in Nat
        BY <1>3, <4>1
      <4>4. newestSequence' < entries[i].sequence + Capacity
        BY <1>2, <3>7, <4>2, <4>3
      <4> QED BY <3>1, <3>5, <4>1, <4>2, <4>4
    <3> QED BY <3>8, <3>9 DEF IInv
  <2> QED BY <2>1, <2>2
<1> QED BY <1>4, <1>5

LEMMA NextInvariant ==
  ASSUME MaxSequence \notin Sequences, IInv, [RingNext]_ringVars
  PROVE  IInv'
<1>1. ASSUME NEW s \in Sequences, NEW v \in Values, StoreAccepted(s, v)
      PROVE  IInv'
  BY <1>1, StoreInvariant
<1>2. ASSUME NEW s \in Sequences, StoreRejected(s)
      PROVE  IInv'
  BY <1>2, CallType DEF StoreRejected, Operations, IInv, RingTypeOK, SizeCountsOccupied,
              LiveEntriesInWindow, Occupied
<1>3. ASSUME NEW s \in Sequences, Erase(s)
      PROVE  IInv'
  <2>1. CASE Contains(s)
    <3>1. SlotFor(s) \in Occupied
      BY <2>1, HomeSlot, SequencesAssumption DEF Contains, Occupied
    <3>2. Cardinality({SlotFor(s)}) = 1
      BY FS_Singleton
    <3>3. /\ entries' = Vacate({SlotFor(s)}) /\ returned' \in Nat
          /\ call' \in Operations \X (0 .. MaxSequence)
          /\ size' = size - Cardinality({SlotFor(s)})
          /\ UNCHANGED <<newestSequence, hasNewest>>
      BY <1>3, <2>1, <3>2, CallType DEF Erase, Operations
    <3> QED BY <3>1, <3>3, RemovalInvariant
  <2>2. CASE ~Contains(s)
    BY <1>3, <2>2, CallType DEF Erase, Operations, IInv, RingTypeOK, SizeCountsOccupied,
                      LiveEntriesInWindow, Occupied
  <2> QED BY <2>1, <2>2
<1>4. ASSUME NEW s \in Sequences, EraseThrough(s)
      PROVE  IInv'
  <2> DEFINE gone == {i \in Occupied : entries[i].sequence <= s}
  <2>1. /\ gone \subseteq Occupied /\ Remove(gone)
        /\ UNCHANGED <<newestSequence, hasNewest>>
    BY <1>4 DEF EraseThrough
  <2>2. Cardinality(gone) \in Nat
    BY <2>1, VacateEffect DEF IInv, Remove
  <2>3. call' \in Operations \X (0 .. MaxSequence)
    BY <1>4, CallType DEF EraseThrough, Operations
  <2> HIDE DEF gone
  <2> QED BY <2>1, <2>2, <2>3, RemovalInvariant DEF Remove
<1>5. ASSUME NEW s \in Sequences, EraseAfter(s)
      PROVE  IInv'
  <2> DEFINE gone == {i \in Occupied : entries[i].sequence > s}
  <2>1. /\ gone \subseteq Occupied /\ Remove(gone)
        /\ \/ UNCHANGED <<newestSequence, hasNewest>>
           \/ RecomputeNewest(Occupied \ gone)
    BY <1>5 DEF EraseAfter
  <2>2. Cardinality(gone) \in Nat
    BY <2>1, VacateEffect DEF IInv, Remove
  <2>3. call' \in Operations \X (0 .. MaxSequence)
    BY <1>5, CallType DEF EraseAfter, Operations
  <2> HIDE DEF gone
  <2> QED BY <2>1, <2>2, <2>3, RemovalInvariant DEF Remove
<1>6. CASE Clear
  <2>1. Occupied' = {}
    BY <1>6 DEF Clear, Occupied
  <2> QED BY <1>6, <2>1, FS_EmptySet, SequencesAssumption, CallType
          DEF Clear, Operations, IInv, RingTypeOK, SizeCountsOccupied, LiveEntriesInWindow
<1>7. CASE UNCHANGED ringVars
  BY <1>7 DEF ringVars, IInv, RingTypeOK, SizeCountsOccupied, LiveEntriesInWindow, Occupied
<1> QED BY <1>1, <1>2, <1>3, <1>4, <1>5, <1>6, <1>7 DEF RingNext

(* The inductive invariant holds of every behaviour: in particular size_   *)
(* is the number of occupied slots, and every live entry sits in its home  *)
(* slot, within the window ending at the newest sequence, after any        *)
(* interleaving of store, erase, eraseThrough, eraseAfter and clear.       *)
THEOREM InvariantHolds ==
  ASSUME MaxSequence \notin Sequences
  PROVE  RingSpec => []IInv
<1>1. IInv /\ [RingNext]_ringVars => IInv'
  BY NextInvariant
<1> QED BY <1>1, InitInvariant, PTL DEF RingSpec

(* RingTypeOK, for every value of the constants.                           *)
THEOREM RingTypeCorrect ==
  ASSUME MaxSequence \notin Sequences
  PROVE  RingSpec => []RingTypeOK
<1>1. IInv => RingTypeOK
  BY DEF IInv
<1> QED BY <1>1, InvariantHolds, PTL

(* size_ stays the number of occupied slots.                               *)
THEOREM SizeCorrect ==
  ASSUME MaxSequence \notin Sequences
  PROVE  RingSpec => []SizeCountsOccupied
<1>1. IInv => SizeCountsOccupied
  BY DEF IInv
<1> QED BY <1>1, InvariantHolds, PTL

(* Every live entry is in its home slot and inside the newest window.      *)
THEOREM WindowRespected ==
  ASSUME MaxSequence \notin Sequences
  PROVE  RingSpec => []LiveEntriesInWindow
<1>1. IInv => LiveEntriesInWindow
  BY DEF IInv
<1> QED BY <1>1, InvariantHolds, PTL

-----------------------------------------------------------------------------
(* Different slots hold different entries, so counting slots counts        *)
(* entries.                                                                *)
LEMMA SlotsCountEntries ==
  ASSUME IInv, NEW gone \in SUBSET Occupied
  PROVE  Cardinality({entries[i] : i \in gone}) = Cardinality(gone)
<1> DEFINE held == {entries[i] : i \in gone}
           f == [i \in gone |-> entries[i]]
<1>1. \A i, j \in gone : entries[i] = entries[j] => i = j
  BY DEF IInv, LiveEntriesInWindow
<1>2. f \in Injection(gone, held)
  BY <1>1 DEF Injection, IsInjective
<1>3. f \in Surjection(gone, held)
  BY DEF Surjection
<1>4. ExistsBijection(gone, held)
  BY <1>2, <1>3 DEF ExistsBijection, Bijection
<1>5. IsFiniteSet(gone)
  BY SlotsFinite, FS_Subset DEF Occupied
<1> QED BY <1>4, <1>5, FS_Bijection

(* Vacating the slots of gone forgets exactly the entries they held.       *)
LEMMA VacatedContent ==
  ASSUME IInv, NEW gone \in SUBSET Occupied, entries' = Vacate(gone)
  PROVE  Content' = Content \ {entries[i] : i \in gone}
<1>1. /\ Occupied' = Occupied \ gone
      /\ \A i \in Occupied' : entries'[i] = entries[i]
  BY VacateEffect DEF IInv
<1>2. \A i, j \in Occupied : entries[i] = entries[j] => i = j
  BY DEF IInv, LiveEntriesInWindow
<1>3. Content' = {entries[i] : i \in Occupied \ gone}
  BY <1>1 DEF Content
<1> QED BY <1>2, <1>3 DEF Content

(* The instance's copy of Cardinality is Cardinality.                      *)
LEMMA SameCardinality ==
  ASSUME NEW S
  PROVE  Window!Cardinality(S) = Cardinality(S)
  BY DEF Cardinality, Window!Cardinality

LEMMA ForgetRefines ==
  ASSUME IInv, NEW gone \in SUBSET Occupied, Remove(gone)
  PROVE  Window!Forget({entries[i] : i \in gone})
<1>1. Content' = Content \ {entries[i] : i \in gone}
  BY VacatedContent DEF Remove
<1>2. returned' = Cardinality({entries[i] : i \in gone})
  BY SlotsCountEntries DEF Remove
<1> QED BY <1>1, <1>2, SameCardinality DEF Window!Forget

LEMMA TooOldAgrees ==
  ASSUME IInv, NEW s \in Sequences
  PROVE  TooOld(s) <=> Window!TooOld(s)
<1>1. s \in Nat /\ Capacity \in Nat /\ newestSequence \in Nat /\ hasNewest \in BOOLEAN
  BY SequencesAssumption, CapacityAssumption DEF IInv, RingTypeOK
<1> QED BY <1>1 DEF TooOld, Window!TooOld

LEMMA StoreRefines ==
  ASSUME MaxSequence \notin Sequences, IInv,
         NEW s \in Sequences, NEW v \in Values, StoreAccepted(s, v)
  PROVE  Window!StoreAccepted(s, v)
<1> DEFINE home == SlotFor(s)
           new == [sequence |-> s, value |-> v]
           kept == {e \in Content : e.sequence # s
                                  /\ newestSequence' < e.sequence + Capacity}
<1>1. StoreOutcome(s, v)
  BY StoreEffect
<1>2. s \in Nat /\ newestSequence \in Nat /\ home \in Slots
  BY SequencesAssumption, HomeSlot DEF IInv, RingTypeOK
<1>3. Content' = kept \cup {new}
  <2>1. ASSUME NEW i \in Occupied' PROVE entries'[i] \in kept \cup {new}
    <3>1. CASE i = home
      BY <1>1, <3>1 DEF StoreOutcome
    <3>2. CASE i # home
      <4>1. /\ i \in Occupied /\ i \notin Expired(s) /\ entries'[i] = entries[i]
            /\ newestSequence' < entries[i].sequence + Capacity
        BY <1>1, <3>2 DEF StoreOutcome
      <4>2. SlotFor(entries[i].sequence) = i
        BY <4>1 DEF IInv, LiveEntriesInWindow
      <4> QED BY <3>2, <4>1, <4>2 DEF Content
    <3> QED BY <3>1, <3>2
  <2>2. ASSUME NEW e \in kept PROVE e \in Content'
    <3>1. PICK i \in Occupied : e = entries[i]
      BY DEF Content
    <3>2. i \notin Expired(s)
      BY <1>1, <3>1 DEF StoreOutcome
    <3>3. i # home
      BY <1>1, <3>1, <3>2 DEF StoreOutcome
    <3>4. i \in Occupied' /\ entries'[i] = entries[i]
      BY <1>1, <3>2, <3>3 DEF StoreOutcome
    <3> QED BY <3>1, <3>4 DEF Content
  <2>3. new \in Content'
    BY <1>1 DEF StoreOutcome, Content
  <2> HIDE DEF kept, new
  <2> QED BY <2>1, <2>2, <2>3 DEF Content
<1>0. call' = <<"store", s>>
  BY DEF StoreAccepted
<1>4. ~Window!TooOld(s)
  BY TooOldAgrees DEF StoreAccepted
<1>5. hasNewest' /\ returned' = 1
      /\ newestSequence' = IF ~hasNewest \/ s > newestSequence THEN s ELSE newestSequence
  BY DEF StoreAccepted, Advances
<1>6. CASE hasNewest
  BY <1>0, <1>2, <1>3, <1>4, <1>5, <1>6 DEF Window!StoreAccepted
<1>7. CASE ~hasNewest
  BY <1>0, <1>2, <1>3, <1>4, <1>5, <1>7 DEF Window!StoreAccepted
<1> QED BY <1>6, <1>7

LEMMA EraseRefines ==
  ASSUME IInv, NEW s \in Sequences, Erase(s)
  PROVE  Window!Erase(s)
<1> DEFINE same == {e \in Content : e.sequence = s}
           home == SlotFor(s)
<1>1. home \in Slots
  BY HomeSlot, SequencesAssumption
<1>2. same = {entries[i] : i \in {j \in Occupied : entries[j].sequence = s}}
  BY DEF Content
<1>3. CASE Contains(s)
  <2>1. {j \in Occupied : entries[j].sequence = s} = {home}
    BY <1>1, <1>3 DEF Contains, Occupied, IInv, LiveEntriesInWindow
  <2>2. Cardinality({home}) = 1 /\ {home} \in SUBSET Occupied
    BY <2>1, FS_Singleton
  <2>3. Remove({home})
    BY <1>3, <2>2 DEF Erase, Remove
  <2>4. Window!Forget({entries[i] : i \in {home}})
    BY <2>2, <2>3, ForgetRefines
  <2> QED BY <1>2, <2>1, <2>4 DEF Erase, Window!Erase
<1>4. CASE ~Contains(s)
  <2>1. {j \in Occupied : entries[j].sequence = s} = {}
    BY <1>4 DEF Contains, Occupied, IInv, LiveEntriesInWindow
  <2>2. same = {}
    BY <1>2, <2>1
  <2>3. Content' = Content /\ returned' = 0
    BY <1>4 DEF Erase, Content, Occupied
  <2>4. Window!Forget(same)
    BY <2>2, <2>3, SameCardinality, FS_EmptySet DEF Window!Forget
  <2> QED BY <2>4 DEF Erase, Window!Erase
<1> QED BY <1>3, <1>4

LEMMA EraseThroughRefines ==
  ASSUME IInv, NEW s \in Sequences, EraseThrough(s)
  PROVE  Window!EraseThrough(s)
<1> DEFINE gone == {i \in Occupied : entries[i].sequence <= s}
<1>1. gone \in SUBSET Occupied /\ Remove(gone)
  BY DEF EraseThrough
<1>2. Window!Forget({entries[i] : i \in gone})
  <2> HIDE DEF gone
  <2> QED BY <1>1, ForgetRefines
<1>3. {entries[i] : i \in gone} = {e \in Content : e.sequence <= s}
  BY DEF Content
<1> QED BY <1>2, <1>3 DEF EraseThrough, Window!EraseThrough

LEMMA EraseAfterRefines ==
  ASSUME IInv, NEW s \in Sequences, EraseAfter(s)
  PROVE  Window!EraseAfter(s)
<1> DEFINE gone == {i \in Occupied : entries[i].sequence > s}
           left == Occupied \ gone
           later == {e \in Content : e.sequence > s}
           largest == {e.sequence : e \in {d \in Content \ later :
                         \A other \in Content \ later : other.sequence <= d.sequence}}
           newestSet == IF hasNewest THEN {newestSequence} ELSE {}
<1>0. call' = <<"eraseAfter", s>>
  BY DEF EraseAfter
<1>1. gone \in SUBSET Occupied /\ Remove(gone)
  BY DEF EraseAfter
<1>2. {entries[i] : i \in gone} = later
  BY DEF Content
<1>3. Window!Forget(later)
  <2>1. Window!Forget({entries[i] : i \in gone})
    <3> HIDE DEF gone
    <3> QED BY <1>1, ForgetRefines
  <2> QED BY <1>2, <2>1
<1>4. Content \ later = {entries[i] : i \in left}
  BY DEF Content
<1>5. CASE gone = {}
  <2>1. later = {}
    BY <1>2, <1>5
  <2>2. newestSet' = newestSet
    BY <1>5 DEF EraseAfter
  <2> QED BY <1>0, <1>3, <2>1, <2>2 DEF Window!EraseAfter
<1>6. CASE gone # {} /\ left = {}
  <2>1. later # {} /\ Content \ later = {}
    BY <1>2, <1>4, <1>6
  <2>2. newestSet' = {}
    BY <1>6 DEF EraseAfter, RecomputeNewest
  <2> QED BY <1>0, <1>3, <2>1, <2>2 DEF Window!EraseAfter
<1>7. CASE gone # {} /\ left # {}
  <2> DEFINE sequences == {entries[i].sequence : i \in left}
  <2>1. /\ hasNewest' = TRUE
        /\ newestSequence' = CHOOSE n \in sequences :
                               \A i \in left : entries[i].sequence <= n
    BY <1>7 DEF EraseAfter, RecomputeNewest
  <2>2. \A i \in left : entries[i].sequence \in 0 .. MaxSequence
    BY LiveEntryType DEF IInv
  <2>3. \E n \in sequences : \A m \in sequences : m <= n
    <3>1. sequences \in SUBSET (0 .. MaxSequence) /\ sequences # {}
      BY <1>7, <2>2
    <3> HIDE DEF sequences
    <3> QED BY <3>1, LargestExists, SequencesAssumption
  <2>4. \E n \in sequences : \A i \in left : entries[i].sequence <= n
    BY <2>3
  <2>5. /\ newestSequence' \in sequences
        /\ \A i \in left : entries[i].sequence <= newestSequence'
    BY <2>1, <2>4
  <2>6. \A d \in Content \ later : d.sequence <= newestSequence'
    BY <1>4, <2>5
  <2>7. largest = {newestSequence'}
    <3>1. ASSUME NEW n \in largest PROVE n = newestSequence'
      <4>1. PICK d \in Content \ later :
              /\ n = d.sequence
              /\ \A other \in Content \ later : other.sequence <= d.sequence
        OBVIOUS
      <4>2. newestSequence' <= n /\ n <= newestSequence'
        BY <1>4, <2>5, <2>6, <4>1
      <4>3. n \in Nat /\ newestSequence' \in Nat
        BY <1>4, <2>2, <2>5, <4>1
      <4> QED BY <4>2, <4>3
    <3>2. newestSequence' \in largest
      BY <1>4, <2>5, <2>6
    <3> QED BY <3>1, <3>2
  <2>8. later # {}
    BY <1>2, <1>7
  <2> QED BY <1>0, <1>3, <2>1, <2>7, <2>8 DEF Window!EraseAfter
<1> QED BY <1>5, <1>6, <1>7

(* The ring of slots implements the window map, call by call and return    *)
(* value by return value.                                                  *)
THEOREM RingImplementsWindow ==
  ASSUME MaxSequence \notin Sequences
  PROVE  RingSpec => ImplementsWindow
<1>1. RingInit => Window!Init
  BY DEF RingInit, Window!Init, Content, Occupied
<1>2. IInv /\ [RingNext]_ringVars => [Window!Next]_(Window!windowVars)
  <2> SUFFICES ASSUME IInv, [RingNext]_ringVars
               PROVE  [Window!Next]_(Window!windowVars)
    OBVIOUS
  <2>1. ASSUME NEW s \in Sequences, NEW v \in Values, StoreAccepted(s, v)
        PROVE  Window!Next
    BY <2>1, StoreRefines DEF Window!Next
  <2>2. ASSUME NEW s \in Sequences, StoreRejected(s)
        PROVE  Window!Next
    <3>1. Window!StoreRejected(s)
      BY <2>2, TooOldAgrees
         DEF StoreRejected, Window!StoreRejected, Content, Occupied
    <3> QED BY <3>1 DEF Window!Next
  <2>3. ASSUME NEW s \in Sequences, Erase(s) PROVE Window!Next
    BY <2>3, EraseRefines DEF Window!Next
  <2>4. ASSUME NEW s \in Sequences, EraseThrough(s) PROVE Window!Next
    BY <2>4, EraseThroughRefines DEF Window!Next
  <2>5. ASSUME NEW s \in Sequences, EraseAfter(s) PROVE Window!Next
    BY <2>5, EraseAfterRefines DEF Window!Next
  <2>6. CASE Clear
    BY <2>6 DEF Clear, Window!Next, Window!Clear, Content, Occupied
  <2>7. CASE UNCHANGED ringVars
    BY <2>7 DEF ringVars, Window!windowVars, Content, Occupied
  <2> QED BY <2>1, <2>2, <2>3, <2>4, <2>5, <2>6, <2>7 DEF RingNext
<1> QED BY <1>1, <1>2, InvariantHolds, PTL DEF RingSpec, ImplementsWindow, Window!Spec
-----------------------------------------------------------------------------
(* InterpolationBuffer.  Visited are the entries of the first n slots; L   *)
(* holds the entry with the largest, or smallest, number of S, if any.     *)
Visited(n) == {entries[i] : i \in {j \in Occupied : j < n}}
IsTop(L, S) ==
  IF S = {} THEN L = {}
  ELSE \E e \in S : L = {e} /\ \A f \in S : f.sequence <= e.sequence
IsBottom(L, S) ==
  IF S = {} THEN L = {}
  ELSE \E e \in S : L = {e} /\ \A f \in S : f.sequence >= e.sequence
Numbered(S) == \A e, f \in S : /\ e.sequence \in Nat
                               /\ e.sequence = f.sequence => e = f

LEMMA TopGrows ==
  ASSUME NEW S, NEW L, IsTop(L, S), NEW e, Numbered(S \cup {e})
  PROVE  /\ After(e, L) => IsTop({e}, S \cup {e})
         /\ ~After(e, L) => IsTop(L, S \cup {e})
<1>1. CASE S = {}
  <2>1. L = {} /\ After(e, L)
    BY <1>1 DEF IsTop, After
  <2> QED BY <1>1, <2>1 DEF IsTop, Numbered
<1>2. CASE S # {}
  <2>1. PICK l \in S : L = {l} /\ \A f \in S : f.sequence <= l.sequence
    BY <1>2 DEF IsTop
  <2>2. After(e, L) <=> e.sequence > l.sequence
    BY <2>1 DEF After
  <2>3. e.sequence \in Nat /\ \A f \in S : f.sequence \in Nat
    BY DEF Numbered
  <2>4. CASE e.sequence > l.sequence
    <3>1. \A f \in S \cup {e} : f.sequence <= e.sequence
      BY <2>1, <2>3, <2>4
    <3> QED BY <2>2, <2>4, <3>1 DEF IsTop
  <2>5. CASE ~(e.sequence > l.sequence)
    <3>1. \A f \in S \cup {e} : f.sequence <= l.sequence
      BY <2>1, <2>3, <2>5
    <3> QED BY <2>1, <2>2, <2>5, <3>1 DEF IsTop
  <2> QED BY <2>4, <2>5
<1> QED BY <1>1, <1>2

LEMMA BottomGrows ==
  ASSUME NEW S, NEW L, IsBottom(L, S), NEW e, Numbered(S \cup {e})
  PROVE  /\ Before(e, L) => IsBottom({e}, S \cup {e})
         /\ ~Before(e, L) => IsBottom(L, S \cup {e})
<1>1. CASE S = {}
  <2>1. L = {} /\ Before(e, L)
    BY <1>1 DEF IsBottom, Before
  <2> QED BY <1>1, <2>1 DEF IsBottom, Numbered
<1>2. CASE S # {}
  <2>1. PICK l \in S : L = {l} /\ \A f \in S : f.sequence >= l.sequence
    BY <1>2 DEF IsBottom
  <2>2. Before(e, L) <=> e.sequence < l.sequence
    BY <2>1 DEF Before
  <2>3. e.sequence \in Nat /\ \A f \in S : f.sequence \in Nat
    BY DEF Numbered
  <2>4. CASE e.sequence < l.sequence
    <3>1. \A f \in S \cup {e} : f.sequence >= e.sequence
      BY <2>1, <2>3, <2>4
    <3> QED BY <2>2, <2>4, <3>1 DEF IsBottom
  <2>5. CASE ~(e.sequence < l.sequence)
    <3>1. \A f \in S \cup {e} : f.sequence >= l.sequence
      BY <2>1, <2>3, <2>5
    <3> QED BY <2>1, <2>2, <2>5, <3>1 DEF IsBottom
  <2> QED BY <2>4, <2>5
<1> QED BY <1>1, <1>2

(* What the walk of sampleFractional has found once it has seen S.         *)
Located(found, position, S) ==
  /\ IsTop(found.lower, {e \in S : 2 * e.sequence <= position})
  /\ IsBottom(found.upper, {e \in S : 2 * e.sequence >= position})
  /\ IsTop(found.newest, S)
  /\ IsTop(found.second, S \ found.newest)

LEMMA NewestTwoGrow ==
  ASSUME NEW S, NEW found, IsTop(found.newest, S), IsTop(found.second, S \ found.newest),
         NEW e, e \notin S, Numbered(S \cup {e})
  PROVE  /\ IsTop(NewestTwo(found, e)[1], S \cup {e})
         /\ IsTop(NewestTwo(found, e)[2], (S \cup {e}) \ NewestTwo(found, e)[1])
<1>0. found.newest \subseteq S
  BY DEF IsTop
<1>1. CASE After(e, found.newest)
  <2>1. NewestTwo(found, e) = <<{e}, found.newest>>
    BY <1>1 DEF NewestTwo
  <2>2. (S \cup {e}) \ {e} = S
    OBVIOUS
  <2>3. IsTop({e}, S \cup {e})
    BY <1>1, TopGrows
  <2> QED BY <2>1, <2>2, <2>3
<1>2. CASE ~After(e, found.newest)
  <2>1. IsTop(found.newest, S \cup {e})
    BY <1>2, TopGrows
  <2>2. Before(e, found.newest)
    <3>1. PICK f \in found.newest : ~(e.sequence > f.sequence)
      BY <1>2 DEF After
    <3>2. f \in S /\ found.newest = {f}
      BY <3>1 DEF IsTop
    <3>3. e.sequence \in Nat /\ f.sequence \in Nat /\ e.sequence # f.sequence
      BY <3>2 DEF Numbered
    <3> QED BY <3>1, <3>2, <3>3 DEF Before
  <2>3. PICK T : T = S \ found.newest
    OBVIOUS
  <2>4. (S \cup {e}) \ found.newest = T \cup {e}
    BY <1>0, <2>3
  <2>5. IsTop(found.second, T) /\ Numbered(T \cup {e})
    BY <2>3 DEF Numbered
  <2>6. CASE After(e, found.second)
    <3>1. NewestTwo(found, e) = <<found.newest, {e}>>
      BY <1>2, <2>2, <2>6 DEF NewestTwo
    <3>2. IsTop({e}, T \cup {e})
      BY <2>5, <2>6, TopGrows
    <3> QED BY <2>1, <2>4, <3>1, <3>2
  <2>7. CASE ~After(e, found.second)
    <3>1. NewestTwo(found, e) = <<found.newest, found.second>>
      BY <1>2, <2>7 DEF NewestTwo
    <3>2. IsTop(found.second, T \cup {e})
      BY <2>5, <2>7, TopGrows
    <3> QED BY <2>1, <2>4, <3>1, <3>2
  <2> QED BY <2>6, <2>7
<1> QED BY <1>1, <1>2

LEMMA VisitLocates ==
  ASSUME NEW S, NEW found, NEW position \in Int, Located(found, position, S),
         NEW e, e \notin S, Numbered(S \cup {e})
  PROVE  Located(Visit(position, found, e), position, S \cup {e})
<1> PICK now : now = Visit(position, found, e)
  OBVIOUS
<1>1. /\ now.lower = IF 2 * e.sequence <= position /\ After(e, found.lower) THEN {e} ELSE found.lower
      /\ now.upper = IF 2 * e.sequence >= position /\ Before(e, found.upper) THEN {e} ELSE found.upper
      /\ now.newest = NewestTwo(found, e)[1] /\ now.second = NewestTwo(found, e)[2]
  BY DEF Visit
<1>2. IsTop(now.newest, S \cup {e}) /\ IsTop(now.second, (S \cup {e}) \ now.newest)
  BY <1>1, NewestTwoGrow DEF Located
<1>3. IsTop(now.lower, {f \in S \cup {e} : 2 * f.sequence <= position})
  <2>1. PICK T : T = {f \in S : 2 * f.sequence <= position}
    OBVIOUS
  <2>2. IsTop(found.lower, T)
    BY <2>1 DEF Located
  <2>3. CASE 2 * e.sequence <= position
    <3>1. {f \in S \cup {e} : 2 * f.sequence <= position} = T \cup {e}
      BY <2>1, <2>3
    <3>2. Numbered(T \cup {e})
      BY <2>1 DEF Numbered
    <3>3. /\ After(e, found.lower) => IsTop({e}, T \cup {e})
          /\ ~After(e, found.lower) => IsTop(found.lower, T \cup {e})
      BY <2>2, <3>2, TopGrows
    <3> QED BY <1>1, <2>3, <3>1, <3>3
  <2>4. CASE ~(2 * e.sequence <= position)
    <3>1. {f \in S \cup {e} : 2 * f.sequence <= position} = T
      BY <2>1, <2>4
    <3> QED BY <1>1, <2>2, <2>4, <3>1
  <2> QED BY <2>3, <2>4
<1>4. IsBottom(now.upper, {f \in S \cup {e} : 2 * f.sequence >= position})
  <2>1. PICK T : T = {f \in S : 2 * f.sequence >= position}
    OBVIOUS
  <2>2. IsBottom(found.upper, T)
    BY <2>1 DEF Located
  <2>3. CASE 2 * e.sequence >= position
    <3>1. {f \in S \cup {e} : 2 * f.sequence >= position} = T \cup {e}
      BY <2>1, <2>3
    <3>2. Numbered(T \cup {e})
      BY <2>1 DEF Numbered
    <3>3. /\ Before(e, found.upper) => IsBottom({e}, T \cup {e})
          /\ ~Before(e, found.upper) => IsBottom(found.upper, T \cup {e})
      BY <2>2, <3>2, BottomGrows
    <3> QED BY <1>1, <2>3, <3>1, <3>3
  <2>4. CASE ~(2 * e.sequence >= position)
    <3>1. {f \in S \cup {e} : 2 * f.sequence >= position} = T
      BY <2>1, <2>4
    <3> QED BY <1>1, <2>2, <2>4, <3>1
  <2> QED BY <2>3, <2>4
<1> QED BY <1>2, <1>3, <1>4 DEF Located
(* ... and the walk of sample.                                             *)
Neighboured(found, target, S) ==
  /\ IsTop(found.lower, {f \in S : f.sequence < target})
  /\ IsBottom(found.upper, {f \in S : f.sequence > target})

LEMMA NeighboursLocate ==
  ASSUME NEW S, NEW found, NEW target \in Nat, Neighboured(found, target, S),
         NEW e, e \notin S, Numbered(S \cup {e})
  PROVE  Neighboured(Neighbours(target, found, e), target, S \cup {e})
<1> PICK now : now = Neighbours(target, found, e)
  OBVIOUS
<1>1. /\ now.lower = IF e.sequence < target /\ After(e, found.lower) THEN {e} ELSE found.lower
      /\ now.upper = IF e.sequence > target /\ Before(e, found.upper) THEN {e} ELSE found.upper
  BY DEF Neighbours
<1>3. IsTop(now.lower, {f \in S \cup {e} : f.sequence < target})
  <2>1. PICK T : T = {f \in S : f.sequence < target}
    OBVIOUS
  <2>2. IsTop(found.lower, T)
    BY <2>1 DEF Neighboured
  <2>3. CASE e.sequence < target
    <3>1. {f \in S \cup {e} : f.sequence < target} = T \cup {e}
      BY <2>1, <2>3
    <3>2. Numbered(T \cup {e})
      BY <2>1 DEF Numbered
    <3>3. /\ After(e, found.lower) => IsTop({e}, T \cup {e})
          /\ ~After(e, found.lower) => IsTop(found.lower, T \cup {e})
      BY <2>2, <3>2, TopGrows
    <3> QED BY <1>1, <2>3, <3>1, <3>3
  <2>4. CASE ~(e.sequence < target)
    <3>1. {f \in S \cup {e} : f.sequence < target} = T
      BY <2>1, <2>4
    <3> QED BY <1>1, <2>2, <2>4, <3>1
  <2> QED BY <2>3, <2>4
<1>4. IsBottom(now.upper, {f \in S \cup {e} : f.sequence > target})
  <2>1. PICK T : T = {f \in S : f.sequence > target}
    OBVIOUS
  <2>2. IsBottom(found.upper, T)
    BY <2>1 DEF Neighboured
  <2>3. CASE e.sequence > target
    <3>1. {f \in S \cup {e} : f.sequence > target} = T \cup {e}
      BY <2>1, <2>3
    <3>2. Numbered(T \cup {e})
      BY <2>1 DEF Numbered
    <3>3. /\ Before(e, found.upper) => IsBottom({e}, T \cup {e})
          /\ ~Before(e, found.upper) => IsBottom(found.upper, T \cup {e})
      BY <2>2, <3>2, BottomGrows
    <3> QED BY <1>1, <2>3, <3>1, <3>3
  <2>4. CASE ~(e.sequence > target)
    <3>1. {f \in S \cup {e} : f.sequence > target} = T
      BY <2>1, <2>4
    <3> QED BY <1>1, <2>2, <2>4, <3>1
  <2> QED BY <2>3, <2>4
<1> QED BY <1>3, <1>4 DEF Neighboured

-----------------------------------------------------------------------------
(* A nonempty set of naturals has a smallest element.                      *)
LEMMA SmallestExists ==
  ASSUME NEW T, T \subseteq Nat, T # {}
  PROVE  \E x \in T : \A y \in T : x <= y
<1>1. PICK x \in T : \A y \in T : ~ (<<y, x>> \in OpToRel(<, Nat))
  BY WFMin, NatLessThanWellFounded
<1>2. \A y \in T : x <= y
  <2> TAKE y \in T
  <2>1. <<y, x>> \notin {ss \in Nat \X Nat : ss[1] < ss[2]}
    BY <1>1 DEF OpToRel
  <2> QED BY <2>1
<1> QED BY <1>2

LEMMA VisitedSlots ==
  ASSUME IInv
  PROVE  /\ Visited(0) = {} /\ Visited(Capacity) = Content /\ Numbered(Content)
         /\ \A n \in 1 .. Capacity :
              /\ entries[n - 1] = Vacant => Visited(n) = Visited(n - 1)
              /\ entries[n - 1] # Vacant =>
                   /\ Visited(n) = Visited(n - 1) \cup {entries[n - 1]}
                   /\ entries[n - 1] \notin Visited(n - 1)
                   /\ Numbered(Visited(n))
<1>1. Capacity \in Nat /\ Slots = 0 .. Capacity - 1 /\ Occupied \subseteq Slots
  BY CapacityAssumption DEF Slots, Occupied
<1>2. \A i \in Occupied : entries[i].sequence \in Nat /\ SlotFor(entries[i].sequence) = i
  <2>1. \A i \in Occupied : entries[i].sequence \in Nat
    BY LiveEntryType DEF IInv
  <2> QED BY <2>1 DEF IInv, LiveEntriesInWindow
<1>3. \A i, j \in Occupied : entries[i].sequence = entries[j].sequence => i = j
  <2> SUFFICES ASSUME NEW i \in Occupied, NEW j \in Occupied,
                      entries[i].sequence = entries[j].sequence
               PROVE  i = j
    OBVIOUS
  <2>1. SlotFor(entries[i].sequence) = SlotFor(entries[j].sequence)
    OBVIOUS
  <2> QED BY <1>2, <2>1
<1>4. Numbered(Content)
  BY <1>2, <1>3 DEF Numbered, Content
<1>5. Visited(0) = {} /\ Visited(Capacity) = Content
  <2>1. \A j \in Occupied : ~(j < 0) /\ j < Capacity
    BY <1>1
  <2> QED BY <2>1 DEF Visited, Content
<1>6. ASSUME NEW n \in 1 .. Capacity, entries[n - 1] = Vacant
      PROVE  Visited(n) = Visited(n - 1)
  <2>1. \A j \in Occupied : j < n <=> j < n - 1
    <3> TAKE j \in Occupied
    <3>1. j # n - 1 /\ j \in Nat /\ n \in Nat
      BY <1>1, <1>6 DEF Occupied
    <3> QED BY <3>1
  <2> QED BY <2>1 DEF Visited
<1>7. ASSUME NEW n \in 1 .. Capacity, entries[n - 1] # Vacant
      PROVE  /\ Visited(n) = Visited(n - 1) \cup {entries[n - 1]}
             /\ entries[n - 1] \notin Visited(n - 1)
             /\ Numbered(Visited(n))
  <2>1. n - 1 \in Occupied
    BY <1>1, <1>7 DEF Occupied
  <2>2. \A j \in Occupied : j < n <=> j < n - 1 \/ j = n - 1
    BY <1>1
  <2>3. Visited(n) = Visited(n - 1) \cup {entries[n - 1]}
    <3>1. {j \in Occupied : j < n} = {j \in Occupied : j < n - 1} \cup {n - 1}
      BY <2>1, <2>2
    <3> QED BY <3>1 DEF Visited
  <2>4. entries[n - 1] \notin Visited(n - 1)
    <3> SUFFICES ASSUME NEW j \in Occupied, j < n - 1, entries[j] = entries[n - 1] PROVE FALSE
      BY DEF Visited
    <3>1. j = n - 1
      BY <1>3, <2>1
    <3> QED BY <1>1, <2>1, <3>1
  <2>5. Visited(n) \subseteq Content
    BY DEF Visited, Content
  <2> QED BY <2>3, <2>4, <2>5, <1>4 DEF Numbered
<1> QED BY <1>4, <1>5, <1>6, <1>7

-----------------------------------------------------------------------------
(* The two walks over the slots, unfolded one slot at a time.              *)
AroundOf(f, position, k) ==
  f = [n \in 0 .. k |-> IF n = 0 THEN Nothing
                        ELSE IF entries[n - 1] = Vacant THEN f[n - 1]
                        ELSE Visit(position, f[n - 1], entries[n - 1])]

LEMMA AroundAt ==
  ASSUME NEW f, NEW position, NEW k \in Nat, AroundOf(f, position, k)
  PROVE  /\ f[0] = Nothing
         /\ \A n \in 1 .. k :
              f[n] = IF entries[n - 1] = Vacant THEN f[n - 1]
                     ELSE Visit(position, f[n - 1], entries[n - 1])
<1>1. f = [n \in 0 .. k |-> IF n = 0 THEN Nothing
                            ELSE IF entries[n - 1] = Vacant THEN f[n - 1]
                            ELSE Visit(position, f[n - 1], entries[n - 1])]
  BY DEF AroundOf
<1> QED BY <1>1

LEMMA AroundExists ==
  ASSUME NEW position, NEW k \in Nat
  PROVE  \E f : AroundOf(f, position, k)
<1> DEFINE T == {n \in Nat : ~\E f : AroundOf(f, position, n)}
<1> SUFFICES ASSUME k \in T PROVE FALSE
  OBVIOUS
<1>1. PICK n \in T : \A m \in T : n <= m
  <2>1. T \subseteq Nat /\ T # {}
    OBVIOUS
  <2> HIDE DEF T
  <2> QED BY <2>1, SmallestExists
<1>2. CASE n = 0
  <2>1. PICK f : f = [m \in 0 .. 0 |-> Nothing]
    OBVIOUS
  <2>2. f = [m \in 0 .. 0 |-> IF m = 0 THEN Nothing
                              ELSE IF entries[m - 1] = Vacant THEN f[m - 1]
                              ELSE Visit(position, f[m - 1], entries[m - 1])]
    BY <2>1
  <2>3. AroundOf(f, position, 0)
    BY <2>2 DEF AroundOf
  <2> QED BY <1>1, <1>2, <2>3
<1>3. CASE n # 0
  <2>1. n - 1 \in Nat /\ n - 1 \notin T
    BY <1>1, <1>3
  <2>2. PICK f : AroundOf(f, position, n - 1)
    BY <2>1
  <2>3. /\ f[0] = Nothing
        /\ \A m \in 1 .. n - 1 :
             f[m] = IF entries[m - 1] = Vacant THEN f[m - 1]
                    ELSE Visit(position, f[m - 1], entries[m - 1])
    BY <2>1, <2>2, AroundAt
  <2>4. PICK g : g = [m \in 0 .. n |->
                       IF m = n THEN IF entries[n - 1] = Vacant THEN f[n - 1]
                                     ELSE Visit(position, f[n - 1], entries[n - 1])
                       ELSE f[m]]
    OBVIOUS
  <2>5. ASSUME NEW m \in 0 .. n
        PROVE  g[m] = IF m = 0 THEN Nothing
                      ELSE IF entries[m - 1] = Vacant THEN g[m - 1]
                      ELSE Visit(position, g[m - 1], entries[m - 1])
    BY <1>3, <2>1, <2>3, <2>4
  <2>6. g = [m \in 0 .. n |-> IF m = 0 THEN Nothing
                              ELSE IF entries[m - 1] = Vacant THEN g[m - 1]
                              ELSE Visit(position, g[m - 1], entries[m - 1])]
    BY <2>4, <2>5
  <2>7. AroundOf(g, position, n)
    BY <2>6 DEF AroundOf
  <2> QED BY <1>1, <2>7
<1> QED BY <1>2, <1>3

LEMMA FoundAroundLocates ==
  ASSUME IInv, NEW position \in Int
  PROVE  Located(FoundAround(position), position, Content)
<1>1. Capacity \in Nat
  BY CapacityAssumption
<1>2. PICK f : AroundOf(f, position, Capacity) /\ FoundAround(position) = f[Capacity]
  <2>1. \E f : AroundOf(f, position, Capacity)
    BY <1>1, AroundExists
  <2> DEFINE h == CHOOSE f : f = [n \in 0 .. Capacity |-> IF n = 0 THEN Nothing
                        ELSE IF entries[n - 1] = Vacant THEN f[n - 1]
                        ELSE Visit(position, f[n - 1], entries[n - 1])]
  <2>2. AroundOf(h, position, Capacity)
    BY <2>1 DEF AroundOf
  <2>3. FoundAround(position) = h[Capacity]
    BY DEF FoundAround
  <2> QED BY <2>2, <2>3
<1>3. /\ f[0] = Nothing
      /\ \A n \in 1 .. Capacity :
           f[n] = IF entries[n - 1] = Vacant THEN f[n - 1]
                  ELSE Visit(position, f[n - 1], entries[n - 1])
  BY <1>1, <1>2, AroundAt
<1>4. /\ Visited(0) = {} /\ Visited(Capacity) = Content
      /\ \A n \in 1 .. Capacity :
           /\ entries[n - 1] = Vacant => Visited(n) = Visited(n - 1)
           /\ entries[n - 1] # Vacant =>
                /\ Visited(n) = Visited(n - 1) \cup {entries[n - 1]}
                /\ entries[n - 1] \notin Visited(n - 1)
                /\ Numbered(Visited(n))
  BY VisitedSlots
<1> DEFINE T == {n \in 0 .. Capacity : ~Located(f[n], position, Visited(n))}
<1>5. T = {}
  <2> SUFFICES ASSUME T # {} PROVE FALSE
    OBVIOUS
  <2>1. PICK n \in T : \A m \in T : n <= m
    <3>1. T \subseteq Nat
      OBVIOUS
    <3> HIDE DEF T
    <3> QED BY <3>1, SmallestExists
  <2>2. n # 0
    <3>1. Nothing.lower = {} /\ Nothing.upper = {} /\ Nothing.newest = {} /\ Nothing.second = {}
      BY DEF Nothing
    <3>2. Located(Nothing, position, {})
      BY <3>1 DEF Located, IsTop, IsBottom
    <3> QED BY <1>3, <1>4, <2>1, <3>2
  <2>3. n \in 1 .. Capacity /\ n - 1 \in 0 .. Capacity /\ n - 1 \notin T
    BY <1>1, <2>1, <2>2
  <2>4. Located(f[n - 1], position, Visited(n - 1))
    BY <2>3
  <2>5. CASE entries[n - 1] = Vacant
    BY <1>3, <1>4, <2>1, <2>3, <2>4, <2>5
  <2>6. CASE entries[n - 1] # Vacant
    <3>1. f[n] = Visit(position, f[n - 1], entries[n - 1])
          /\ Visited(n) = Visited(n - 1) \cup {entries[n - 1]}
          /\ entries[n - 1] \notin Visited(n - 1) /\ Numbered(Visited(n))
      BY <1>3, <1>4, <2>3, <2>6
    <3>2. PICK S : S = Visited(n - 1)
      OBVIOUS
    <3>3. PICK e : e = entries[n - 1]
      OBVIOUS
    <3>4. PICK found : found = f[n - 1]
      OBVIOUS
    <3>5. Located(Visit(position, found, e), position, S \cup {e})
      BY <2>4, <3>1, <3>2, <3>3, <3>4, VisitLocates
    <3> QED BY <2>1, <3>1, <3>2, <3>3, <3>4, <3>5
  <2> QED BY <2>5, <2>6
<1>6. Capacity \in 0 .. Capacity
  BY <1>1
<1> QED BY <1>2, <1>4, <1>5, <1>6

NearOf(f, target, start, k) ==
  f = [n \in 0 .. k |-> IF n = 0 THEN start
                        ELSE IF entries[n - 1] = Vacant THEN f[n - 1]
                        ELSE Neighbours(target, f[n - 1], entries[n - 1])]

LEMMA NearAt ==
  ASSUME NEW f, NEW target, NEW start, NEW k \in Nat, NearOf(f, target, start, k)
  PROVE  /\ f[0] = start
         /\ \A n \in 1 .. k :
              f[n] = IF entries[n - 1] = Vacant THEN f[n - 1]
                     ELSE Neighbours(target, f[n - 1], entries[n - 1])
<1>1. f = [n \in 0 .. k |-> IF n = 0 THEN start
                            ELSE IF entries[n - 1] = Vacant THEN f[n - 1]
                            ELSE Neighbours(target, f[n - 1], entries[n - 1])]
  BY DEF NearOf
<1> QED BY <1>1

LEMMA NearExists ==
  ASSUME NEW target, NEW start, NEW k \in Nat
  PROVE  \E f : NearOf(f, target, start, k)
<1> DEFINE T == {n \in Nat : ~\E f : NearOf(f, target, start, n)}
<1> SUFFICES ASSUME k \in T PROVE FALSE
  OBVIOUS
<1>1. PICK n \in T : \A m \in T : n <= m
  <2>1. T \subseteq Nat /\ T # {}
    OBVIOUS
  <2> HIDE DEF T
  <2> QED BY <2>1, SmallestExists
<1>2. CASE n = 0
  <2>1. PICK f : f = [m \in 0 .. 0 |-> start]
    OBVIOUS
  <2>2. f = [m \in 0 .. 0 |-> IF m = 0 THEN start
                              ELSE IF entries[m - 1] = Vacant THEN f[m - 1]
                              ELSE Neighbours(target, f[m - 1], entries[m - 1])]
    BY <2>1
  <2>3. NearOf(f, target, start, 0)
    BY <2>2 DEF NearOf
  <2> QED BY <1>1, <1>2, <2>3
<1>3. CASE n # 0
  <2>1. n - 1 \in Nat /\ n - 1 \notin T
    BY <1>1, <1>3
  <2>2. PICK f : NearOf(f, target, start, n - 1)
    BY <2>1
  <2>3. /\ f[0] = start
        /\ \A m \in 1 .. n - 1 :
             f[m] = IF entries[m - 1] = Vacant THEN f[m - 1]
                    ELSE Neighbours(target, f[m - 1], entries[m - 1])
    BY <2>1, <2>2, NearAt
  <2>4. PICK g : g = [m \in 0 .. n |->
                       IF m = n THEN IF entries[n - 1] = Vacant THEN f[n - 1]
                                     ELSE Neighbours(target, f[n - 1], entries[n - 1])
                       ELSE f[m]]
    OBVIOUS
  <2>5. ASSUME NEW m \in 0 .. n
        PROVE  g[m] = IF m = 0 THEN start
                      ELSE IF entries[m - 1] = Vacant THEN g[m - 1]
                      ELSE Neighbours(target, g[m - 1], entries[m - 1])
    BY <1>3, <2>1, <2>3, <2>4
  <2>6. g = [m \in 0 .. n |-> IF m = 0 THEN start
                              ELSE IF entries[m - 1] = Vacant THEN g[m - 1]
                              ELSE Neighbours(target, g[m - 1], entries[m - 1])]
    BY <2>4, <2>5
  <2>7. NearOf(g, target, start, n)
    BY <2>6 DEF NearOf
  <2> QED BY <1>1, <2>7
<1> QED BY <1>2, <1>3

LEMMA FoundLocates ==
  ASSUME IInv, NEW target \in Nat
  PROVE  Neighboured(Found(target), target, Content)
<1>1. Capacity \in Nat
  BY CapacityAssumption
<1>0. PICK start : start = [lower |-> {}, upper |-> {}]
  OBVIOUS
<1>2. PICK f : NearOf(f, target, start, Capacity) /\ Found(target) = f[Capacity]
  <2>1. \E f : NearOf(f, target, start, Capacity)
    BY <1>1, NearExists
  <2> DEFINE h == CHOOSE f : f = [n \in 0 .. Capacity |-> IF n = 0 THEN start
                        ELSE IF entries[n - 1] = Vacant THEN f[n - 1]
                        ELSE Neighbours(target, f[n - 1], entries[n - 1])]
  <2>2. NearOf(h, target, start, Capacity)
    BY <2>1 DEF NearOf
  <2>3. Found(target) = h[Capacity]
    BY <1>0 DEF Found
  <2> QED BY <2>2, <2>3
<1>3. /\ f[0] = start
      /\ \A n \in 1 .. Capacity :
           f[n] = IF entries[n - 1] = Vacant THEN f[n - 1]
                  ELSE Neighbours(target, f[n - 1], entries[n - 1])
  BY <1>1, <1>2, NearAt
<1>4. /\ Visited(0) = {} /\ Visited(Capacity) = Content
      /\ \A n \in 1 .. Capacity :
           /\ entries[n - 1] = Vacant => Visited(n) = Visited(n - 1)
           /\ entries[n - 1] # Vacant =>
                /\ Visited(n) = Visited(n - 1) \cup {entries[n - 1]}
                /\ entries[n - 1] \notin Visited(n - 1)
                /\ Numbered(Visited(n))
  BY VisitedSlots
<1> DEFINE T == {n \in 0 .. Capacity : ~Neighboured(f[n], target, Visited(n))}
<1>5. T = {}
  <2> SUFFICES ASSUME T # {} PROVE FALSE
    OBVIOUS
  <2>1. PICK n \in T : \A m \in T : n <= m
    <3>1. T \subseteq Nat
      OBVIOUS
    <3> HIDE DEF T
    <3> QED BY <3>1, SmallestExists
  <2>2. n # 0
    <3>1. start.lower = {} /\ start.upper = {}
      BY <1>0
    <3>2. Neighboured(start, target, {})
      BY <3>1 DEF Neighboured, IsTop, IsBottom
    <3> QED BY <1>3, <1>4, <2>1, <3>2
  <2>3. n \in 1 .. Capacity /\ n - 1 \in 0 .. Capacity /\ n - 1 \notin T
    BY <1>1, <2>1, <2>2
  <2>4. Neighboured(f[n - 1], target, Visited(n - 1))
    BY <2>3
  <2>5. CASE entries[n - 1] = Vacant
    BY <1>3, <1>4, <2>1, <2>3, <2>4, <2>5
  <2>6. CASE entries[n - 1] # Vacant
    <3>1. f[n] = Neighbours(target, f[n - 1], entries[n - 1])
          /\ Visited(n) = Visited(n - 1) \cup {entries[n - 1]}
          /\ entries[n - 1] \notin Visited(n - 1) /\ Numbered(Visited(n))
      BY <1>3, <1>4, <2>3, <2>6
    <3>2. PICK S : S = Visited(n - 1)
      OBVIOUS
    <3>3. PICK e : e = entries[n - 1]
      OBVIOUS
    <3>4. PICK found : found = f[n - 1]
      OBVIOUS
    <3>5. Neighboured(Neighbours(target, found, e), target, S \cup {e})
      BY <2>4, <3>1, <3>2, <3>3, <3>4, NeighboursLocate
    <3> QED BY <2>1, <3>1, <3>2, <3>3, <3>4, <3>5
  <2> QED BY <2>5, <2>6
<1>6. Capacity \in 0 .. Capacity
  BY <1>1
<1> QED BY <1>2, <1>4, <1>5, <1>6
-----------------------------------------------------------------------------
(* What a sample is made of.                                               *)
LEMMA OnlyParts ==
  \A L, flag : Only(L, flag).from = L /\ Only(L, flag).to = L /\ Only(L, flag).over = 0
BY DEF Only, NoSample

Ahead(position, A) == position - 2 * (CHOOSE e \in A : TRUE).sequence

LEMMA BetweenParts ==
  \A A, B, position, flags :
    /\ Between(A, B, position, flags).from = A /\ Between(A, B, position, flags).to = B
    /\ Between(A, B, position, flags).over = Ahead(position, A)
BY DEF Between, Ahead

LEMMA TopIsOne ==
  ASSUME NEW S, Numbered(S), NEW A, NEW B
  PROVE  /\ IsTop(A, S) /\ IsTop(B, S) => A = B
         /\ IsBottom(A, S) /\ IsBottom(B, S) => A = B
<1>1. ASSUME NEW e \in S, NEW f \in S, e.sequence <= f.sequence, f.sequence <= e.sequence
      PROVE  e = f
  <2>1. e.sequence \in Nat /\ f.sequence \in Nat
    BY DEF Numbered
  <2>2. e.sequence = f.sequence
    BY <1>1, <2>1
  <2> QED BY <2>2 DEF Numbered
<1>2. ASSUME IsTop(A, S), IsTop(B, S) PROVE A = B
  <2>1. CASE S = {}
    BY <1>2, <2>1 DEF IsTop
  <2>2. CASE S # {}
    <3>1. PICK a \in S : A = {a} /\ \A f \in S : f.sequence <= a.sequence
      BY <1>2, <2>2 DEF IsTop
    <3>2. PICK b \in S : B = {b} /\ \A f \in S : f.sequence <= b.sequence
      BY <1>2, <2>2 DEF IsTop
    <3>3. a = b
      BY <1>1, <3>1, <3>2
    <3> QED BY <3>1, <3>2, <3>3
  <2> QED BY <2>1, <2>2
<1>3. ASSUME IsBottom(A, S), IsBottom(B, S) PROVE A = B
  <2>1. CASE S = {}
    BY <1>3, <2>1 DEF IsBottom
  <2>2. CASE S # {}
    <3>1. PICK a \in S : A = {a} /\ \A f \in S : f.sequence >= a.sequence
      BY <1>3, <2>2 DEF IsBottom
    <3>2. PICK b \in S : B = {b} /\ \A f \in S : f.sequence >= b.sequence
      BY <1>3, <2>2 DEF IsBottom
    <3>3. a.sequence \in Nat /\ b.sequence \in Nat
      BY DEF Numbered
    <3>4. a = b
      BY <1>1, <3>1, <3>2, <3>3
    <3> QED BY <3>1, <3>2, <3>4
  <2> QED BY <2>1, <2>2
<1> QED BY <1>2, <1>3

Known == {2 * e.sequence : e \in Content}

LEMMA KnownCount ==
  ASSUME IInv, NEW l \in Content
  PROVE  Cardinality(Known) > 1 <=> Content \ {l} # {}
<1>1. Numbered(Content)
  BY VisitedSlots
<1>2. IsFiniteSet(Known)
  <2>1. IsFiniteSet(Occupied)
    BY SlotsFinite, FS_Subset DEF Occupied
  <2> DEFINE f == [i \in Occupied |-> 2 * entries[i].sequence]
  <2>2. f \in Surjection(Occupied, Known)
    BY DEF Surjection, Known, Content
  <2> QED BY <2>1, <2>2, FS_Surjection
<1>3. ASSUME Content \ {l} = {} PROVE ~(Cardinality(Known) > 1)
  <2>1. Known = {2 * l.sequence}
    BY <1>3 DEF Known
  <2>2. Cardinality(Known) = 1
    BY <2>1, FS_Singleton
  <2> QED BY <2>2
<1>4. ASSUME NEW e \in Content \ {l} PROVE Cardinality(Known) > 1
  <2>1. e.sequence \in Nat /\ l.sequence \in Nat /\ e.sequence # l.sequence
    BY <1>1 DEF Numbered
  <2>2. PICK a : a = 2 * l.sequence
    OBVIOUS
  <2>3. PICK b : b = 2 * e.sequence
    OBVIOUS
  <2>4. a # b /\ {a} \cup {b} \subseteq Known
    BY <2>1, <2>2, <2>3 DEF Known
  <2>5. IsFiniteSet({a}) /\ Cardinality({a}) = 1
    BY FS_Singleton
  <2>6. Cardinality({a} \cup {b}) = 2
    BY <2>4, <2>5, FS_AddElement
  <2>7. Cardinality({a} \cup {b}) <= Cardinality(Known)
    BY <1>2, <2>4, FS_Subset
  <2>8. Cardinality(Known) \in Nat
    BY <1>2, FS_CardinalityType
  <2> QED BY <2>6, <2>7, <2>8
<1> QED BY <1>3, <1>4

(* Expected, by the first and the last number known.                       *)
LEMMA ExpectedIs ==
  ASSUME NEW position \in Int, NEW limit \in Nat, Numbered(Content),
         NEW a \in Content, \A e \in Content : a.sequence <= e.sequence,
         NEW z \in Content, \A e \in Content : e.sequence <= z.sequence
  PROVE  /\ position < 2 * a.sequence => Expected(position, limit) = {2 * a.sequence}
         /\ position > 2 * z.sequence =>
              Expected(position, limit) =
                {IF Cardinality(Known) > 1 /\ position - 2 * z.sequence <= limit
                 THEN position ELSE 2 * z.sequence}
         /\ position \in 2 * a.sequence .. 2 * z.sequence => Expected(position, limit) = {position}
<1>0. a.sequence \in Nat /\ z.sequence \in Nat /\ a.sequence <= z.sequence
      /\ \A e \in Content : e.sequence \in Nat
  BY DEF Numbered
<1>1. PICK first : first = 2 * a.sequence
  OBVIOUS
<1>2. PICK last : last = 2 * z.sequence
  OBVIOUS
<1>3. /\ Known # {} /\ first \in Known /\ last \in Known
      /\ \A k \in Known : k \in Nat /\ first <= k /\ k <= last
  BY <1>0, <1>1, <1>2 DEF Known
<1>4. (CHOOSE k \in Known : \A l \in Known : k <= l) = first
  <2>1. \A k \in Known : (\A l \in Known : k <= l) => k = first
    BY <1>3
  <2> QED BY <1>3, <2>1
<1>5. (CHOOSE k \in Known : \A l \in Known : k >= l) = last
  <2>1. \A k \in Known : (\A l \in Known : k >= l) => k = last
    BY <1>3
  <2>2. \A l \in Known : last >= l
    BY <1>3
  <2> QED BY <1>3, <2>1, <2>2
<1>6. Expected(position, limit) =
        CASE Known = {} -> {}
          [] Known # {} /\ position < first -> {first}
          [] Known # {} /\ position > last ->
               {IF Cardinality(Known) > 1 /\ position - last <= limit THEN position ELSE last}
          [] OTHER -> {position}
  BY <1>4, <1>5, Zenon DEF Expected, Known
<1>7. first \in Nat /\ last \in Nat /\ first <= last
  BY <1>0, <1>1, <1>2
<1>8. ASSUME position < first PROVE Expected(position, limit) = {first}
  BY <1>3, <1>6, <1>7, <1>8
<1>9. ASSUME position > last
      PROVE  Expected(position, limit) =
               {IF Cardinality(Known) > 1 /\ position - last <= limit THEN position ELSE last}
  BY <1>3, <1>6, <1>7, <1>9
<1>10. ASSUME position \in first .. last PROVE Expected(position, limit) = {position}
  BY <1>3, <1>6, <1>7, <1>10
<1> QED BY <1>1, <1>2, <1>8, <1>9, <1>10
LEMMA FractionalFollows ==
  ASSUME IInv, NEW position \in Int, NEW limit \in Nat
  PROVE  LET sample == SampleFractional(position, limit) IN
         /\ Shown(sample) = Expected(position, limit)
         /\ ~\E e \in Content, f \in sample.from, t \in sample.to :
              f.sequence < e.sequence /\ e.sequence < t.sequence
<1> PICK found : found = FoundAround(position)
  OBVIOUS
<1> PICK sample : sample = SampleFractional(position, limit)
  OBVIOUS
<1> DEFINE L == {e \in Content : 2 * e.sequence <= position}
           U == {e \in Content : 2 * e.sequence >= position}
           Apart(s) == ~\E e \in Content, f \in s.from, t \in s.to :
                          f.sequence < e.sequence /\ e.sequence < t.sequence
<1>1. /\ IsTop(found.lower, L) /\ IsBottom(found.upper, U)
      /\ IsTop(found.newest, Content) /\ IsTop(found.second, Content \ found.newest)
  BY FoundAroundLocates DEF Located
<1>2. Numbered(Content) /\ \A e \in Content : e.sequence \in Nat
  BY VisitedSlots DEF Numbered
<1>3. \A e \in Content : e \in L \/ e \in U
  BY <1>2
<1>4. sample =
        CASE found.lower # {} /\ found.upper # {} ->
               IF found.lower = found.upper THEN Only(found.lower, "exact")
               ELSE Between(found.lower, found.upper, position, {})
          [] found.lower # {} /\ found.upper = {} ->
               IF Extrapolates(found, position, limit)
               THEN Between(found.second, found.lower, position, {"extrapolating"})
               ELSE Only(found.lower, "newest")
          [] found.lower = {} /\ found.upper # {} -> Only(found.upper, "oldest")
          [] OTHER -> NoSample
  BY DEF SampleFractional
<1>5. ASSUME NEW e \in Content, NEW flag PROVE Apart(Only({e}, flag)) /\ Shown(Only({e}, flag)) = {2 * e.sequence}
  <2>1. Only({e}, flag).from = {e} /\ Only({e}, flag).to = {e} /\ Only({e}, flag).over = 0
    BY OnlyParts
  <2>2. Apart(Only({e}, flag))
    BY <1>2, <2>1
  <2>3. Shown(Only({e}, flag)) = {2 * e.sequence + 0}
    BY <2>1 DEF Shown
  <2>4. 2 * e.sequence + 0 = 2 * e.sequence
    BY <1>2
  <2>5. Shown(Only({e}, flag)) = {2 * e.sequence}
    BY <2>3, <2>4
  <2> QED BY <2>2, <2>5
<1>6. ASSUME NEW l \in Content, NEW u \in Content, NEW A, NEW B, NEW flags, NEW b,
             A = {l}, B = {u}, b = Between(A, B, position, flags)
      PROVE  Shown(b) = {position} /\ b.from = {l} /\ b.to = {u}
  <2>0. b = Between(A, B, position, flags)
    BY <1>6
  <2>1. b.from = A /\ b.to = B /\ b.over = Ahead(position, A)
    BY <2>0, BetweenParts
  <2>2. b.from = {l} /\ b.to = {u} /\ b.over = position - 2 * l.sequence
    <3>1. (CHOOSE e \in A : TRUE) = l
      BY <1>6
    <3> QED BY <1>6, <2>1, <3>1 DEF Ahead
  <2>3. Shown(b) = {2 * l.sequence + (position - 2 * l.sequence)}
    BY <2>2 DEF Shown
  <2>4. 2 * l.sequence + (position - 2 * l.sequence) = position
    BY <1>2
  <2> QED BY <2>2, <2>3, <2>4
<1>7. CASE Content = {}
  <2>1. found.lower = {} /\ found.upper = {}
    BY <1>1, <1>7 DEF IsTop, IsBottom
  <2>2. sample = NoSample
    BY <1>4, <2>1
  <2>3. Shown(sample) = {} /\ Apart(sample)
    BY <2>2 DEF Shown, NoSample
  <2>4. Expected(position, limit) = {}
    BY <1>7 DEF Expected
  <2> QED BY <2>3, <2>4
<1>8. CASE Content # {}
  <2>1. PICK a \in Content : \A e \in Content : a.sequence <= e.sequence
    <3> DEFINE T == {e.sequence : e \in Content}
    <3>1. T \subseteq Nat /\ T # {}
      BY <1>2, <1>8
    <3>2. PICK n \in T : \A m \in T : n <= m
      <4> HIDE DEF T
      <4> QED BY <3>1, SmallestExists
    <3> QED BY <3>2
  <2>2. PICK z \in Content : found.newest = {z} /\ \A e \in Content : e.sequence <= z.sequence
    BY <1>1, <1>8 DEF IsTop
  <2>3. a.sequence \in Nat /\ z.sequence \in Nat
    BY <1>2
  <2>4. /\ position < 2 * a.sequence => Expected(position, limit) = {2 * a.sequence}
        /\ position > 2 * z.sequence =>
             Expected(position, limit) =
               {IF Cardinality(Known) > 1 /\ position - 2 * z.sequence <= limit
                THEN position ELSE 2 * z.sequence}
        /\ position \in 2 * a.sequence .. 2 * z.sequence => Expected(position, limit) = {position}
    BY <1>2, <2>1, <2>2, ExpectedIs
  <2>5. CASE L # {} /\ U # {}
    <3>1. PICK l \in L : found.lower = {l} /\ \A e \in L : e.sequence <= l.sequence
      BY <1>1, <2>5 DEF IsTop
    <3>2. PICK u \in U : found.upper = {u} /\ \A e \in U : e.sequence >= u.sequence
      BY <1>1, <2>5 DEF IsBottom
    <3>3. l \in Content /\ u \in Content /\ 2 * l.sequence <= position /\ position <= 2 * u.sequence
      BY <3>1, <3>2
    <3>4. position \in 2 * a.sequence .. 2 * z.sequence
      BY <1>2, <2>1, <2>2, <2>3, <3>3
    <3>5. Expected(position, limit) = {position}
      BY <2>4, <3>4
    <3>6. CASE l = u
      <4>1. sample = Only({l}, "exact")
        BY <1>4, <3>1, <3>2, <3>6
      <4>2. 2 * l.sequence = position
        BY <1>2, <3>3, <3>6
      <4> QED BY <1>5, <3>3, <3>5, <4>1, <4>2
    <3>7. CASE l # u
      <4>1. sample = Between(found.lower, found.upper, position, {})
        <5>1. found.lower # {} /\ found.upper # {} /\ found.lower # found.upper
          BY <3>1, <3>2, <3>7
        <5> QED BY <1>4, <5>1
      <4>2. Shown(sample) = {position} /\ sample.from = {l} /\ sample.to = {u}
        BY <1>6, <3>1, <3>2, <3>3, <4>1
      <4>3. \A e \in Content : ~(l.sequence < e.sequence /\ e.sequence < u.sequence)
        BY <1>2, <1>3, <3>1, <3>2, <3>3
      <4> QED BY <3>5, <4>2, <4>3
    <3> QED BY <3>6, <3>7
  <2>6. CASE L # {} /\ U = {}
    <3>1. L = Content
      BY <1>3, <2>6
    <3>2. found.lower = {z} /\ found.upper = {}
      <4>1. found.lower = found.newest
        BY <1>1, <1>2, <3>1, TopIsOne
      <4>2. found.upper = {}
        BY <1>1, <2>6 DEF IsBottom
      <4> QED BY <2>2, <4>1, <4>2
    <3>3. position > 2 * z.sequence
      <4>1. z \notin U
        BY <2>6
      <4> QED BY <2>3, <4>1
    <3>4. Cardinality(Known) > 1 <=> Content \ {z} # {}
      BY KnownCount
    <3>5. Expected(position, limit) =
            {IF Content \ {z} # {} /\ position - 2 * z.sequence <= limit
             THEN position ELSE 2 * z.sequence}
      BY <2>4, <3>3, <3>4
    <3>6. Extrapolates(found, position, limit)
            <=> Content \ {z} # {} /\ position - 2 * z.sequence <= limit
      <4>1. position - 2 * z.sequence \in 1 .. limit <=> position - 2 * z.sequence <= limit
        BY <2>3, <3>3
      <4>2. (\E e \in found.second : e.sequence < z.sequence) <=> Content \ {z} # {}
        <5>1. CASE Content \ {z} = {}
          <6>1. found.second = {}
            BY <1>1, <2>2, <5>1 DEF IsTop
          <6> QED BY <5>1, <6>1
        <5>2. CASE Content \ {z} # {}
          <6>1. PICK e \in Content \ {z} : found.second = {e}
            BY <1>1, <2>2, <5>2 DEF IsTop
          <6>2. e.sequence # z.sequence /\ e.sequence <= z.sequence /\ e.sequence \in Nat
            BY <1>2, <2>2 DEF Numbered
          <6> QED BY <2>3, <5>2, <6>1, <6>2
        <5> QED BY <5>1, <5>2
      <4> QED BY <3>2, <4>1, <4>2 DEF Extrapolates
    <3>7. CASE Content \ {z} # {} /\ position - 2 * z.sequence <= limit
      <4>1. PICK e \in Content \ {z} : found.second = {e}
                                       /\ \A f \in Content \ {z} : f.sequence <= e.sequence
        BY <1>1, <2>2, <3>7 DEF IsTop
      <4>2. sample = Between(found.second, found.lower, position, {"extrapolating"})
        <5>1. found.lower # {} /\ found.upper = {} /\ Extrapolates(found, position, limit)
          BY <3>2, <3>6, <3>7
        <5> QED BY <1>4, <5>1
      <4>3. Shown(sample) = {position} /\ sample.from = {e} /\ sample.to = {z}
        BY <1>6, <3>2, <4>1, <4>2
      <4>4. \A f \in Content : ~(e.sequence < f.sequence /\ f.sequence < z.sequence)
        BY <1>2, <4>1
      <4> QED BY <3>5, <3>7, <4>3, <4>4
    <3>8. CASE ~(Content \ {z} # {} /\ position - 2 * z.sequence <= limit)
      <4>1. sample = Only({z}, "newest")
        <5>1. found.lower # {} /\ found.upper = {} /\ ~Extrapolates(found, position, limit)
          BY <3>2, <3>6, <3>8
        <5>2. sample = Only(found.lower, "newest")
          BY <1>4, <5>1
        <5> QED BY <3>2, <5>2
      <4> QED BY <1>5, <3>5, <3>8, <4>1
    <3> QED BY <3>7, <3>8
  <2>7. CASE L = {}
    <3>1. U = Content
      BY <1>3, <2>7
    <3>2. found.lower = {} /\ found.upper = {a}
      <4>1. IsBottom({a}, Content)
        BY <1>2, <1>8, <2>1 DEF IsBottom
      <4>2. found.upper = {a}
        BY <1>1, <1>2, <3>1, <4>1, TopIsOne
      <4> QED BY <1>1, <2>7, <4>2 DEF IsTop
    <3>3. position < 2 * a.sequence
      <4>1. a \notin L
        BY <2>7
      <4> QED BY <2>3, <4>1
    <3>4. sample = Only({a}, "oldest")
      BY <1>4, <3>2
    <3> QED BY <1>5, <2>4, <3>3, <3>4
  <2> QED BY <2>5, <2>6, <2>7
<1> QED BY <1>7, <1>8

LEMMA CallsAgree ==
  ASSUME IInv, NEW position \in Nat, position % 2 = 0
  PROVE  Sample(position \div 2) = SampleFractional(position, 0)
<1> PICK target : target = position \div 2
  OBVIOUS
<1>0. target \in Nat /\ position = 2 * target /\ position \in Int
  OBVIOUS
<1> PICK found : found = FoundAround(position)
  OBVIOUS
<1> PICK near : near = Found(target)
  OBVIOUS
<1> DEFINE L == {e \in Content : 2 * e.sequence <= position}
           U == {e \in Content : 2 * e.sequence >= position}
<1>1. IsTop(found.lower, L) /\ IsBottom(found.upper, U)
  BY <1>0, FoundAroundLocates DEF Located
<1>2. Numbered(Content) /\ \A e \in Content : e.sequence \in Nat
  BY VisitedSlots DEF Numbered
<1>3. /\ IsTop(near.lower, {f \in Content : f.sequence < target})
      /\ IsBottom(near.upper, {f \in Content : f.sequence > target})
  BY <1>0, FoundLocates DEF Neighboured
<1>4. Contains(target) => entries[SlotFor(target)] \in Content
                          /\ entries[SlotFor(target)].sequence = target
  BY <1>0, HomeSlot DEF Contains, Content, Occupied
<1>5. \A e \in Content : e.sequence = target => Contains(target)
  <2> SUFFICES ASSUME NEW i \in Occupied, entries[i].sequence = target PROVE Contains(target)
    BY DEF Content
  <2>1. SlotFor(target) = i
    BY DEF IInv, LiveEntriesInWindow
  <2> QED BY <2>1 DEF Contains, Occupied
<1>6. SampleFractional(position, 0) =
        CASE found.lower # {} /\ found.upper # {} ->
               IF found.lower = found.upper THEN Only(found.lower, "exact")
               ELSE Between(found.lower, found.upper, position, {})
          [] found.lower # {} /\ found.upper = {} ->
               IF Extrapolates(found, position, 0)
               THEN Between(found.second, found.lower, position, {"extrapolating"})
               ELSE Only(found.lower, "newest")
          [] found.lower = {} /\ found.upper # {} -> Only(found.upper, "oldest")
          [] OTHER -> NoSample
  BY DEF SampleFractional
<1>7. Sample(target) =
        CASE Contains(target) -> Only({entries[SlotFor(target)]}, "exact")
          [] ~Contains(target) /\ near.lower # {} /\ near.upper # {} ->
               Between(near.lower, near.upper, 2 * target, {})
          [] ~Contains(target) /\ near.lower # {} /\ near.upper = {} -> Only(near.lower, "newest")
          [] ~Contains(target) /\ near.lower = {} /\ near.upper # {} -> Only(near.upper, "oldest")
          [] OTHER -> NoSample
  BY DEF Sample
<1>8. CASE Contains(target)
  <2>1. PICK e \in Content : e = entries[SlotFor(target)] /\ e.sequence = target
    BY <1>4, <1>8
  <2>2. e \in L /\ e \in U
    BY <1>0, <2>1
  <2>3. IsTop({e}, L)
    <3>1. \A f \in L : f.sequence <= e.sequence
      BY <1>0, <1>2, <2>1
    <3> HIDE DEF L
    <3> QED BY <2>2, <3>1 DEF IsTop
  <2>4. IsBottom({e}, U)
    <3>1. \A f \in U : f.sequence >= e.sequence
      BY <1>0, <1>2, <2>1
    <3> HIDE DEF U
    <3> QED BY <2>2, <3>1 DEF IsBottom
  <2>5. Numbered(L) /\ Numbered(U)
    BY <1>2 DEF Numbered
  <2>6. found.lower = {e}
    <3> HIDE DEF L
    <3> QED BY <1>1, <2>3, <2>5, TopIsOne
  <2>7. found.upper = {e}
    <3> HIDE DEF U
    <3> QED BY <1>1, <2>4, <2>5, TopIsOne
  <2>8. SampleFractional(position, 0) = Only({e}, "exact")
    BY <1>6, <2>6, <2>7
  <2>9. Sample(target) = Only({e}, "exact")
    BY <1>7, <1>8, <2>1
  <2> QED BY <2>8, <2>9
<1>9. CASE ~Contains(target)
  <2>1. L = {f \in Content : f.sequence < target} /\ U = {f \in Content : f.sequence > target}
    BY <1>0, <1>2, <1>5, <1>9
  <2>2. Numbered(L) /\ Numbered(U)
    BY <1>2 DEF Numbered
  <2>3. found.lower = near.lower
    <3>1. IsTop(near.lower, L)
      BY <1>3, <2>1
    <3> HIDE DEF L
    <3> QED BY <1>1, <2>2, <3>1, TopIsOne
  <2>4. found.upper = near.upper
    <3>1. IsBottom(near.upper, U)
      BY <1>3, <2>1
    <3> HIDE DEF U
    <3> QED BY <1>1, <2>2, <3>1, TopIsOne
  <2>5. near.lower # {} /\ near.upper # {} => near.lower # near.upper
    <3>1. \A e \in near.lower : e.sequence < target
      BY <1>3 DEF IsTop
    <3>2. \A e \in near.upper : e.sequence > target /\ e.sequence \in Nat
      BY <1>2, <1>3 DEF IsBottom
    <3> QED BY <1>0, <3>1, <3>2
  <2>6. ~Extrapolates(found, position, 0)
    BY DEF Extrapolates
  <2>7. CASE near.lower # {} /\ near.upper # {}
    <3>1. SampleFractional(position, 0) = Between(found.lower, found.upper, position, {})
      BY <1>6, <2>3, <2>4, <2>5, <2>7
    <3>2. Sample(target) = Between(near.lower, near.upper, 2 * target, {})
      BY <1>7, <1>9, <2>7
    <3> QED BY <1>0, <2>3, <2>4, <3>1, <3>2
  <2>8. CASE near.lower # {} /\ near.upper = {}
    <3>1. SampleFractional(position, 0) = Only(found.lower, "newest")
      BY <1>6, <2>3, <2>4, <2>6, <2>8
    <3>2. Sample(target) = Only(near.lower, "newest")
      BY <1>7, <1>9, <2>8
    <3> QED BY <2>3, <3>1, <3>2
  <2>9. CASE near.lower = {} /\ near.upper # {}
    <3>1. SampleFractional(position, 0) = Only(found.upper, "oldest")
      BY <1>6, <2>3, <2>4, <2>9
    <3>2. Sample(target) = Only(near.upper, "oldest")
      BY <1>7, <1>9, <2>9
    <3> QED BY <2>4, <3>1, <3>2
  <2>10. CASE near.lower = {} /\ near.upper = {}
    <3>1. SampleFractional(position, 0) = NoSample
      BY <1>6, <2>3, <2>4, <2>10
    <3>2. Sample(target) = NoSample
      BY <1>7, <1>9, <2>10
    <3> QED BY <3>1, <3>2
  <2> QED BY <2>7, <2>8, <2>9, <2>10
<1> QED BY <1>8, <1>9

(* Whatever order stores, erasures and rollbacks left the entries in, what *)
(* both sample calls of InterpolationBuffer.hpp give lies on the motion    *)
(* the snapshots describe, between two neighbours, and the two agree.      *)
THEOREM SamplesLieOnTheMotion ==
  ASSUME MaxSequence \notin Sequences
  PROVE  RingSpec => []SamplesFollowTheMotion
<1>1. ASSUME IInv PROVE SamplesFollowTheMotion
  <2> SUFFICES ASSUME NEW position \in Positions
               PROVE  /\ \A limit \in Limits :
                           LET sample == SampleFractional(position, limit) IN
                           /\ Shown(sample) = Expected(position, limit)
                           /\ ~\E e \in Content, f \in sample.from, t \in sample.to :
                                f.sequence < e.sequence /\ e.sequence < t.sequence
                      /\ position >= 0 /\ position % 2 = 0 =>
                           Sample(position \div 2) = SampleFractional(position, 0)
    BY DEF SamplesFollowTheMotion
  <2>1. position \in Int /\ Limits \subseteq Nat
    BY PositionsAssumption
  <2>2. \A limit \in Limits :
          LET sample == SampleFractional(position, limit) IN
          /\ Shown(sample) = Expected(position, limit)
          /\ ~\E e \in Content, f \in sample.from, t \in sample.to :
               f.sequence < e.sequence /\ e.sequence < t.sequence
    BY <1>1, <2>1, FractionalFollows
  <2>3. position >= 0 /\ position % 2 = 0 => Sample(position \div 2) = SampleFractional(position, 0)
    BY <1>1, <2>1, CallsAgree
  <2> QED BY <2>2, <2>3
<1>2. IInv => SamplesFollowTheMotion
  BY <1>1
<1> QED BY <1>2, InvariantHolds, PTL
=============================================================================
