--------------------------- MODULE PacketChannel ---------------------------
(***************************************************************************)
(* Two SequenceChannel endpoints (net/Protocol.cpp) exchanging datagrams   *)
(* over UDP.  Each endpoint numbers its packets, remembers the last        *)
(* HistoryCapacity of them in a ledger, tracks which of the peer's         *)
(* sequences it received, and piggybacks that as latest + history bits.    *)
(*                                                                         *)
(* The network is outside the repository: a datagram once sent stays       *)
(* deliverable for ever, so that loss (never delivering it), duplication   *)
(* and reordering are all behaviours.  Corruption is a loss: decodePacket  *)
(* refuses a datagram whose checksum differs.                              *)
(***************************************************************************)
EXTENDS SequenceNumbers, FiniteSets

CONSTANTS
  Endpoints,        (* the two ends                                        *)
  AckHistory,       (* kAckHistoryBits                                     *)
  HistoryCapacity,  (* kSentHistoryCapacity                                *)
  FirstSequence,    (* the first sequence each end allocates               *)
  MaxSends,         (* bound on the headers each end makes per session     *)
  MaxResets,        (* bound on the calls of reset at each end             *)
  NoRecord          (* content of a free ledger slot                       *)

Record == [sequence : SequenceNumber, acknowledged : BOOLEAN]

ASSUME EndpointsAssumption == Cardinality(Endpoints) = 2
ASSUME WindowAssumption ==
  /\ AckHistory \in Nat \ {0}
  /\ AckHistory <= HalfRange
  /\ HistoryCapacity \in Nat \ {0}
  /\ Modulus % HistoryCapacity = 0
ASSUME SendsAssumption ==
  /\ FirstSequence \in [Endpoints -> SequenceNumber]
  /\ MaxSends \in [Endpoints -> 0 .. HalfRange]
  /\ MaxResets \in [Endpoints -> Nat]
ASSUME NoRecordAssumption == NoRecord \notin Record

Peer(e) == CHOOSE p \in Endpoints : p # e

VARIABLES
  nextSequence,  (* nextSequence_ of each end                              *)
  received,      (* received_: the ReceiveSequenceTracker's state          *)
  ledger,        (* sentHistory_                                           *)
  historySize,   (* sentHistorySize_                                       *)
  prepared,      (* headers made and not yet tracked and sent: at most one *)
  network,       (* every datagram ever sent                               *)
  accepted,      (* the sequences each tracker has accepted                *)
  reported,      (* the sequences each end was told are acknowledged       *)
  resets         (* how often each end was reset                           *)

channelVars == <<nextSequence, received, ledger, historySize, prepared>>
packetVars == <<channelVars, network, accepted, reported, resets>>

SentSlots == 0 .. HistoryCapacity - 1
SentSlot(s) == s % HistoryCapacity

(* AcknowledgementState: historyBits is the set of the distances k whose   *)
(* bit k - 1 is set.                                                       *)
AcknowledgementState ==
  [valid : BOOLEAN, latest : SequenceNumber, history : SUBSET (1 .. AckHistory)]
NothingReceived == [valid |-> FALSE, latest |-> 0, history |-> {}]
Datagram == [from : Endpoints, sequence : SequenceNumber, ack : AcknowledgementState]

(* The sequences an acknowledgement names: latest and each set bit.        *)
Named(ack) ==
  IF ack.valid THEN {ack.latest} \cup {Back(ack.latest, k) : k \in ack.history}
               ELSE {}

AcknowledgementContains(ack, s) ==
  /\ ack.valid
  /\ \/ s = ack.latest
     \/ /\ ~MoreRecent(s, ack.latest)
        /\ Distance(ack.latest, s) \in ack.history

-----------------------------------------------------------------------------
(* Variant for IsNews: the limit of the window is not tested.              *)
IsNewsAtAnyDistance(tracker, s) ==
  \/ ~tracker.valid
  \/ MoreRecent(s, tracker.latest)
  \/ /\ s # tracker.latest
     /\ Distance(tracker.latest, s) \notin tracker.history

(* ReceiveSequenceTracker::observe: its answer, and its new state.         *)
IsNews(tracker, s) ==
  \/ ~tracker.valid
  \/ MoreRecent(s, tracker.latest)
  \/ /\ s # tracker.latest
     /\ Distance(tracker.latest, s) <= AckHistory
     /\ Distance(tracker.latest, s) \notin tracker.history

(* Variant for Shifted: the bit of the old latest is not set.              *)
ShiftedWithoutLatest(tracker, distance) ==
  IF distance > AckHistory THEN {}
  ELSE {k + distance : k \in tracker.history} \cap 1 .. AckHistory

(* A newer latest shifts the bits; what leaves the window is forgotten.    *)
Shifted(tracker, distance) ==
  IF distance > AckHistory THEN {}
  ELSE ({k + distance : k \in tracker.history} \cap 1 .. AckHistory) \cup {distance}

Observed(tracker, s) ==
  IF ~tracker.valid
  THEN [valid |-> TRUE, latest |-> s, history |-> {}]
  ELSE IF MoreRecent(s, tracker.latest)
  THEN [valid |-> TRUE, latest |-> s,
        history |-> Shifted(tracker, Distance(s, tracker.latest))]
  ELSE [tracker EXCEPT !.history = @ \cup {Distance(tracker.latest, s)}]

-----------------------------------------------------------------------------
PacketInit ==
  /\ nextSequence = FirstSequence
  /\ received = [e \in Endpoints |-> NothingReceived]
  /\ ledger = [e \in Endpoints |-> [i \in SentSlots |-> NoRecord]]
  /\ historySize = [e \in Endpoints |-> 0]
  /\ prepared = [e \in Endpoints |-> {}]
  /\ network = {}
  /\ accepted = [e \in Endpoints |-> {}]
  /\ reported = [e \in Endpoints |-> {}]
  /\ resets = [e \in Endpoints |-> 0]

(* makeHeader: take a sequence, attach the current acknowledgement.  (A    *)
(* payload over the limit is refused before a sequence is taken.)          *)
MakeHeader(e) ==
  /\ prepared[e] = {}
  /\ Distance(nextSequence[e], FirstSequence[e]) < MaxSends[e]
  /\ prepared' = [prepared EXCEPT ![e] =
       {[from |-> e, sequence |-> nextSequence[e], ack |-> received[e]]}]
  /\ nextSequence' = [nextSequence EXCEPT ![e] = NextSequence(@)]
  /\ UNCHANGED <<received, ledger, historySize, network, accepted, reported, resets>>

(* trackSent, then the datagram leaves.                                    *)
TrackSent(e) ==
  \E header \in prepared[e] :
    LET slot == SentSlot(header.sequence) IN
    /\ ledger' = [ledger EXCEPT ![e][slot] =
         [sequence |-> header.sequence, acknowledged |-> FALSE]]
    /\ historySize' = IF ledger[e][slot] = NoRecord
                      THEN [historySize EXCEPT ![e] = @ + 1] ELSE historySize
    /\ network' = network \cup {header}
    /\ prepared' = [prepared EXCEPT ![e] = {}]
    /\ UNCHANGED <<nextSequence, received, accepted, reported, resets>>

(* The caller drops a header it made, say because encodePacket refused the *)
(* packet: the sequence is used up but was never sent.                     *)
AbandonHeader(e) ==
  /\ prepared[e] # {}
  /\ prepared' = [prepared EXCEPT ![e] = {}]
  /\ UNCHANGED <<nextSequence, received, ledger, historySize, network,
                 accepted, reported, resets>>

(* observeReceived on a delivered datagram.                                *)
ObserveReceived(e, d) ==
  /\ d.from = Peer(e)
  /\ IsNews(received[e], d.sequence)
  /\ received' = [received EXCEPT ![e] = Observed(@, d.sequence)]
  /\ accepted' = [accepted EXCEPT ![e] = @ \cup {d.sequence}]
  /\ UNCHANGED <<nextSequence, ledger, historySize, prepared, network,
                 reported, resets>>

(* processAcknowledgements with the acknowledgement of a delivered         *)
(* datagram: records still in the ledger and not yet acknowledged become   *)
(* so and are reported, the others are only counted.                       *)
(* Variant: whatever record is in the slot is acknowledged.                *)
NewlyAcknowledgedBySlot(e, ack) ==
  {r.sequence : r \in {ledger[e][SentSlot(s)] : s \in Named(ack)}
                     \ {NoRecord}}

NewlyAcknowledged(e, ack) ==
  {s \in Named(ack) : ledger[e][SentSlot(s)]
                        = [sequence |-> s, acknowledged |-> FALSE]}

ProcessAcknowledgements(e, d) ==
  LET newly == NewlyAcknowledged(e, d.ack) IN
  /\ d.from = Peer(e)
  /\ ledger' = [ledger EXCEPT ![e] = [i \in SentSlots |->
       IF \E s \in newly : SentSlot(s) = i
       THEN [@[i] EXCEPT !.acknowledged = TRUE] ELSE @[i]]]
  /\ reported' = [reported EXCEPT ![e] = @ \cup newly]
  /\ UNCHANGED <<nextSequence, received, historySize, prepared, network,
                 accepted, resets>>

(* reset(nextSequence): the channel starts over, the network does not.     *)
Reset(e) ==
  /\ resets[e] < MaxResets[e]
  /\ resets' = [resets EXCEPT ![e] = @ + 1]
  /\ nextSequence' = [nextSequence EXCEPT ![e] = FirstSequence[e]]
  /\ received' = [received EXCEPT ![e] = NothingReceived]
  /\ ledger' = [ledger EXCEPT ![e] = [i \in SentSlots |-> NoRecord]]
  /\ historySize' = [historySize EXCEPT ![e] = 0]
  /\ prepared' = [prepared EXCEPT ![e] = {}]
  /\ accepted' = [accepted EXCEPT ![e] = {}]
  /\ reported' = [reported EXCEPT ![e] = {}]
  /\ UNCHANGED network

PacketNext ==
  \E e \in Endpoints :
    \/ MakeHeader(e) \/ TrackSent(e) \/ AbandonHeader(e) \/ Reset(e)
    \/ \E d \in network : ObserveReceived(e, d) \/ ProcessAcknowledgements(e, d)

PacketSpec == PacketInit /\ [][PacketNext]_packetVars
-----------------------------------------------------------------------------
TypeOK ==
  /\ nextSequence \in [Endpoints -> SequenceNumber]
  /\ received \in [Endpoints -> AcknowledgementState]
  /\ ledger \in [Endpoints -> [SentSlots -> Record \cup {NoRecord}]]
  /\ historySize \in [Endpoints -> Nat]
  /\ prepared \in [Endpoints -> SUBSET Datagram]
  /\ network \subseteq Datagram
  /\ accepted \in [Endpoints -> SUBSET SequenceNumber]
  /\ reported \in [Endpoints -> SUBSET SequenceNumber]
  /\ resets \in [Endpoints -> Nat]

(* No packet is ever reported acknowledged that the peer did not receive,  *)
(* however the datagrams carrying acknowledgements are delayed, repeated   *)
(* or reordered, and however the receive window slid in between.  Once an  *)
(* end was reset this ends: a datagram does not name its session.          *)
NeverReset == \A e \in Endpoints : resets[e] = 0
ReportsAreTrue == \A e \in Endpoints : reported[e] \subseteq accepted[Peer(e)]
ReportedWasReceived == NeverReset => ReportsAreTrue

(* The tracker's bits are the truth about its window: received(s) answers  *)
(* yes exactly for the sequences accepted no further than AckHistory       *)
(* behind the latest, even across the wrap of the sequence space.  Hence a *)
(* datagram is accepted at most once.                                      *)
TrackerIsExact ==
  \A e \in Endpoints, s \in SequenceNumber :
    AcknowledgementContains(received[e], s) <=>
      s \in accepted[e] /\ Distance(received[e].latest, s) <= AckHistory

(* A datagram a tracker takes for news was not taken before: an accepted   *)
(* packet is handed to the game at most once per session.                  *)
AcceptedOnce ==
  [][\A e \in Endpoints : \A d \in network :
       ObserveReceived(e, d) => d.sequence \notin accepted[e]]_packetVars

-----------------------------------------------------------------------------
(* The strengthenings that make the properties above inductive.            *)

(* How far into e's session a sequence lies; no session reaches half the   *)
(* sequence space, which is what makes MoreRecent an order on it.          *)
Offset(e, s) == Distance(s, FirstSequence[e])

WithinSession ==
  /\ \A e \in Endpoints :
       /\ Offset(e, nextSequence[e]) <= MaxSends[e]
       /\ \A h \in prepared[e] :
            h.from = e /\ Offset(e, h.sequence) < Offset(e, nextSequence[e])
  /\ \A d \in network : Offset(d.from, d.sequence) < MaxSends[d.from]

(* Whatever an acknowledgement under way names was received by its sender. *)
AcksNameReceived ==
  /\ \A e \in Endpoints : /\ Named(received[e]) \subseteq accepted[e]
                          /\ \A h \in prepared[e] :
                               h.from = e /\ Named(h.ack) \subseteq accepted[e]
  /\ \A d \in network : Named(d.ack) \subseteq accepted[d.from]

(* A tracker's state is a function of the set of sequences it accepted,    *)
(* all of them sent by p in one session.                                   *)
Summarises(p, tracker, taken) ==
  /\ ~tracker.valid => taken = {}
  /\ tracker.valid => tracker.latest \in taken
  /\ \A s \in taken : /\ Offset(p, s) < MaxSends[p]
                      /\ Offset(p, s) <= Offset(p, tracker.latest)
  /\ \A k \in 1 .. AckHistory :
       k \in tracker.history <=>
         tracker.valid /\ Back(tracker.latest, k) \in taken

TrackerSummarises ==
  \A e \in Endpoints : Summarises(Peer(e), received[e], accepted[e])

(* What an end has tracked or been told of precedes what it allocates next.*)
LedgerPrecedesNext ==
  \A e \in Endpoints :
    /\ \A s \in reported[e] : Offset(e, s) < Offset(e, nextSequence[e])
    /\ \A h \in prepared[e] : h.sequence \notin reported[e]
    /\ \A i \in SentSlots : ledger[e][i] # NoRecord =>
         /\ SentSlot(ledger[e][i].sequence) = i
         /\ Offset(e, ledger[e][i].sequence) < Offset(e, nextSequence[e])
=============================================================================
