-------------------------- MODULE PredictionBuffer --------------------------
(***************************************************************************)
(* net/Reconciliation.hpp: the history of predicted ticks a client keeps   *)
(* until the server confirms them, over the window map of SequenceWindow   *)
(* (which SequenceBuffer, the container the code uses, implements).        *)
(***************************************************************************)
EXTENDS Integers, FiniteSets

CONSTANTS
  Capacity,                 (* frames the history holds                    *)
  Ticks,                    (* simulation ticks                            *)
  Commands,                 (* inputs                                      *)
  States,                   (* simulation states, with |p - a| as error    *)
  CorrectionThreshold,
  HardCorrectionThreshold

ASSUME PredictionAssumption ==
  /\ Capacity \in Nat \ {0, 1}
  /\ Ticks \subseteq Nat
  /\ States \subseteq Nat
  /\ CorrectionThreshold \in Nat /\ HardCorrectionThreshold \in Nat

VARIABLES
  frames,            (* the frames held: [sequence |-> tick, value]        *)
  window,            (* the newest tick the container knows, as a set      *)
  call, returned,    (* the container's last operation and its answer      *)
  newestTick,        (* newestTick_: {} or a singleton                     *)
  acknowledgedTick,  (* acknowledgedTick_: {} or a singleton               *)
  plan               (* the last ReconciliationPlan returned               *)

vars == <<frames, window, call, returned, newestTick, acknowledgedTick, plan>>

Frame == [command : Commands, predictedState : States]
Frames == INSTANCE SequenceWindow
            WITH content <- frames, newest <- window,
                 Sequences <- Ticks, Values <- Frame

NoPlan == [status |-> "none", tick |-> 0, replay |-> {}]

Later(S, t) == \A n \in S : t > n
Held(t) == {f \in frames : f.sequence = t}

(* Variant for FramesAfter: one frame is skipped.                          *)
FramesAfterNext(held, t) == {f \in held : f.sequence > t + 1}

(* collectReplayFrames; the sort by tick is what makes a set enough.       *)
FramesAfter(held, t) == {f \in held : f.sequence > t}

Init ==
  /\ Frames!Init
  /\ newestTick = {}
  /\ acknowledgedTick = {}
  /\ plan = NoPlan

-----------------------------------------------------------------------------
(* record: an old tick may only replace a frame still held.                *)
Refuses(t) ==
  \/ (\E n \in newestTick : t < n) /\ Held(t) = {}
  \/ Frames!TooOld(t)

(* record: an accepted tick, which may be older than the newest.           *)
Record(t, c, p) ==
  /\ ~Refuses(t)
  /\ Frames!StoreAccepted(t, [command |-> c, predictedState |-> p])
  /\ newestTick' = IF Later(newestTick, t) THEN {t} ELSE newestTick
  /\ UNCHANGED <<acknowledgedTick, plan>>

RecordRefused(t) ==
  /\ Refuses(t)
  /\ UNCHANGED vars

(* Variant for Acknowledge: the tick acknowledged itself is kept.          *)
AcknowledgeBefore(t) ==
  /\ Frames!EraseThrough(t - 1)
  /\ acknowledgedTick' = IF Later(acknowledgedTick, t) THEN {t} ELSE acknowledgedTick
  /\ UNCHANGED newestTick

(* acknowledgeThrough *)
Acknowledge(t) ==
  /\ Frames!EraseThrough(t)
  /\ acknowledgedTick' = IF Later(acknowledgedTick, t) THEN {t} ELSE acknowledgedTick
  /\ UNCHANGED newestTick

AcknowledgeThrough(t) == Acknowledge(t) /\ UNCHANGED plan

Error(p, a) == IF p >= a THEN p - a ELSE a - p

(* hardCorrectionThreshold never undercuts correctionThreshold.            *)
HardThreshold == IF HardCorrectionThreshold >= CorrectionThreshold
                 THEN HardCorrectionThreshold ELSE CorrectionThreshold

StatusOf(t, a) ==
  IF Held(t) = {} THEN "missing"
  ELSE LET error == Error((CHOOSE f \in Held(t) : TRUE).value.predictedState, a) IN
       IF error > HardThreshold THEN "hardCorrection"
       ELSE IF error > CorrectionThreshold THEN "correction" ELSE "accepted"

(* Variant for NeedsCorrection: a hard correction is none.                 *)
NeedsSoftCorrection(status) == status = "correction"
NeedsCorrection(status) == status \in {"correction", "hardCorrection"}

(* reconcile(t, a): compare, acknowledge, collect what is to be replayed.  *)
Reconcile(t, a) ==
  /\ Acknowledge(t)
  /\ plan' = [status |-> StatusOf(t, a), tick |-> t,
              replay |-> FramesAfter(frames', t)]

Clear ==
  /\ Frames!Clear
  /\ newestTick' = {}
  /\ acknowledgedTick' = {}
  /\ UNCHANGED plan

Next ==
  \/ \E t \in Ticks, c \in Commands, p \in States : Record(t, c, p)
  \/ \E t \in Ticks : RecordRefused(t) \/ AcknowledgeThrough(t)
  \/ \E t \in Ticks, a \in States : Reconcile(t, a)
  \/ Clear

Spec == Init /\ [][Next]_vars
-----------------------------------------------------------------------------
(* newestTick_ duplicates what the container keeps, and is maintained on   *)
(* its own: however records, acknowledgements and clears alternate the two *)
(* agree and every frame held is one of the Capacity ticks that end there, *)
(* at most one frame for each tick.  Of acknowledged ticks it says nothing:*)
(* record takes the newest tick again after its acknowledgement.           *)
HistoryIsOneWindow ==
  /\ window = newestTick
  /\ \A f \in frames : \E n \in newestTick :
       f.sequence <= n /\ n < f.sequence + Capacity
  /\ \A f, g \in frames : f.sequence = g.sequence => f = g
=============================================================================
