--------------------------- MODULE PredictedClient ---------------------------
(***************************************************************************)
(* A client that predicts with PredictionBuffer, and the server it follows *)
(* (the pipeline of docs/08_NETCODE.md; the game code that drives the      *)
(* buffer is not part of the repository).  The client simulates every tick *)
(* at once, the server later and perhaps with another outcome; the         *)
(* authoritative updates arrive late, in any order, repeatedly or never.   *)
(***************************************************************************)
EXTENDS PredictionBuffer

CONSTANTS
  MaxTick,          (* bound on the ticks simulated                        *)
  MaxDisturbances   (* bound on the ticks the server resolves differently  *)

ASSUME WorldAssumption ==
  /\ MaxTick \in Nat /\ 1 .. MaxTick \subseteq Ticks /\ MaxDisturbances \in Nat
  /\ Commands \subseteq Nat /\ IsFiniteSet(States) /\ States # {}

VARIABLES
  sent,           (* the command the client issued for each tick           *)
  clientState,    (* the state the client shows                            *)
  replaying,      (* frames of the last plan not yet replayed              *)
  authoritative,  (* the server's states, tick by tick from 0              *)
  disturbances,   (* ticks resolved differently so far                     *)
  confirmed       (* the newest tick at which a prediction was compared    *)

worldVars == <<sent, clientState, replaying, authoritative, disturbances, confirmed>>

Size == Cardinality(States)
Step(s, c) == (s + c) % Size

StartState == 0
ServerTick == Cardinality(DOMAIN authoritative) - 1
ClientTick == Cardinality(DOMAIN sent)

WorldInit ==
  /\ Init
  /\ sent = [t \in {} |-> 0]
  /\ clientState = StartState
  /\ replaying = {}
  /\ authoritative = [t \in {0} |-> StartState]
  /\ disturbances = 0
  /\ confirmed = 0

(* The client simulates a tick, shows the outcome and sends the command.   *)
Predict(c) ==
  LET t == ClientTick + 1 IN
  /\ replaying = {}
  /\ t <= MaxTick
  /\ Record(t, c, Step(clientState, c))
  /\ clientState' = Step(clientState, c)
  /\ sent' = [u \in 1 .. t |-> IF u = t THEN c ELSE sent[u]]
  /\ UNCHANGED <<replaying, authoritative, disturbances, confirmed>>

(* The server simulates the next tick; something the client could not      *)
(* foresee may push the outcome.                                           *)
Simulate(push) ==
  LET t == ServerTick + 1 IN
  /\ t <= ClientTick
  /\ disturbances + push <= MaxDisturbances
  /\ authoritative' = [u \in 0 .. t |->
       IF u = t THEN Step(Step(authoritative[u - 1], sent[u]), push) ELSE authoritative[u]]
  /\ disturbances' = disturbances + push
  /\ UNCHANGED <<vars, sent, clientState, replaying, confirmed>>

(* An authoritative update arrives: the plan is carried out when it needs  *)
(* a correction.                                                           *)
Receive(t) ==
  /\ replaying = {}
  /\ t \in 1 .. ServerTick
  /\ Reconcile(t, authoritative[t])
  /\ IF NeedsCorrection(plan'.status)
     THEN clientState' = authoritative[t] /\ replaying' = plan'.replay
     ELSE UNCHANGED <<clientState, replaying>>
  /\ confirmed' = IF plan'.status = "missing" THEN confirmed ELSE t
  /\ UNCHANGED <<sent, authoritative, disturbances>>

(* The next pending command is simulated again and recorded over the old   *)
(* prediction.                                                             *)
Replay ==
  \E f \in replaying :
    /\ \A g \in replaying : f.sequence <= g.sequence
    /\ LET p == Step(clientState, f.value.command) IN
       /\ Record(f.sequence, f.value.command, p)
       /\ clientState' = p
    /\ replaying' = replaying \ {f}
    /\ UNCHANGED <<sent, authoritative, disturbances, confirmed>>

WorldNext ==
  \/ \E c \in Commands : Predict(c)
  \/ \E push \in {0, 1} : Simulate(push)
  \/ \E t \in 1 .. MaxTick : Receive(t)
  \/ Replay

WorldSpec == WorldInit /\ [][WorldNext]_<<vars, worldVars>>

(* Both loops keep ticking, a replay is finished, and the update of the    *)
(* last tick is one that is not lost for ever.                             *)
FairWorldSpec ==
  /\ WorldSpec
  /\ WF_<<vars, worldVars>>(\E c \in Commands : Predict(c))
  /\ WF_<<vars, worldVars>>(\E push \in {0, 1} : Simulate(push))
  /\ WF_<<vars, worldVars>>(Replay)
  /\ WF_<<vars, worldVars>>(Receive(MaxTick))
-----------------------------------------------------------------------------
(* The outcome of the client's own commands from the newest tick at which  *)
(* its prediction was compared with the server's state.                    *)
Expected ==
  LET from[t \in confirmed .. ClientTick] ==
        IF t = confirmed THEN authoritative[t] ELSE Step(from[t - 1], sent[t])
  IN  from

(* When no replay is under way the client shows exactly the newest server  *)
(* state it could compare, moved forward by every command issued since: a  *)
(* late, repeated or reordered update neither undoes a newer one nor drops *)
(* or repeats a command.                                                   *)
ShowsConfirmedPlusPending == replaying = {} => clientState = Expected[ClientTick]

(* The history holds what is pending and that alone: every frame is of a   *)
(* tick after the newest one acknowledged, with the command that was sent  *)
(* for it, and no later tick is missing, whatever is recorded again while  *)
(* a plan is carried out.                                                  *)
HistoryIsPending ==
  \A f \in frames :
    /\ Later(acknowledgedTick, f.sequence)
    /\ f.value.command = sent[f.sequence]
    /\ \A t \in f.sequence .. ClientTick : Held(t) # {}

(* Once the client stops, its state and the server's become and stay the   *)
(* same.                                                                   *)
Agrees == /\ ServerTick = MaxTick /\ ClientTick = MaxTick /\ replaying = {}
          /\ clientState = authoritative[MaxTick]
EventuallyAgrees == <>[]Agrees
=============================================================================
