------------------------ MODULE InterpolationBuffer -------------------------
(***************************************************************************)
(* net/InterpolationBuffer.hpp: what is shown between two snapshots, after *)
(* the newest and before the oldest, read from the ring of SequenceBuffer  *)
(* in the order of its slots.  The buffer has no state of its own and its  *)
(* other calls are those of the ring.  A position is counted in half       *)
(* ticks, of which a sequence number is worth two.                         *)
(***************************************************************************)
EXTENDS SequenceBuffer, Integers

CONSTANTS
  Positions,   (* the positions asked for, in half ticks                   *)
  Limits       (* maxExtrapolationDistance, in half ticks                  *)

ASSUME PositionsAssumption == Positions \subseteq Int /\ Limits \subseteq Nat

(* A Sample.  `from` and `to` hold an entry or none, alpha is over / span, *)
(* and flags are those of its booleans that are set.                       *)
NoSample == [from |-> {}, to |-> {}, over |-> 0, span |-> 1, flags |-> {}]
Only(entry, flag) == [NoSample EXCEPT !.from = entry, !.to = entry, !.flags = {flag}]
Between(lower, upper, position, flags) ==
  LET start == CHOOSE e \in lower : TRUE
      end   == CHOOSE e \in upper : TRUE
  IN  [from |-> lower, to |-> upper, over |-> position - 2 * start.sequence,
       span |-> 2 * (end.sequence - start.sequence), flags |-> flags]

(* Whether an entry comes after, or before, the one found so far, if any.  *)
After(e, found) == \A f \in found : e.sequence > f.sequence
Before(e, found) == \A f \in found : e.sequence < f.sequence

-----------------------------------------------------------------------------
(* sample, for a whole sequence number.                                    *)
Neighbours(target, found, e) ==
  [lower |-> IF e.sequence < target /\ After(e, found.lower) THEN {e} ELSE found.lower,
   upper |-> IF e.sequence > target /\ Before(e, found.upper) THEN {e} ELSE found.upper]

(* forEach visits the occupied slots, in their order.                      *)
Found(target) ==
  LET after[n \in 0 .. Capacity] ==
        IF n = 0 THEN [lower |-> {}, upper |-> {}]
        ELSE IF entries[n - 1] = Vacant THEN after[n - 1]
        ELSE Neighbours(target, after[n - 1], entries[n - 1])
  IN  after[Capacity]

Sample(target) ==
  LET found == Found(target) IN
  CASE Contains(target) -> Only({entries[SlotFor(target)]}, "exact")
    [] ~Contains(target) /\ found.lower # {} /\ found.upper # {} ->
         Between(found.lower, found.upper, 2 * target, {})
    [] ~Contains(target) /\ found.lower # {} /\ found.upper = {} -> Only(found.lower, "newest")
    [] ~Contains(target) /\ found.lower = {} /\ found.upper # {} -> Only(found.upper, "oldest")
    [] OTHER -> NoSample

(* sampleFractional: the neighbours, and the two newest entries.           *)
Nothing == [lower |-> {}, upper |-> {}, newest |-> {}, second |-> {}]

(* Variant for NewestTwo: the entry that was the newest is forgotten.      *)
NewestTwoForgetting(found, e) ==
  IF After(e, found.newest) THEN <<{e}, found.second>>
  ELSE IF After(e, found.second) /\ Before(e, found.newest) THEN <<found.newest, {e}>>
  ELSE <<found.newest, found.second>>

NewestTwo(found, e) ==
  IF After(e, found.newest) THEN <<{e}, found.newest>>
  ELSE IF After(e, found.second) /\ Before(e, found.newest) THEN <<found.newest, {e}>>
  ELSE <<found.newest, found.second>>

Visit(position, found, e) ==
  [lower |-> IF 2 * e.sequence <= position /\ After(e, found.lower) THEN {e} ELSE found.lower,
   upper |-> IF 2 * e.sequence >= position /\ Before(e, found.upper) THEN {e} ELSE found.upper,
   newest |-> NewestTwo(found, e)[1],
   second |-> NewestTwo(found, e)[2]]

(* Beyond the newest entry: its motion since the one before it goes on for *)
(* a limited distance.                                                     *)
Extrapolates(found, position, limit) ==
  \E last \in found.lower : /\ position - 2 * last.sequence \in 1 .. limit
                            /\ \E e \in found.second : e.sequence < last.sequence

FoundAround(position) ==
  LET after[n \in 0 .. Capacity] ==
        IF n = 0 THEN Nothing
        ELSE IF entries[n - 1] = Vacant THEN after[n - 1]
        ELSE Visit(position, after[n - 1], entries[n - 1])
  IN  after[Capacity]

SampleFractional(position, limit) ==
  LET found == FoundAround(position) IN
  CASE found.lower # {} /\ found.upper # {} ->
         IF found.lower = found.upper THEN Only(found.lower, "exact")
         ELSE Between(found.lower, found.upper, position, {})
    [] found.lower # {} /\ found.upper = {} ->
         IF Extrapolates(found, position, limit)
         THEN Between(found.second, found.lower, position, {"extrapolating"})
         ELSE Only(found.lower, "newest")
    [] found.lower = {} /\ found.upper # {} -> Only(found.upper, "oldest")
    [] OTHER -> NoSample
-----------------------------------------------------------------------------
(* Where an object is shown that moves one tick's length every tick.       *)
Shown(sample) == {2 * e.sequence + sample.over : e \in sample.from}

(* Where it should be: at the position asked for while snapshots tell, or  *)
(* told a moment ago, and with the nearest snapshot elsewhere.             *)
Expected(position, limit) ==
  LET known == {2 * e.sequence : e \in Content}
      first == CHOOSE k \in known : \A l \in known : k <= l
      last  == CHOOSE k \in known : \A l \in known : k >= l
  IN
  CASE known = {} -> {}
    [] known # {} /\ position < first -> {first}
    [] known # {} /\ position > last ->
         {IF Cardinality(known) > 1 /\ position - last <= limit THEN position ELSE last}
    [] OTHER -> {position}

(* Whatever order stores, erasures and rollbacks left the entries in, the  *)
(* sample lies on the motion that the snapshots describe, between two that *)
(* are neighbours; and a whole position is sampled alike by both calls.    *)
SamplesFollowTheMotion ==
  \A position \in Positions :
    /\ \A limit \in Limits :
         LET sample == SampleFractional(position, limit) IN
         /\ Shown(sample) = Expected(position, limit)
         /\ ~\E e \in Content, f \in sample.from, t \in sample.to :
              f.sequence < e.sequence /\ e.sequence < t.sequence
    /\ position >= 0 /\ position % 2 = 0 =>
         Sample(position \div 2) = SampleFractional(position, 0)
=============================================================================
