---------------------------- MODULE VulkanDriver ----------------------------
(***************************************************************************)
(* The Vulkan driver as the renderer relies on it.  It is not part of the  *)
(* repository: this module says what a call may answer and, as a           *)
(* validation layer would, which calls are misuses.  The driver is a       *)
(* record that an operation threads through its calls:                     *)
(*                                                                         *)
(*   alive     the objects that exist                                      *)
(*   held      the objects a variable of the program names (its handle     *)
(*             is not VK_NULL_HANDLE)                                      *)
(*   work      the objects each piece of submitted work refers to          *)
(*   misuses   what a validation layer would have reported                 *)
(*   refusals  how many calls failed so far                                *)
(*                                                                         *)
(* An operation that may fail has a set of outcomes [d, ok]: the driver it *)
(* leaves behind and the boolean the code returns.                         *)
(***************************************************************************)
EXTENDS Naturals, Sequences, SequencesExt

CONSTANTS
  FramesInFlight,   (* kMaxFramesInFlight                                  *)
  MaxRefusals       (* bound on the calls that fail in a behaviour         *)

ASSUME DriverAssumption == FramesInFlight \in Nat \ {0} /\ MaxRefusals \in Nat

FrameSlots == 0 .. FramesInFlight - 1

(* Work that is submitted outside a frame and waited for at once.          *)
OneTime == FramesInFlight
Works == 0 .. FramesInFlight

NoDriver ==
  [alive |-> {}, held |-> {}, work |-> [w \in Works |-> {}], misuses |-> {}, refusals |-> 0]

Busy(d) == UNION {d.work[w] : w \in Works}

(* The misuse there is in a call when this is so.                          *)
Misuse(kind, condition) == IF condition THEN {kind} ELSE {}
Dead(d, objects) == Misuse("dead", ~ objects \subseteq d.alive)
Touched(d, objects) == Dead(d, objects) \cup Misuse("busy", objects \cap Busy(d) # {})

-----------------------------------------------------------------------------
(* Calls that cannot fail.                                                 *)

(* Objects go; the handles of some are cleared.                            *)
Gone(d, gone, cleared) ==
  [d EXCEPT !.alive = @ \ gone, !.held = @ \ cleared, !.misuses = @ \cup Touched(d, gone)]

(* Destroys the objects whose handle is set, and clears the handles.       *)
Destroy(d, objects) == Gone(d, objects \cap d.held, objects)

(* Destroys an object together with what was allocated from it; the        *)
(* handles of the contents stay set.                                       *)
DestroyPool(d, pool, contents) ==
  IF pool \in d.held THEN Gone(d, {pool} \cup (contents \cap d.alive), {pool}) ELSE d

(* Destroys an object whose children must all be gone: nothing exists by   *)
(* then but these others.                                                  *)
DestroyParent(d, parent, others) ==
  Destroy([d EXCEPT !.misuses = @ \cup
             Misuse("orphan", parent \in d.held /\ ~ d.alive \subseteq others \cup {parent})], {parent})

(* Handles are overwritten with VK_NULL_HANDLE.                            *)
Forget(d, objects) == [d EXCEPT !.held = @ \ objects]

(* The host writes memory, or a descriptor set, that the GPU may read.     *)
Rewrite(d, objects) == [d EXCEPT !.misuses = @ \cup Touched(d, objects)]

-----------------------------------------------------------------------------
(* Calls that may fail.                                                    *)

(* A call that creates an object from others, one that creates none, and   *)
(* one that maps memory which the host then writes.                        *)
Make(object, needs) == [makes |-> {object}, needs |-> needs, writes |-> {}]
Call(needs) == [makes |-> {}, needs |-> needs, writes |-> {}]
Fill(memory) == [makes |-> {}, needs |-> {memory}, writes |-> {memory}]

Misused(d, call) ==
  Misuse("lost", call.makes \cap d.held # {}) \cup Dead(d, call.needs) \cup Touched(d, call.writes)

(* The driver after the first n calls, all of which succeeded.             *)
MadeBy(calls, n) == UNION {calls[i].makes : i \in 1 .. n}
With(d, objects) == [d EXCEPT !.alive = @ \cup objects, !.held = @ \cup objects]
After(d, calls, n) ==
  [With(d, MadeBy(calls, n)) EXCEPT
     !.misuses = @ \cup UNION {Misused(With(d, MadeBy(calls, i - 1)), calls[i]) : i \in 1 .. n}]

MayRefuse(d) == d.refusals < MaxRefusals
Refuse(d) == [d EXCEPT !.refusals = @ + 1]

(* The calls one after the other, as long as they succeed.                 *)
Try(d, calls) ==
  {[d |-> After(d, calls, Len(calls)), ok |-> TRUE]} \cup
  {[d |-> Refuse(After(d, calls, n - 1)), ok |-> FALSE] : n \in {i \in DOMAIN calls : MayRefuse(d)}}

(* a && b, (void) a, and what goes on failure or in any case.              *)
AndThen(outcomes, Next(_)) ==
  UNION {IF o.ok THEN Next(o.d) ELSE {o} : o \in outcomes}
Ignoring(outcomes, Next(_)) == UNION {Next(o.d) : o \in outcomes}
OnFailure(outcomes, objects) ==
  {IF o.ok THEN o ELSE [o EXCEPT !.d = Destroy(@, objects)] : o \in outcomes}
Finally(outcomes, objects) == {[o EXCEPT !.d = Destroy(@, objects)] : o \in outcomes}
Returns(d, ok) == {[d |-> d, ok |-> ok]}

(* A loop: the outcomes of a step for each item, from any outcome so far.  *)
InTurn(outcomes, items, Step(_, _)) ==
  LET after[n \in 0 .. Len(items)] ==
        IF n = 0 THEN outcomes ELSE UNION {Step(o, items[n]) : o \in after[n - 1]}
  IN  after[Len(items)]

(* Lists of calls one after the other, as long as they succeed.            *)
TryEach(d, lists) ==
  InTurn(Returns(d, TRUE), lists, LAMBDA o, calls : IF o.ok THEN Try(o.d, calls) ELSE {o})

-----------------------------------------------------------------------------
(* The queue.                                                              *)

Submit(d, w, objects) ==
  [d EXCEPT !.work[w] = @ \cup objects, !.misuses = @ \cup Dead(d, objects)]

(* The program knows that everything submitted has completed; work it has  *)
(* not waited for may always still be running.                             *)
Idle(d) == [d EXCEPT !.work = [w \in Works |-> {}]]

(* A wait: when it fails, nothing is known to have completed.              *)
WaitIdle(d) ==
  Returns(Idle(d), TRUE) \cup (IF MayRefuse(d) THEN Returns(Refuse(d), FALSE) ELSE {})

(* A wait whose answer the code does not look at.  It is taken to confirm: *)
(* were it not to, the code would go on as if it had.                      *)
IgnoredWait(d) == Idle(d)
=============================================================================
