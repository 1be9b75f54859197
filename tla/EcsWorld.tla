------------------------------- MODULE EcsWorld -------------------------------
(***************************************************************************)
(* ecs/World.cpp: entity slots with generations, a stack of free slots,    *)
(* and one store of components per type, keyed by the packed entity id.    *)
(***************************************************************************)
EXTENDS Naturals, Sequences, FiniteSets

CONSTANTS
  Types,               (* component types                                  *)
  GenerationModulus,   (* generations are numbers modulo 2^32              *)
  MaxSlots, MaxBirths  (* bounds: slots in use at once, entities created   *)

ASSUME EcsAssumption ==
  GenerationModulus \in Nat \ {0, 1} /\ MaxSlots \in Nat /\ MaxBirths \in Nat

VARIABLES
  slots,       (* generation and alive, by index from 0                    *)
  freeList,
  aliveCount,
  stores,      (* <<type, id>> -> the entity the value was added to        *)
  born,        (* every entity there was: <<id, serial>>                   *)
  births       (* how many there were                                      *)

ecsVars == <<slots, freeList, aliveCount, stores, born, births>>

Indices == DOMAIN slots
Generations == 0 .. GenerationModulus - 1
IsAlive(id) ==
  /\ id[1] \in Indices
  /\ slots[id[1]].alive /\ slots[id[1]].generation = id[2]

EcsInit ==
  /\ slots = [i \in {} |-> [generation |-> 1, alive |-> FALSE]]
  /\ freeList = <<>> /\ aliveCount = 0
  /\ stores = [k \in {} |-> 0]
  /\ born = {} /\ births = 0

(* createEntity: the slot freed last, or a new one.                        *)
Fresh == Cardinality(Indices)
CreateEntity ==
  LET i == IF freeList # <<>> THEN freeList[Len(freeList)] ELSE Fresh
      generation == IF i \in Indices THEN slots[i].generation ELSE 1
  IN
  /\ births < MaxBirths
  /\ i < MaxSlots
  /\ slots' = [j \in Indices \cup {i} |->
       IF j = i THEN [generation |-> generation, alive |-> TRUE] ELSE slots[j]]
  /\ freeList' = IF freeList # <<>> THEN SubSeq(freeList, 1, Len(freeList) - 1) ELSE freeList
  /\ aliveCount' = aliveCount + 1
  /\ births' = births + 1
  /\ born' = born \cup {<<<<i, generation>>, births + 1>>}
  /\ UNCHANGED stores

(* Variant for NextGeneration: the generation saturates.                   *)
NextGenerationSaturating(g) == IF g < GenerationModulus - 1 THEN g + 1 ELSE g
NextGeneration(g) == IF g = GenerationModulus - 1 THEN 0 ELSE g + 1

(* Variant for DestroyEntity: only the first store forgets the entity.     *)
DestroyLeavingComponents(id) ==
  /\ IF IsAlive(id)
     THEN /\ slots' = [slots EXCEPT ![id[1]] = [generation |-> NextGeneration(@.generation), alive |-> FALSE]]
          /\ freeList' = Append(freeList, id[1])
          /\ aliveCount' = aliveCount - 1
          /\ stores' = [k \in {x \in DOMAIN stores : x[2] # id \/ x[1] # CHOOSE t \in Types : TRUE} |-> stores[k]]
     ELSE UNCHANGED <<slots, freeList, aliveCount, stores>>
  /\ UNCHANGED <<born, births>>

(* Variant for DestroyEntity: an id destroyed twice frees its slot twice.  *)
DestroyAgain(id) ==
  /\ id[1] \in Indices
  /\ slots' = [slots EXCEPT ![id[1]] = [generation |-> NextGeneration(@.generation), alive |-> FALSE]]
  /\ freeList' = Append(freeList, id[1])
  /\ aliveCount' = aliveCount - 1
  /\ stores' = [k \in {x \in DOMAIN stores : x[2] # id} |-> stores[k]]
  /\ UNCHANGED <<born, births>>

(* destroyEntity: nothing for an id that is not alive.                     *)
DestroyEntity(id) ==
  /\ IF IsAlive(id)
     THEN /\ slots' = [slots EXCEPT ![id[1]] = [generation |-> NextGeneration(@.generation), alive |-> FALSE]]
          /\ freeList' = Append(freeList, id[1])
          /\ aliveCount' = aliveCount - 1
          /\ stores' = [k \in {x \in DOMAIN stores : x[2] # id} |-> stores[k]]
     ELSE UNCHANGED <<slots, freeList, aliveCount, stores>>
  /\ UNCHANGED <<born, births>>

(* addComponent throws for a dead entity; it replaces an earlier value.    *)
Youngest(S) == CHOOSE e \in S : \A f \in S : f[2] <= e[2]
Latest(id) == Youngest({e \in born : e[1] = id})
AddComponent(type, id) ==
  /\ IsAlive(id)
  /\ stores' = [k \in DOMAIN stores \cup {<<type, id>>} |->
       IF k = <<type, id>> THEN Latest(id) ELSE stores[k]]
  /\ UNCHANGED <<slots, freeList, aliveCount, born, births>>

(* removeComponent asks for no living entity.                              *)
RemoveComponent(type, id) ==
  /\ stores' = [k \in DOMAIN stores \ {<<type, id>>} |-> stores[k]]
  /\ UNCHANGED <<slots, freeList, aliveCount, born, births>>

Ids == {e[1] : e \in born}
EcsNext ==
  \/ CreateEntity
  \/ \E id \in Ids : DestroyEntity(id)
  \/ \E id \in Ids, type \in Types : AddComponent(type, id) \/ RemoveComponent(type, id)

EcsSpec == EcsInit /\ [][EcsNext]_ecsVars
-----------------------------------------------------------------------------
Alive == {i \in Indices : slots[i].alive}
Free == {freeList[n] : n \in DOMAIN freeList}

TypeOK ==
  /\ \E n \in 0 .. MaxSlots : Indices = 0 .. n - 1
  /\ slots \in [Indices -> [generation : Generations, alive : BOOLEAN]]
  /\ freeList \in Seq(Indices)
  /\ aliveCount \in Nat /\ births \in Nat
  /\ born \subseteq ((Indices \X Generations) \X (1 .. births))
  /\ DOMAIN stores \subseteq Types \X Ids

(* The free list holds each dead slot once and no other, and the count of  *)
(* the living is right: no slot is lost, and none given to two entities.   *)
FreeListIsExact ==
  /\ Free = Indices \ Alive
  /\ \A m, n \in DOMAIN freeList : freeList[m] = freeList[n] => m = n
  /\ aliveCount = Cardinality(Alive)

(* Every stored component belongs to a living entity, and was added to     *)
(* that one, not to an earlier owner of its slot.                          *)
ComponentsBelongToTheLiving ==
  \A k \in DOMAIN stores :
    /\ IsAlive(k[2])
    /\ stores[k] = Latest(k[2])

(* An id names one entity for ever, until its slot was reused as often as  *)
(* there are generations: of two entities under one id that many others    *)
(* had the slot in between.                                                *)
Before(f) == {g \in born : g[1][1] = f[1][1] /\ g[2] < f[2]}
Reuses(e, f) == Before(f) \ Before(e)
StaleIdsStayDead ==
  \A e, f \in born :
    e[1] = f[1] /\ e[2] < f[2] => Cardinality(Reuses(e, f)) >= GenerationModulus
=============================================================================
