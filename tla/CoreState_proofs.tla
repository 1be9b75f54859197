--------------------------- MODULE CoreState_proofs --------------------------
(***************************************************************************)
(* What the engine keeps from one frame to the next: entities,             *)
(* configurations and predictions.                                         *)
(*                                                                         *)
(* The entity world keeps its slots, components and ids apart, for any     *)
(* number of component types, slots and generations.                       *)
(*                                                                         *)
(* Wherever other programs' writes fall between the stamps and the reads   *)
(* of the registry, a stale document is noticed by the next poll: for any  *)
(* names, paths, files and documents, as long as no file is removed.       *)
(*                                                                         *)
(* The prediction history is one window of ticks, for any capacity, and a  *)
(* client whose predictions are held to the exact state shows the newest   *)
(* state it could compare, moved forward by its own commands.              *)
(***************************************************************************)
EXTENDS EcsWorld, ConfigRegistry, PredictedClient, FiniteSetTheorems, TLAPS

(* An id that is alive names its slot and the slot's generation, so a slot *)
(* has at most one living id.                                              *)
LEMMA OneLivingId ==
  ASSUME NEW id \in Indices \X Generations, NEW other \in Indices \X Generations,
         IsAlive(id), IsAlive(other), id[1] = other[1]
  PROVE  id = other
  BY DEF IsAlive

LEMMA GenerationFacts ==
  /\ GenerationModulus \in Nat /\ GenerationModulus > 1
  /\ 1 \in Generations
  /\ \A g \in Generations : NextGeneration(g) \in Generations
  BY EcsAssumption DEF Generations, NextGeneration

-----------------------------------------------------------------------------
(* The slot createEntity hands out, and the generation it has.             *)
Given == IF freeList # <<>> THEN freeList[Len(freeList)] ELSE Fresh
GivenGeneration == IF Given \in Indices THEN slots[Given].generation ELSE 1
FreeLeft == IF freeList # <<>> THEN SubSeq(freeList, 1, Len(freeList) - 1) ELSE freeList

LEMMA FreshIsNext ==
  ASSUME NEW n \in Nat, Indices = 0 .. n - 1
  PROVE  Fresh = n
  BY FS_Interval DEF Fresh

LEMMA CreateEffect ==
  ASSUME CreateEntity
  PROVE  /\ Given < MaxSlots
         /\ slots' = [j \in Indices \cup {Given} |->
              IF j = Given THEN [generation |-> GivenGeneration, alive |-> TRUE] ELSE slots[j]]
         /\ Indices' = Indices \cup {Given}
         /\ freeList' = FreeLeft
         /\ aliveCount' = aliveCount + 1
         /\ births' = births + 1
         /\ born' = born \cup {<<<<Given, GivenGeneration>>, births + 1>>}
         /\ stores' = stores
  BY DEF CreateEntity, Given, GivenGeneration, FreeLeft, Indices

LEMMA DestroyEffect ==
  ASSUME NEW id, DestroyEntity(id), IsAlive(id)
  PROVE  /\ slots' = [slots EXCEPT ![id[1]] = [generation |-> NextGeneration(@.generation), alive |-> FALSE]]
         /\ Indices' = Indices
         /\ freeList' = Append(freeList, id[1])
         /\ aliveCount' = aliveCount - 1
         /\ stores' = [k \in {x \in DOMAIN stores : x[2] # id} |-> stores[k]]
         /\ born' = born /\ births' = births
  BY DEF DestroyEntity, Indices

(* What is taken from the free list, and what is left on it.               *)
LEMMA FreeListTail ==
  ASSUME NEW S, freeList \in Seq(S), freeList # <<>>
  PROVE  /\ Len(freeList) \in Nat /\ Len(freeList) > 0
         /\ Given = freeList[Len(freeList)] /\ Given \in S
         /\ FreeLeft \in Seq(S)
         /\ DOMAIN FreeLeft = 1 .. Len(freeList) - 1
         /\ \A n \in 1 .. Len(freeList) - 1 : FreeLeft[n] = freeList[n]
  BY DEF Given, FreeLeft

-----------------------------------------------------------------------------
LEMMA TypeCreate ==
  ASSUME TypeOK, CreateEntity
  PROVE  TypeOK'
<1>1. PICK n \in 0 .. MaxSlots : Indices = 0 .. n - 1
  BY DEF TypeOK
<1> n \in Nat /\ MaxSlots \in Nat
  BY <1>1, EcsAssumption
<1>2. Fresh = n
  BY <1>1, FreshIsNext
<1>3. Given \in Indices \/ Given = n
  BY <1>2, FreeListTail DEF TypeOK, Given
<1>4. GivenGeneration \in Generations
  BY GenerationFacts DEF TypeOK, GivenGeneration
<1>5. Indices' = Indices \cup {Given}
  BY CreateEffect
<1>6. \E m \in 0 .. MaxSlots : Indices' = 0 .. m - 1
  <2>1. CASE Given \in Indices
    BY <1>1, <1>5, <2>1
  <2>2. CASE Given = n
    <3>1. Given < MaxSlots
      BY CreateEffect
    <3>2. Indices' = 0 .. (n + 1) - 1
      BY <1>1, <1>5, <2>2
    <3> QED BY <2>2, <3>1, <3>2
  <2> QED BY <1>3, <2>1, <2>2
<1>7. slots' \in [Indices' -> [generation : Generations, alive : BOOLEAN]]
  <2> DEFINE slot == [generation |-> GivenGeneration, alive |-> TRUE]
             SlotSet == [generation : Generations, alive : BOOLEAN]
  <2>1. slot \in SlotSet
    BY <1>4
  <2>2. slots' = [j \in Indices \cup {Given} |-> IF j = Given THEN slot ELSE slots[j]]
    BY CreateEffect
  <2>3. slots \in [Indices -> SlotSet]
    BY DEF TypeOK
  <2> HIDE DEF slot, SlotSet
  <2>4. slots' \in [Indices' -> SlotSet]
    BY <1>5, <2>1, <2>2, <2>3
  <2> QED BY <2>4 DEF SlotSet
<1>8. freeList' \in Seq(Indices')
  <2>1. freeList \in Seq(Indices) /\ Indices \subseteq Indices'
    BY <1>5 DEF TypeOK
  <2>2. freeList' = FreeLeft
    BY CreateEffect
  <2>3. freeList \in Seq(Indices')
    BY <2>1
  <2> QED BY <2>2, <2>3, FreeListTail DEF FreeLeft
<1>9. births' = births + 1 /\ births \in Nat /\ births' \in Nat /\ aliveCount' \in Nat
  BY CreateEffect DEF TypeOK
<1>10. born' \subseteq ((Indices' \X Generations) \X (1 .. births'))
  <2>1. born' = born \cup {<<<<Given, GivenGeneration>>, births + 1>>}
    BY CreateEffect
  <2>2. born \subseteq ((Indices \X Generations) \X (1 .. births))
    BY DEF TypeOK
  <2>3. 1 .. births \subseteq 1 .. births' /\ births + 1 \in 1 .. births'
    BY <1>9
  <2> QED BY <1>4, <1>5, <2>1, <2>2, <2>3
<1>11. DOMAIN stores' \subseteq Types \X Ids'
  <2>1. stores' = stores /\ Ids \subseteq Ids'
    BY CreateEffect DEF Ids
  <2> QED BY <2>1 DEF TypeOK
<1> QED BY <1>6, <1>7, <1>8, <1>9, <1>10, <1>11 DEF TypeOK

LEMMA TypeDestroy ==
  ASSUME TypeOK, FreeListIsExact, NEW id \in Ids, DestroyEntity(id)
  PROVE  TypeOK'
<1>1. CASE ~ IsAlive(id)
  <2>1. UNCHANGED ecsVars
    BY <1>1 DEF DestroyEntity, ecsVars
  <2> QED BY <2>1 DEF TypeOK, ecsVars, Indices, Ids
<1>2. CASE IsAlive(id)
  <2>1. /\ slots' = [slots EXCEPT ![id[1]] = [generation |-> NextGeneration(@.generation), alive |-> FALSE]]
        /\ Indices' = Indices
        /\ freeList' = Append(freeList, id[1])
        /\ aliveCount' = aliveCount - 1
        /\ stores' = [k \in {x \in DOMAIN stores : x[2] # id} |-> stores[k]]
        /\ born' = born /\ births' = births
    BY <1>2, DestroyEffect
  <2>2. id[1] \in Indices
    BY <1>2 DEF IsAlive
  <2>3. slots' \in [Indices' -> [generation : Generations, alive : BOOLEAN]]
    BY <2>1, <2>2, GenerationFacts DEF TypeOK
  <2>4. freeList' \in Seq(Indices')
    BY <2>1, <2>2 DEF TypeOK
  <2>5. aliveCount' \in Nat
    <3>1. PICK n \in 0 .. MaxSlots : Indices = 0 .. n - 1
      BY DEF TypeOK
    <3>2. IsFiniteSet(Indices)
      BY <3>1, FS_Interval, EcsAssumption
    <3>3. IsFiniteSet(Alive) /\ id[1] \in Alive
      BY <1>2, <3>2, FS_Subset DEF Alive, IsAlive
    <3>4. Cardinality(Alive) \in Nat /\ Cardinality(Alive) # 0
      BY <3>3, FS_CardinalityType, FS_EmptySet
    <3> QED BY <2>1, <3>4 DEF FreeListIsExact
  <2>6. DOMAIN stores' \subseteq Types \X Ids'
    BY <2>1 DEF TypeOK, Ids
  <2> QED BY <2>1, <2>3, <2>4, <2>5, <2>6 DEF TypeOK
<1> QED BY <1>1, <1>2

-----------------------------------------------------------------------------
(* Adding or removing a component touches nothing but the stores.          *)
LEMMA TypeComponents ==
  ASSUME TypeOK, NEW id \in Ids, NEW type \in Types,
         AddComponent(type, id) \/ RemoveComponent(type, id)
  PROVE  TypeOK'
<1>1. slots' = slots /\ freeList' = freeList /\ aliveCount' = aliveCount
      /\ born' = born /\ births' = births /\ Ids' = Ids /\ Indices' = Indices
  BY DEF AddComponent, RemoveComponent, Ids, Indices
<1>2. DOMAIN stores' \subseteq DOMAIN stores \cup {<<type, id>>}
  BY DEF AddComponent, RemoveComponent
<1>3. DOMAIN stores' \subseteq Types \X Ids'
  BY <1>1, <1>2 DEF TypeOK
<1> QED BY <1>1, <1>3 DEF TypeOK

-----------------------------------------------------------------------------
(* The slot given away was dead, and is the only one that leaves the list. *)
LEMMA FreeListCreate ==
  ASSUME TypeOK, FreeListIsExact, CreateEntity
  PROVE  FreeListIsExact' /\ Given \notin Alive
<1>1. PICK n \in 0 .. MaxSlots : Indices = 0 .. n - 1
  BY DEF TypeOK
<1> n \in Nat
  BY <1>1, EcsAssumption
<1>2. Fresh = n /\ n \notin Indices
  BY <1>1, FreshIsNext
<1>3. Indices' = Indices \cup {Given} /\ freeList' = FreeLeft /\ aliveCount' = aliveCount + 1
  BY CreateEffect
<1>4. Alive' = Alive \cup {Given}
  <2>1. /\ Indices' = Indices \cup {Given}
        /\ slots' = [j \in Indices \cup {Given} |->
              IF j = Given THEN [generation |-> GivenGeneration, alive |-> TRUE] ELSE slots[j]]
    BY CreateEffect
  <2>2. \A j \in Indices' : slots'[j].alive <=> j = Given \/ (j \in Indices /\ slots[j].alive)
    BY <2>1
  <2> QED BY <2>1, <2>2 DEF Alive
<1>5. Free = Indices \ Alive /\ \A j, m \in DOMAIN freeList : freeList[j] = freeList[m] => j = m
  BY DEF FreeListIsExact
<1>6. /\ Given \notin Alive
      /\ Free' = Indices' \ Alive'
      /\ \A j, m \in DOMAIN freeList' : freeList'[j] = freeList'[m] => j = m
  <2>1. CASE freeList = <<>>
    <3>1. Given = n /\ FreeLeft = freeList
      BY <1>2, <2>1 DEF Given, FreeLeft
    <3>2. Free' = Free
      BY <1>3, <3>1 DEF Free
    <3>3. n \notin Alive
      BY <1>2 DEF Alive
    <3> QED BY <1>2, <1>3, <1>4, <1>5, <3>1, <3>2, <3>3
  <2>2. CASE freeList # <<>>
    <3>1. /\ Len(freeList) \in Nat /\ Len(freeList) > 0
          /\ Given = freeList[Len(freeList)] /\ Given \in Indices
          /\ DOMAIN FreeLeft = 1 .. Len(freeList) - 1
          /\ \A k \in 1 .. Len(freeList) - 1 : FreeLeft[k] = freeList[k]
      BY <2>2, FreeListTail DEF TypeOK
    <3>2. DOMAIN freeList = 1 .. Len(freeList)
      BY DEF TypeOK
    <3> DEFINE len == Len(freeList)
    <3>3. Given \in Free
      BY <3>1, <3>2 DEF Free
    <3>4. Free' = Free \ {Given}
      <4>1. Free' = {freeList[k] : k \in 1 .. len - 1}
        BY <1>3, <3>1 DEF Free
      <4>2. Free = {freeList[k] : k \in 1 .. len - 1} \cup {Given}
        BY <3>1, <3>2 DEF Free
      <4>3. \A k \in 1 .. len - 1 : freeList[k] # Given
        BY <1>5, <3>1, <3>2
      <4> QED BY <4>1, <4>2, <4>3
    <3>5. \A j, m \in DOMAIN freeList' : freeList'[j] = freeList'[m] => j = m
      BY <1>3, <1>5, <3>1, <3>2
    <3> QED BY <1>3, <1>4, <1>5, <3>1, <3>3, <3>4, <3>5
  <2> QED BY <2>1, <2>2
<1>7. aliveCount' = Cardinality(Alive')
  <2>1. IsFiniteSet(Indices)
    BY <1>1, FS_Interval
  <2>2. IsFiniteSet(Alive)
    BY <2>1, FS_Subset DEF Alive
  <2> QED BY <1>3, <1>4, <1>6, <2>2, FS_AddElement DEF FreeListIsExact
<1> QED BY <1>6, <1>7 DEF FreeListIsExact

(* The slot of the destroyed entity was alive, so it was not on the list.  *)
LEMMA FreeListDestroy ==
  ASSUME TypeOK, FreeListIsExact, NEW id \in Ids, DestroyEntity(id)
  PROVE  FreeListIsExact'
<1>1. CASE ~ IsAlive(id)
  <2>1. UNCHANGED ecsVars
    BY <1>1 DEF DestroyEntity, ecsVars
  <2> QED BY <2>1 DEF FreeListIsExact, ecsVars, Indices, Alive, Free
<1>2. CASE IsAlive(id)
  <2> DEFINE i == id[1]
  <2>1. /\ slots' = [slots EXCEPT ![i] = [generation |-> NextGeneration(@.generation), alive |-> FALSE]]
        /\ Indices' = Indices
        /\ freeList' = Append(freeList, i)
        /\ aliveCount' = aliveCount - 1
    BY <1>2, DestroyEffect
  <2>2. i \in Indices /\ i \in Alive
    BY <1>2 DEF IsAlive, Alive
  <2> HIDE DEF i
  <2>3. Alive' = Alive \ {i}
    <3>1. \A j \in Indices : slots'[j].alive <=> j # i /\ slots[j].alive
      BY <2>1, <2>2 DEF TypeOK
    <3> QED BY <2>1, <3>1 DEF Alive
  <2>4. /\ Len(freeList) \in Nat
        /\ DOMAIN freeList = 1 .. Len(freeList)
        /\ DOMAIN freeList' = 1 .. Len(freeList) + 1
        /\ \A k \in 1 .. Len(freeList) : freeList'[k] = freeList[k]
        /\ freeList'[Len(freeList) + 1] = i
    BY <2>1, <2>2 DEF TypeOK
  <2>5. Free' = Free \cup {i} /\ i \notin Free
    BY <2>2, <2>4 DEF Free, FreeListIsExact
  <2>6. \A j, m \in DOMAIN freeList' : freeList'[j] = freeList'[m] => j = m
    <3>1. \A k \in 1 .. Len(freeList) : freeList[k] # i
      BY <2>4, <2>5 DEF Free
    <3> QED BY <2>4, <3>1 DEF FreeListIsExact
  <2>7. aliveCount' = Cardinality(Alive')
    <3>1. PICK n \in 0 .. MaxSlots : Indices = 0 .. n - 1
      BY DEF TypeOK
    <3>2. IsFiniteSet(Indices)
      BY <3>1, FS_Interval, EcsAssumption
    <3>3. IsFiniteSet(Alive)
      BY <3>2, FS_Subset DEF Alive
    <3> QED BY <2>1, <2>2, <2>3, <3>3, FS_RemoveElement DEF FreeListIsExact
  <2> QED BY <2>1, <2>2, <2>3, <2>5, <2>6, <2>7 DEF FreeListIsExact
<1> QED BY <1>1, <1>2

-----------------------------------------------------------------------------
(* The slots and the free list, step by step.                              *)
SlotsInv == TypeOK /\ FreeListIsExact

LEMMA SlotsInit == EcsInit => SlotsInv
<1> SUFFICES ASSUME EcsInit PROVE SlotsInv
  OBVIOUS
<1>1. /\ Indices = {} /\ freeList = <<>> /\ aliveCount = 0
      /\ born = {} /\ births = 0 /\ DOMAIN stores = {}
      /\ slots \in [Indices -> [generation : Generations, alive : BOOLEAN]]
  BY DEF EcsInit, Indices
<1>2. 0 \in 0 .. MaxSlots /\ Indices = 0 .. 0 - 1
  BY <1>1, EcsAssumption
<1>3. TypeOK
  BY <1>1, <1>2 DEF TypeOK
<1>4. Alive = {} /\ Free = {} /\ Cardinality(Alive) = 0
  BY <1>1, FS_EmptySet DEF Alive, Free
<1> QED BY <1>1, <1>3, <1>4 DEF SlotsInv, FreeListIsExact

LEMMA SlotsStep == SlotsInv /\ [EcsNext]_ecsVars => SlotsInv'
<1> SUFFICES ASSUME SlotsInv, [EcsNext]_ecsVars PROVE SlotsInv'
  OBVIOUS
<1> USE DEF SlotsInv
<1>1. CASE CreateEntity
  BY <1>1, TypeCreate, FreeListCreate
<1>2. ASSUME NEW id \in Ids, DestroyEntity(id) PROVE SlotsInv'
  BY <1>2, TypeDestroy, FreeListDestroy
<1>3. ASSUME NEW id \in Ids, NEW type \in Types,
             AddComponent(type, id) \/ RemoveComponent(type, id)
      PROVE  SlotsInv'
  <2>1. slots' = slots /\ freeList' = freeList /\ aliveCount' = aliveCount
    BY <1>3 DEF AddComponent, RemoveComponent
  <2>2. FreeListIsExact'
    BY <2>1 DEF FreeListIsExact, Free, Alive, Indices
  <2> QED BY <1>3, <2>2, TypeComponents
<1>4. CASE UNCHANGED ecsVars
  BY <1>4 DEF ecsVars, TypeOK, FreeListIsExact, Free, Alive, Indices, Ids
<1> QED BY <1>1, <1>2, <1>3, <1>4 DEF EcsNext

(* Slots, free list, stores and births keep their types.                   *)
THEOREM TypeCorrect == EcsSpec => []TypeOK
<1>1. SlotsInv => TypeOK
  BY DEF SlotsInv
<1> QED BY SlotsInit, SlotsStep, <1>1, PTL DEF EcsSpec

(* The free list holds each dead slot once, and the living are counted.    *)
THEOREM FreeListStaysExact == EcsSpec => []FreeListIsExact
<1>1. SlotsInv => FreeListIsExact
  BY DEF SlotsInv
<1> QED BY SlotsInit, SlotsStep, <1>1, PTL DEF EcsSpec

-----------------------------------------------------------------------------
(* The ids in born are pairs of a slot and a generation.                   *)
LEMMA IdsArePairs ==
  ASSUME TypeOK
  PROVE  Ids \subseteq Indices \X Generations
  BY DEF TypeOK, Ids

LEMMA ComponentsCreate ==
  ASSUME SlotsInv, ComponentsBelongToTheLiving, CreateEntity
  PROVE  ComponentsBelongToTheLiving'
<1> DEFINE new == <<<<Given, GivenGeneration>>, births + 1>>
<1>1. /\ stores' = stores /\ born' = born \cup {new}
      /\ Indices' = Indices \cup {Given}
      /\ slots' = [j \in Indices \cup {Given} |->
            IF j = Given THEN [generation |-> GivenGeneration, alive |-> TRUE] ELSE slots[j]]
  BY CreateEffect
<1>2. Given \notin Alive
  BY FreeListCreate DEF SlotsInv
<1> SUFFICES ASSUME NEW k \in DOMAIN stores
             PROVE  IsAlive(k[2])' /\ stores[k] = Latest(k[2])'
  BY <1>1 DEF ComponentsBelongToTheLiving
<1>3. IsAlive(k[2]) /\ stores[k] = Latest(k[2])
  BY DEF ComponentsBelongToTheLiving
<1>4. k[2][1] # Given
  BY <1>2, <1>3 DEF IsAlive, Alive
<1>5. IsAlive(k[2])'
  BY <1>1, <1>3, <1>4 DEF IsAlive
<1>6. {e \in born' : e[1] = k[2]} = {e \in born : e[1] = k[2]}
  BY <1>1, <1>4
<1>7. Latest(k[2])' = Latest(k[2])
  BY <1>6 DEF Latest
<1> QED BY <1>3, <1>5, <1>7

LEMMA ComponentsDestroy ==
  ASSUME SlotsInv, ComponentsBelongToTheLiving, NEW id \in Ids, DestroyEntity(id)
  PROVE  ComponentsBelongToTheLiving'
<1>1. CASE ~ IsAlive(id)
  <2>1. UNCHANGED ecsVars
    BY <1>1 DEF DestroyEntity, ecsVars
  <2> QED BY <2>1 DEF ComponentsBelongToTheLiving, ecsVars, Indices, IsAlive, Latest
<1>2. CASE IsAlive(id)
  <2>1. /\ slots' = [slots EXCEPT ![id[1]] = [generation |-> NextGeneration(@.generation), alive |-> FALSE]]
        /\ Indices' = Indices /\ born' = born
        /\ stores' = [k \in {x \in DOMAIN stores : x[2] # id} |-> stores[k]]
    BY <1>2, DestroyEffect
  <2>2. DOMAIN stores \subseteq Types \X Ids /\ Ids \subseteq Indices \X Generations
        /\ slots \in [Indices -> [generation : Generations, alive : BOOLEAN]]
    BY IdsArePairs DEF SlotsInv, TypeOK
  <2> SUFFICES ASSUME NEW k \in DOMAIN stores, k[2] # id
               PROVE  IsAlive(k[2])' /\ stores[k] = Latest(k[2])'
    BY <2>1 DEF ComponentsBelongToTheLiving
  <2>3. IsAlive(k[2]) /\ stores[k] = Latest(k[2])
    BY DEF ComponentsBelongToTheLiving
  <2>4. k[2] \in Indices \X Generations /\ id \in Indices \X Generations
    BY <2>2
  <2>5. k[2][1] # id[1]
    BY <1>2, <2>3, <2>4, OneLivingId
  <2>6. k[2][1] \in Indices /\ slots'[k[2][1]] = slots[k[2][1]]
    BY <2>1, <2>2, <2>4, <2>5
  <2>7. IsAlive(k[2])'
    BY <2>1, <2>3, <2>6 DEF IsAlive
  <2> QED BY <2>1, <2>3, <2>7 DEF Latest
<1> QED BY <1>1, <1>2

LEMMA ComponentsChange ==
  ASSUME SlotsInv, ComponentsBelongToTheLiving, NEW id \in Ids, NEW type \in Types,
         AddComponent(type, id) \/ RemoveComponent(type, id)
  PROVE  ComponentsBelongToTheLiving'
<1>1. slots' = slots /\ born' = born /\ Indices' = Indices
  BY DEF AddComponent, RemoveComponent, Indices
<1>2. \A any : IsAlive(any)' = IsAlive(any) /\ Latest(any)' = Latest(any)
  BY <1>1 DEF IsAlive, Latest
<1>3. CASE AddComponent(type, id)
  <2>1. /\ IsAlive(id)
        /\ stores' = [k \in DOMAIN stores \cup {<<type, id>>} |->
              IF k = <<type, id>> THEN Latest(id) ELSE stores[k]]
    BY <1>3 DEF AddComponent
  <2> SUFFICES ASSUME NEW k \in DOMAIN stores'
               PROVE  IsAlive(k[2]) /\ stores'[k] = Latest(k[2])
    BY <1>2 DEF ComponentsBelongToTheLiving
  <2>2. CASE k = <<type, id>>
    BY <2>1, <2>2
  <2>3. CASE k # <<type, id>>
    BY <2>1, <2>3 DEF ComponentsBelongToTheLiving
  <2> QED BY <2>2, <2>3
<1>4. CASE RemoveComponent(type, id)
  <2>1. stores' = [k \in DOMAIN stores \ {<<type, id>>} |-> stores[k]]
    BY <1>4 DEF RemoveComponent
  <2> QED BY <1>2, <2>1 DEF ComponentsBelongToTheLiving
<1> QED BY <1>3, <1>4

(* Every component belongs to the living entity it was added to.           *)
THEOREM ComponentsStayWithTheirEntity == EcsSpec => []ComponentsBelongToTheLiving
<1>1. EcsInit => ComponentsBelongToTheLiving
  BY DEF EcsInit, ComponentsBelongToTheLiving
<1>2. SlotsInv /\ ComponentsBelongToTheLiving /\ [EcsNext]_ecsVars => ComponentsBelongToTheLiving'
  <2> SUFFICES ASSUME SlotsInv, ComponentsBelongToTheLiving, [EcsNext]_ecsVars
               PROVE  ComponentsBelongToTheLiving'
    OBVIOUS
  <2>1. CASE UNCHANGED ecsVars
    BY <2>1 DEF ComponentsBelongToTheLiving, ecsVars, Indices, IsAlive, Latest
  <2> QED BY <2>1, ComponentsCreate, ComponentsDestroy, ComponentsChange DEF EcsNext
<1> QED BY SlotsInit, SlotsStep, <1>1, <1>2, PTL DEF EcsSpec

-----------------------------------------------------------------------------
(* The c-th owner of a slot has generation c, modulo the number of them.   *)
Counts(c, g) == \E q \in Nat : c = q * GenerationModulus + g
OwnersOf(i) == {e \in born : e[1][1] = i}
Owned(i) == Cardinality(OwnersOf(i))

(* ... which is what every entity's id says, and every slot's generation:  *)
(* of its owner, or of the next one.                                       *)
SerialInv ==
  /\ IsFiniteSet(born)
  /\ \A e \in born : Counts(Cardinality(Before(e)) + 1, e[1][2])
  /\ \A i \in Indices :
       Counts(IF slots[i].alive THEN Owned(i) ELSE Owned(i) + 1, slots[i].generation)
  /\ \A e \in born : e[1][1] \in Indices

LEMMA CountsNext ==
  ASSUME NEW c \in Nat, NEW g \in Generations, Counts(c, g)
  PROVE  Counts(c + 1, NextGeneration(g))
<1>1. PICK q \in Nat : c = q * GenerationModulus + g
  BY DEF Counts
<1>2. GenerationModulus \in Nat /\ g \in Nat
  BY GenerationFacts DEF Generations
<1>3. CASE g = GenerationModulus - 1
  <2>1. NextGeneration(g) = 0
    BY <1>3 DEF NextGeneration
  <2>2. c + 1 = (q + 1) * GenerationModulus + 0
    <3>1. (q + 1) * GenerationModulus = (q * GenerationModulus) + GenerationModulus
      BY <1>2
    <3>2. q * GenerationModulus \in Nat
      BY <1>2
    <3> DEFINE p == q * GenerationModulus
    <3>3. c = p + g /\ (q + 1) * GenerationModulus = p + GenerationModulus /\ p \in Nat
      BY <1>1, <3>1, <3>2
    <3> HIDE DEF p
    <3> QED BY <1>2, <1>3, <3>3
  <2> QED BY <2>1, <2>2 DEF Counts
<1>4. CASE g # GenerationModulus - 1
  <2>1. NextGeneration(g) = g + 1
    BY <1>4 DEF NextGeneration
  <2> DEFINE p == q * GenerationModulus
  <2>2. p \in Nat /\ c = p + g
    BY <1>1, <1>2
  <2> HIDE DEF p
  <2>3. c + 1 = p + (g + 1)
    BY <1>2, <2>2
  <2> QED BY <2>1, <2>3 DEF Counts, p
<1> QED BY <1>3, <1>4

(* Two counts under one generation are whole rounds apart.                 *)
LEMMA RoundsApart ==
  ASSUME NEW c \in Nat, NEW d \in Nat, NEW g \in Nat, c < d, Counts(c, g), Counts(d, g)
  PROVE  d - c >= GenerationModulus
<1>1. PICK p \in Nat : c = p * GenerationModulus + g
  BY DEF Counts
<1>2. PICK q \in Nat : d = q * GenerationModulus + g
  BY DEF Counts
<1> DEFINE M == GenerationModulus
<1>3. M \in Nat /\ M > 0
  BY GenerationFacts
<1> HIDE DEF M
<1>4. c = p * M + g /\ d = q * M + g
  BY <1>1, <1>2 DEF M
<1>5. p * M \in Nat /\ q * M \in Nat /\ p * M < q * M
  <2>1. p * M \in Nat /\ q * M \in Nat
    BY <1>3
  <2> QED BY <1>4, <2>1
<1>6. p < q
  <2>1. ASSUME q <= p PROVE q * M <= p * M
    <3>1. p = q + (p - q) /\ p - q \in Nat
      BY <2>1
    <3>2. p * M = (q * M) + ((p - q) * M)
      BY <1>3, <3>1
    <3>3. (p - q) * M \in Nat
      BY <1>3, <3>1
    <3> QED BY <1>5, <3>2, <3>3
  <2> QED BY <1>5, <2>1
<1>7. (q * M) = (p * M) + ((q - p) * M)
  BY <1>3
<1>8. (q - p) * M >= M
  <2>1. q - p - 1 \in Nat
    BY <1>6
  <2>2. (q - p) * M = ((q - p - 1) * M) + M
    BY <1>3
  <2>3. (q - p - 1) * M \in Nat
    BY <1>3, <2>1
  <2> QED BY <1>3, <2>2, <2>3
<1>9. (q - p) * M \in Int
  BY <1>3
<1>10. d - c = (q - p) * M
  BY <1>4, <1>5, <1>7, <1>9
<1> QED BY <1>8, <1>10 DEF M

(* Two owners under one id: in between, all generations were used.         *)
LEMMA SerialsImplyStaleness == TypeOK /\ SerialInv => StaleIdsStayDead
<1> SUFFICES ASSUME TypeOK, SerialInv,
                    NEW e \in born, NEW f \in born, e[1] = f[1], e[2] < f[2]
             PROVE  Cardinality(Reuses(e, f)) >= GenerationModulus
  BY DEF StaleIdsStayDead
<1>1. /\ e[1][2] \in Generations
      /\ \A g \in born : g[2] \in Nat
  BY DEF TypeOK
<1>2. Before(e) \subseteq Before(f) /\ e \in Before(f) /\ e \notin Before(e)
  BY <1>1 DEF Before
<1>3. IsFiniteSet(Before(e)) /\ IsFiniteSet(Before(f))
  BY FS_Subset DEF SerialInv, Before
<1> DEFINE c == Cardinality(Before(e))
           d == Cardinality(Before(f))
<1>4. c \in Nat /\ d \in Nat
  BY <1>3, FS_CardinalityType
<1>5. c <= d /\ c # d
  BY <1>2, <1>3, FS_Subset
<1>6. Counts(c + 1, e[1][2]) /\ Counts(d + 1, e[1][2])
  BY DEF SerialInv
<1>7. Cardinality(Reuses(e, f)) = d - c
  <2>1. Cardinality(Before(f) \ Before(e)) = d - Cardinality(Before(f) \cap Before(e))
    BY <1>3, FS_Difference
  <2>2. Before(f) \cap Before(e) = Before(e)
    BY <1>2
  <2> QED BY <2>1, <2>2 DEF Reuses
<1> HIDE DEF c, d
<1>8. e[1][2] \in Nat
  BY <1>1, GenerationFacts DEF Generations
<1>9. (d + 1) - (c + 1) >= GenerationModulus
  BY <1>4, <1>5, <1>6, <1>8, RoundsApart
<1> QED BY <1>4, <1>7, <1>9

LEMMA OwnersAreFinite ==
  ASSUME SerialInv, NEW i
  PROVE  IsFiniteSet(OwnersOf(i)) /\ Owned(i) \in Nat
<1>1. OwnersOf(i) \subseteq born
  BY DEF OwnersOf
<1>2. IsFiniteSet(OwnersOf(i))
  BY <1>1, FS_Subset DEF SerialInv
<1> QED BY <1>2, FS_CardinalityType DEF Owned

LEMMA SerialInit == EcsInit => SerialInv
  BY FS_EmptySet DEF EcsInit, SerialInv, Indices

LEMMA SerialCreate ==
  ASSUME SlotsInv, SerialInv, CreateEntity
  PROVE  SerialInv'
<1>0. PICK new : new = <<<<Given, GivenGeneration>>, births + 1>>
  OBVIOUS
<1>1. /\ born' = born \cup {new}
      /\ Indices' = Indices \cup {Given}
      /\ slots' = [j \in Indices \cup {Given} |->
            IF j = Given THEN [generation |-> GivenGeneration, alive |-> TRUE] ELSE slots[j]]
  BY <1>0, CreateEffect
<1>2. /\ births \in Nat
      /\ \A e \in born : e[2] \in 1 .. births
      /\ \A e \in born : e = <<<<e[1][1], e[1][2]>>, e[2]>>
  BY DEF SlotsInv, TypeOK
<1>3. new[2] = births + 1 /\ new[1][1] = Given /\ new[1][2] = GivenGeneration
  BY <1>0
<1>4. new \notin born
  BY <1>2, <1>3
<1>5. IsFiniteSet(born')
  BY <1>1, FS_AddElement DEF SerialInv
<1>7. \A e \in born : Before(e)' = Before(e)
  BY <1>1, <1>2, <1>3 DEF Before
<1>8. Before(new)' = OwnersOf(Given)
  <2>1. Before(new)' = {g \in born' : g[1][1] = Given /\ g[2] < births + 1}
    BY <1>3 DEF Before
  <2> QED BY <1>1, <1>2, <1>3, <2>1 DEF OwnersOf
<1>9. Counts(Owned(Given) + 1, GivenGeneration)
  <2>1. CASE Given \in Indices
    <3>1. ~ slots[Given].alive
      BY <2>1, FreeListCreate DEF SlotsInv, Alive
    <3> QED BY <2>1, <3>1 DEF SerialInv, GivenGeneration
  <2>2. CASE Given \notin Indices
    <3>1. OwnersOf(Given) = {}
      BY <2>2 DEF SerialInv, OwnersOf
    <3>2. Owned(Given) = 0 /\ GivenGeneration = 1
      BY <2>2, <3>1, FS_EmptySet DEF Owned, GivenGeneration
    <3>3. 0 + 1 = 0 * GenerationModulus + 1 /\ 0 \in Nat
      BY GenerationFacts
    <3> QED BY <3>2, <3>3 DEF Counts
  <2> QED BY <2>1, <2>2
<1>10. \A e \in born' : Counts(Cardinality(Before(e)') + 1, e[1][2])
  BY <1>1, <1>3, <1>7, <1>8, <1>9 DEF SerialInv, Owned
<1>11. \A i : OwnersOf(i)' = IF i = Given THEN OwnersOf(i) \cup {new} ELSE OwnersOf(i)
  BY <1>1, <1>3 DEF OwnersOf
<1>12. \A i : Owned(i)' = IF i = Given THEN Owned(i) + 1 ELSE Owned(i)
  <2> SUFFICES ASSUME NEW i
               PROVE  Owned(i)' = IF i = Given THEN Owned(i) + 1 ELSE Owned(i)
    OBVIOUS
  <2>1. new \notin OwnersOf(i)
    BY <1>4 DEF OwnersOf
  <2> QED BY <1>11, <2>1, OwnersAreFinite, FS_AddElement DEF Owned
<1>13. \A i \in Indices' :
         Counts(IF slots'[i].alive THEN Owned(i)' ELSE Owned(i)' + 1, slots'[i].generation)
  <2> SUFFICES ASSUME NEW i \in Indices'
               PROVE  Counts(IF slots'[i].alive THEN Owned(i)' ELSE Owned(i)' + 1, slots'[i].generation)
    OBVIOUS
  <2>1. CASE i = Given
    <3>1. slots'[i].alive /\ slots'[i].generation = GivenGeneration
      BY <1>1, <2>1
    <3> QED BY <1>9, <1>12, <2>1, <3>1
  <2>2. CASE i # Given
    <3>1. i \in Indices /\ slots'[i] = slots[i] /\ Owned(i)' = Owned(i)
      BY <1>1, <1>12, <2>2
    <3> QED BY <3>1 DEF SerialInv
  <2> QED BY <2>1, <2>2
<1>14. \A e \in born' : e[1][1] \in Indices'
  BY <1>1, <1>3 DEF SerialInv
<1> QED BY <1>5, <1>10, <1>13, <1>14 DEF SerialInv, Counts

(* Destroying an entity hands the slot's generation to the next owner.     *)
LEMMA SerialDestroy ==
  ASSUME SlotsInv, SerialInv, NEW id \in Ids, DestroyEntity(id)
  PROVE  SerialInv'
<1>1. CASE ~ IsAlive(id)
  <2>1. UNCHANGED ecsVars
    BY <1>1 DEF DestroyEntity, ecsVars
  <2> QED BY <2>1 DEF ecsVars, SerialInv, Indices, Owned, OwnersOf, Before
<1>2. CASE IsAlive(id)
  <2> DEFINE i == id[1]
  <2>1. /\ slots' = [slots EXCEPT ![i] = [generation |-> NextGeneration(@.generation), alive |-> FALSE]]
        /\ Indices' = Indices /\ born' = born
    BY <1>2, DestroyEffect
  <2>2. i \in Indices /\ slots[i].alive
    BY <1>2 DEF IsAlive
  <2>3. slots \in [Indices -> [generation : Generations, alive : BOOLEAN]]
    BY DEF SlotsInv, TypeOK
  <2> HIDE DEF i
  <2>4. slots[i].generation \in Generations
    BY <2>2, <2>3
  <2>5. Counts(Owned(i), slots[i].generation)
    BY <2>2 DEF SerialInv
  <2>6. Counts(Owned(i) + 1, NextGeneration(slots[i].generation))
    BY <2>4, <2>5, CountsNext, OwnersAreFinite
  <2>7. \A j : Owned(j)' = Owned(j)
    BY <2>1 DEF Owned, OwnersOf
  <2>8. \A j \in Indices' :
          Counts(IF slots'[j].alive THEN Owned(j)' ELSE Owned(j)' + 1, slots'[j].generation)
    <3> SUFFICES ASSUME NEW j \in Indices
                 PROVE  Counts(IF slots'[j].alive THEN Owned(j) ELSE Owned(j) + 1, slots'[j].generation)
      BY <2>1, <2>7
    <3>1. CASE j = i
      <4>1. ~ slots'[j].alive /\ slots'[j].generation = NextGeneration(slots[i].generation)
        BY <2>1, <2>2, <2>3, <3>1
      <4> QED BY <2>6, <3>1, <4>1
    <3>2. CASE j # i
      <4>1. slots'[j] = slots[j]
        BY <2>1, <2>3, <3>2
      <4> QED BY <4>1 DEF SerialInv
    <3> QED BY <3>1, <3>2
  <2> QED BY <2>1, <2>8 DEF SerialInv, Counts, Before
<1> QED BY <1>1, <1>2

LEMMA SerialStep == SlotsInv /\ SerialInv /\ [EcsNext]_ecsVars => SerialInv'
<1> SUFFICES ASSUME SlotsInv, SerialInv, [EcsNext]_ecsVars PROVE SerialInv'
  OBVIOUS
<1>1. ASSUME slots' = slots, born' = born PROVE SerialInv'
  BY <1>1 DEF SerialInv, Indices, Owned, OwnersOf, Before
<1>2. ASSUME NEW id \in Ids, NEW type \in Types,
             AddComponent(type, id) \/ RemoveComponent(type, id)
      PROVE  SerialInv'
  BY <1>1, <1>2 DEF AddComponent, RemoveComponent
<1>3. CASE UNCHANGED ecsVars
  BY <1>1, <1>3 DEF ecsVars
<1> QED BY <1>2, <1>3, SerialCreate, SerialDestroy DEF EcsNext

(* A destroyed entity's id names no other entity before its slot was       *)
(* reused through all the generations there are.                           *)
THEOREM StaleIdsNeverRevive == EcsSpec => []StaleIdsStayDead
<1>1. SlotsInv /\ SerialInv => StaleIdsStayDead
  BY SerialsImplyStaleness DEF SlotsInv
<1> QED BY SlotsInit, SlotsStep, SerialInit, SerialStep, <1>1, PTL DEF EcsSpec

-----------------------------------------------------------------------------
(***************************************************************************)
(* The registry of configurations.                                         *)
(***************************************************************************)
DiskType == disk \in [Files -> [contents : Contents, stamp : Nat]]
EntryType == [path : Paths, document : SUBSET Documents, loaded : BOOLEAN]
TrackedType == [path : Paths, seen : Nat]
ConfigTypes ==
  /\ DiskType /\ writes \in Nat
  /\ \A n \in DOMAIN entries : entries[n] \in EntryType
  /\ DOMAIN tracked \subseteq Files
  /\ \A f \in DOMAIN tracked : tracked[f] \in TrackedType

(* Stamps grow, and none was seen before it was there.                     *)
StampsGrow ==
  /\ \A f \in Files : disk[f].stamp <= writes + 1
  /\ \A f \in DOMAIN tracked : tracked[f].seen <= Stamp(f)

(* Two names of a file make it shared; an unshared file is tracked under   *)
(* the path of its name.                                                   *)
SharedIsKnown ==
  \A n, m \in DOMAIN entries : n # m /\ FileAt(n) = FileAt(m) => FileAt(n) \in shared
Follows(n) ==
  /\ FileAt(n) \in DOMAIN tracked
  /\ tracked[FileAt(n)].path = entries[n].path
AllFollow == \A n \in DOMAIN entries : FileAt(n) \notin shared => Follows(n)

(* A stale document's file shows another stamp than the one seen, was      *)
(* already found changed, or is about to be read.                          *)
Noticed(n) ==
  \/ Found(n) = Parsed(FileAt(n))
  \/ Follows(n) /\ tracked[FileAt(n)].seen # Stamp(FileAt(n))
  \/ n \in toRead
  \/ at = "scanning" /\ entries[n].path \in changed
AllNoticed == \A n \in DOMAIN entries : FileAt(n) \notin shared => Noticed(n)

Phases == /\ at \in {"idle", "scanning"} => toRead = {}
          /\ toRead \subseteq DOMAIN entries

ConfigInv ==
  /\ ConfigTypes /\ StampsGrow /\ SharedIsKnown /\ AllFollow /\ AllNoticed /\ Phases

LEMMA StampType ==
  ASSUME DiskType, NEW f \in Files
  PROVE  Stamp(f) \in Nat /\ disk[f].contents \in Contents /\ disk[f].stamp \in Nat
  BY DEF DiskType, Stamp

LEMMA FileType ==
  ASSUME ConfigTypes, NEW n \in DOMAIN entries
  PROVE  FileAt(n) \in Files /\ entries[n].path \in Paths
  BY PathsAssumption DEF ConfigTypes, EntryType, FileAt

-----------------------------------------------------------------------------
LEMMA ConfigStarts == ConfigInit => ConfigInv
<1> SUFFICES ASSUME ConfigInit PROVE ConfigInv
  OBVIOUS
<1>1. disk \in [Files -> {[contents |-> c, stamp |-> 1] : c \in Contents}]
  BY DEF ConfigInit
<1>2. DiskType /\ \A f \in Files : disk[f].stamp = 1
  BY <1>1 DEF DiskType
<1>3. writes = 0 /\ DOMAIN entries = {} /\ DOMAIN tracked = {} /\ toRead = {}
  BY DEF ConfigInit
<1> QED BY <1>2, <1>3 DEF ConfigInv, ConfigTypes, StampsGrow, SharedIsKnown, AllFollow, AllNoticed, Phases

(* A write gives its file a stamp nobody has seen.                         *)
LEMMA ConfigWrite ==
  ASSUME ConfigInv, NEW f \in Files, NEW c \in Written, Absent \notin Written, Write(f, c)
  PROVE  ConfigInv'
<1>1. /\ disk' = [disk EXCEPT ![f] = [contents |-> c, stamp |-> writes + 2]]
      /\ writes' = writes + 1
      /\ entries' = entries /\ tracked' = tracked /\ toRead' = toRead
      /\ at' = at /\ changed' = changed /\ shared' = shared
  BY DEF Write
<1>2. c \in Contents /\ c # Absent
  BY WrittenAssumption
<1>3. /\ disk' \in [Files -> [contents : Contents, stamp : Nat]]
      /\ disk'[f] = [contents |-> c, stamp |-> writes + 2]
      /\ \A g \in Files \ {f} : disk'[g] = disk[g]
  BY <1>1, <1>2 DEF ConfigInv, ConfigTypes, DiskType
<1>4. Stamp(f)' = writes + 2 /\ \A g \in Files \ {f} : Stamp(g)' = Stamp(g)
  BY <1>2, <1>3 DEF Stamp
<1>5. ConfigTypes'
  BY <1>1, <1>3 DEF ConfigInv, ConfigTypes, DiskType
<1>6. \A g \in Files : Stamp(g) <= writes + 1 /\ Stamp(g) \in Nat
  <2> SUFFICES ASSUME NEW g \in Files PROVE Stamp(g) <= writes + 1 /\ Stamp(g) \in Nat
    OBVIOUS
  <2>1. disk[g].stamp <= writes + 1 /\ writes \in Nat
    BY DEF ConfigInv, StampsGrow, ConfigTypes
  <2>2. Stamp(g) \in Nat
    BY StampType DEF ConfigInv, ConfigTypes
  <2>3. Stamp(g) = 0 \/ Stamp(g) = disk[g].stamp
    BY DEF Stamp
  <2> QED BY <2>1, <2>2, <2>3
<1>7. \A g \in DOMAIN tracked :
        tracked[g].seen \in Nat /\ tracked[g].seen <= Stamp(g) /\ g \in Files
  BY DEF ConfigInv, StampsGrow, ConfigTypes, TrackedType
<1>8. writes \in Nat
  BY DEF ConfigInv, ConfigTypes
<1>9. StampsGrow'
  <2>1. \A g \in Files : disk'[g].stamp <= writes' + 1
    <3> SUFFICES ASSUME NEW g \in Files PROVE disk'[g].stamp <= writes' + 1
      OBVIOUS
    <3>1. disk[g].stamp <= writes + 1 /\ disk[g].stamp \in Nat
      BY StampType DEF ConfigInv, StampsGrow, ConfigTypes
    <3> QED BY <1>1, <1>3, <1>8, <3>1
  <2>2. \A g \in DOMAIN tracked' : tracked'[g].seen <= Stamp(g)'
    BY <1>1, <1>4, <1>6, <1>7, <1>8
  <2> QED BY <2>1, <2>2 DEF StampsGrow
<1>10. SharedIsKnown' /\ AllFollow' /\ Phases'
  BY <1>1 DEF ConfigInv, SharedIsKnown, AllFollow, Follows, FileAt, Phases
<1>11. AllNoticed'
  <2> SUFFICES ASSUME NEW n \in DOMAIN entries, FileAt(n) \notin shared
               PROVE  Noticed(n)'
    BY <1>1 DEF AllNoticed, FileAt
  <2>1. Noticed(n) /\ Follows(n) /\ FileAt(n) \in Files
    BY FileType DEF ConfigInv, AllNoticed, AllFollow
  <2>2. FileAt(n)' = FileAt(n) /\ Found(n)' = Found(n) /\ Follows(n)' = Follows(n)
    BY <1>1 DEF FileAt, Found, Follows
  <2>3. CASE FileAt(n) = f
    <3>1. tracked[f].seen # Stamp(f)'
      BY <1>4, <1>6, <1>7, <1>8, <2>1, <2>3 DEF Follows
    <3> QED BY <1>1, <2>1, <2>2, <2>3, <3>1 DEF Noticed
  <2>4. CASE FileAt(n) # f
    <3>1. Stamp(FileAt(n))' = Stamp(FileAt(n)) /\ Parsed(FileAt(n))' = Parsed(FileAt(n))
      <4> PICK g \in Files : g = FileAt(n) /\ g # f
        BY <2>1, <2>4
      <4>1. Stamp(g)' = Stamp(g) /\ Parsed(g)' = Parsed(g)
        BY <1>3, <1>4 DEF Parsed
      <4> QED BY <2>2, <4>1 DEF Stamp, Parsed
    <3> QED BY <1>1, <2>1, <2>2, <3>1 DEF Noticed
  <2> QED BY <2>3, <2>4
<1> QED BY <1>5, <1>9, <1>10, <1>11 DEF ConfigInv

(* Watching stamps the file and will read it; another name's file that     *)
(* loses its stamp is shared from then on.                                 *)
LEMMA ConfigWatch ==
  ASSUME ConfigInv, NEW n \in Names, NEW p \in Paths, WatchJson(n, p)
  PROVE  ConfigInv'
<1> DEFINE f == FileOf[p]
<1>1. /\ entries' = [m \in DOMAIN entries \cup {n} |-> IF m = n THEN Entry(p) ELSE entries[m]]
      /\ tracked' = [g \in DOMAIN tracked \cup {f} |->
            IF g = f THEN [path |-> p, seen |-> Stamp(f)] ELSE tracked[g]]
      /\ toRead' = {n} /\ at' = "watching" /\ shared' = Sharing(n, p)
      /\ disk' = disk /\ writes' = writes /\ at = "idle"
  BY DEF WatchJson, Named, Tracked
<1>2. f \in Files /\ Stamp(f) \in Nat
  BY PathsAssumption, StampType DEF ConfigInv, ConfigTypes
<1>3. /\ DOMAIN entries' = DOMAIN entries \cup {n}
      /\ entries'[n] = Entry(p)
      /\ \A m \in DOMAIN entries \ {n} : entries'[m] = entries[m]
  BY <1>1
<1>4. FileAt(n)' = f /\ \A m \in DOMAIN entries \ {n} : FileAt(m)' = FileAt(m)
  BY <1>3 DEF FileAt, Entry
<1>5. shared \subseteq shared'
      /\ \A m \in DOMAIN entries \ {n} : FileAt(m) = f => f \in shared'
  BY <1>1 DEF Sharing, FileAt
<1> HIDE DEF f
<1>6. \A g \in Files : Stamp(g)' = Stamp(g)
  BY <1>1 DEF Stamp
<1>7. ConfigTypes'
  <2>1. \A m \in DOMAIN entries' : entries'[m] \in EntryType
    <3>1. entries'[n] \in EntryType
      BY <1>3 DEF Entry, EntryType, None
    <3> QED BY <1>3, <3>1 DEF ConfigInv, ConfigTypes
  <2>2. /\ DOMAIN tracked' \subseteq Files
        /\ \A g \in DOMAIN tracked' : tracked'[g] \in TrackedType
    BY <1>1, <1>2 DEF ConfigInv, ConfigTypes, TrackedType
  <2> QED BY <1>1, <2>1, <2>2 DEF ConfigInv, ConfigTypes, DiskType
<1>8. StampsGrow'
  <2>1. \A g \in DOMAIN tracked' : tracked'[g].seen <= Stamp(g)
    BY <1>1, <1>2 DEF ConfigInv, StampsGrow
  <2>2. DOMAIN tracked' \subseteq Files
    BY <1>7 DEF ConfigTypes
  <2> QED BY <1>1, <1>6, <2>1, <2>2 DEF ConfigInv, StampsGrow
<1>9. SharedIsKnown'
  BY <1>3, <1>4, <1>5 DEF ConfigInv, SharedIsKnown
<1>10. Follows(n)'
  BY <1>1, <1>3, <1>4 DEF Follows, Entry
<1>11. ASSUME NEW m \in DOMAIN entries \ {n}, FileAt(m) \notin shared'
       PROVE  /\ FileAt(m) # f /\ FileAt(m) \notin shared /\ FileAt(m) \in Files
              /\ Follows(m) /\ Follows(m)'
  <2>1. FileAt(m) # f /\ FileAt(m) \notin shared /\ FileAt(m) \in Files
    BY <1>5, <1>11, FileType DEF ConfigInv
  <2>2. Follows(m)
    BY <2>1 DEF ConfigInv, AllFollow
  <2> QED BY <1>1, <1>3, <1>4, <2>1, <2>2 DEF Follows
<1>12. AllFollow'
  BY <1>3, <1>4, <1>10, <1>11 DEF AllFollow
<1>13. AllNoticed'
  <2> SUFFICES ASSUME NEW m \in DOMAIN entries \ {n}, FileAt(m) \notin shared'
               PROVE  Noticed(m)'
    BY <1>1, <1>3, <1>4 DEF AllNoticed, Noticed
  <2>1. Noticed(m) /\ m \notin toRead
    BY <1>1, <1>11 DEF ConfigInv, AllNoticed, Phases
  <2>2. Found(m)' = Found(m) /\ Parsed(FileAt(m)') = Parsed(FileAt(m))
    BY <1>3, <1>4 DEF Found
  <2>3. Parsed(FileAt(m))' = Parsed(FileAt(m))
    BY <1>1, <1>4 DEF Parsed
  <2>4. Stamp(FileAt(m))' = Stamp(FileAt(m))
    BY <1>1, <1>4 DEF Stamp
  <2>5. tracked'[FileAt(m)] = tracked[FileAt(m)]
    BY <1>1, <1>11 DEF Follows
  <2> QED BY <1>1, <1>4, <1>11, <2>1, <2>2, <2>3, <2>4, <2>5 DEF Noticed
<1>14. Phases'
  BY <1>1 DEF Phases
<1> QED BY <1>7, <1>8, <1>9, <1>12, <1>13, <1>14 DEF ConfigInv

(* A name that goes takes its file's stamp with it: no other unshared name *)
(* has that file.                                                          *)
LEMMA ConfigUnwatch ==
  ASSUME ConfigInv, NEW n \in Names, Unwatch(n)
  PROVE  ConfigInv'
<1>1. /\ n \in DOMAIN entries
      /\ tracked' = [g \in DOMAIN tracked \ {FileAt(n)} |-> tracked[g]]
      /\ entries' = [m \in DOMAIN entries \ {n} |-> entries[m]]
      /\ disk' = disk /\ writes' = writes /\ toRead' = toRead /\ changed' = changed
      /\ at' = at /\ shared' = shared /\ at = "idle"
  BY DEF Unwatch, FileAt
<1>2. \A m \in DOMAIN entries' :
        /\ m \in DOMAIN entries /\ m # n /\ entries'[m] = entries[m]
        /\ FileAt(m)' = FileAt(m) /\ Found(m)' = Found(m)
  BY <1>1 DEF FileAt, Found
<1>3. /\ DOMAIN tracked' = DOMAIN tracked \ {FileAt(n)}
      /\ \A g \in DOMAIN tracked' : tracked'[g] = tracked[g]
  BY <1>1
<1>4. ConfigTypes'
  BY <1>1, <1>2, <1>3 DEF ConfigInv, ConfigTypes, DiskType
<1>5. StampsGrow'
  BY <1>1, <1>3 DEF ConfigInv, StampsGrow, Stamp
<1>6. SharedIsKnown' /\ Phases'
  BY <1>1, <1>2 DEF ConfigInv, SharedIsKnown, Phases
<1>7. ASSUME NEW m \in DOMAIN entries', FileAt(m) \notin shared
      PROVE  Follows(m)' /\ Noticed(m)'
  <2>1. FileAt(m) # FileAt(n)
    BY <1>1, <1>2, <1>7 DEF ConfigInv, SharedIsKnown
  <2>2. Follows(m) /\ Noticed(m) /\ m \notin toRead
    BY <1>1, <1>2, <1>7 DEF ConfigInv, AllFollow, AllNoticed, Phases
  <2>3. tracked'[FileAt(m)] = tracked[FileAt(m)] /\ FileAt(m) \in DOMAIN tracked'
    BY <1>3, <2>1, <2>2 DEF Follows
  <2>4. Follows(m)'
    BY <1>2, <2>2, <2>3 DEF Follows
  <2>5. Parsed(FileAt(m))' = Parsed(FileAt(m)) /\ Stamp(FileAt(m))' = Stamp(FileAt(m))
    BY <1>1, <1>2 DEF Parsed, Stamp
  <2> QED BY <1>1, <1>2, <2>2, <2>3, <2>4, <2>5 DEF Noticed
<1>8. AllFollow' /\ AllNoticed'
  BY <1>1, <1>2, <1>7 DEF AllFollow, AllNoticed
<1> QED BY <1>4, <1>5, <1>6, <1>8 DEF ConfigInv

(* What was read is what the file holds.                                   *)
LEMMA ConfigRead ==
  ASSUME ConfigInv, NEW n \in DOMAIN entries, Read(n)
  PROVE  ConfigInv'
<1> DEFINE c == disk[FileAt(n)].contents
<1>1. /\ n \in toRead
      /\ entries' = [entries EXCEPT ![n] = Reread(entries[n], c)]
      /\ toRead' = toRead \ {n}
      /\ at' = IF toRead = {n} THEN "idle" ELSE at
      /\ disk' = disk /\ writes' = writes /\ tracked' = tracked /\ changed' = changed
      /\ shared' = shared
  BY DEF Read, FileAt
<1>2. entries[n] \in EntryType
  BY DEF ConfigInv, ConfigTypes
<1>3. LET e == Reread(entries[n], c) IN
        /\ e \in EntryType /\ e.path = entries[n].path
        /\ (IF e.loaded THEN e.document ELSE None) = {c} \cap Documents
  BY <1>2 DEF Reread, EntryType, None
<1>4. /\ DOMAIN entries' = DOMAIN entries
      /\ entries'[n] = Reread(entries[n], c)
      /\ \A m \in DOMAIN entries \ {n} : entries'[m] = entries[m]
  BY <1>1
<1>5. \A m \in DOMAIN entries : entries'[m].path = entries[m].path
  BY <1>3, <1>4
<1>6. \A m \in DOMAIN entries : FileAt(m)' = FileAt(m)
  BY <1>5 DEF FileAt
<1>7. Found(n)' = Parsed(FileAt(n))'
  BY <1>1, <1>3, <1>4, <1>6 DEF Found, Parsed
<1> HIDE DEF c
<1>8. ConfigTypes'
  BY <1>1, <1>3, <1>4 DEF ConfigInv, ConfigTypes, DiskType
<1>9. StampsGrow'
  BY <1>1 DEF ConfigInv, StampsGrow, Stamp
<1>10. SharedIsKnown' /\ AllFollow'
  BY <1>1, <1>4, <1>5, <1>6 DEF ConfigInv, SharedIsKnown, AllFollow, Follows
<1>11. at \notin {"idle", "scanning"} /\ Phases'
  BY <1>1 DEF ConfigInv, Phases
<1>12. AllNoticed'
  <2> SUFFICES ASSUME NEW m \in DOMAIN entries, m # n, FileAt(m) \notin shared
               PROVE  Noticed(m)'
    BY <1>1, <1>4, <1>6, <1>7 DEF AllNoticed, Noticed
  <2>1. Noticed(m)
    BY DEF ConfigInv, AllNoticed
  <2>2. entries'[m] = entries[m]
    BY <1>4
  <2>3. Found(m)' = Found(m) /\ FileAt(m)' = FileAt(m) /\ Follows(m)' = Follows(m)
    BY <1>1, <1>6, <2>2 DEF Found, Follows
  <2>4. Parsed(FileAt(m))' = Parsed(FileAt(m)) /\ Stamp(FileAt(m))' = Stamp(FileAt(m))
    BY <1>1, <1>6 DEF Parsed, Stamp
  <2> QED BY <1>1, <1>11, <2>1, <2>3, <2>4 DEF Noticed
<1> QED BY <1>8, <1>9, <1>10, <1>11, <1>12 DEF ConfigInv

(* A poll that begins has found nothing changed yet.                       *)
LEMMA ConfigPoll ==
  ASSUME ConfigInv, Poll
  PROVE  ConfigInv'
<1>1. /\ at = "idle" /\ at' = "scanning"
      /\ disk' = disk /\ writes' = writes /\ entries' = entries /\ tracked' = tracked
      /\ toRead' = toRead /\ shared' = shared
  BY DEF Poll
<1>2. ConfigTypes' /\ StampsGrow' /\ SharedIsKnown' /\ AllFollow' /\ Phases'
  BY <1>1 DEF ConfigInv, ConfigTypes, DiskType, StampsGrow, Stamp, SharedIsKnown, AllFollow,
              Follows, FileAt, Phases
<1>3. AllNoticed'
  <2> SUFFICES ASSUME NEW n \in DOMAIN entries, FileAt(n) \notin shared PROVE Noticed(n)'
    BY <1>1 DEF AllNoticed, FileAt
  <2>1. Noticed(n)
    BY DEF ConfigInv, AllNoticed
  <2> QED BY <1>1, <2>1 DEF Noticed, Found, Parsed, Follows, FileAt, Stamp
<1> QED BY <1>2, <1>3 DEF ConfigInv

(* A file is seen as it is now; what another stamp told is in "changed".   *)
LEMMA ConfigScan ==
  ASSUME ConfigInv, NEW f \in DOMAIN tracked, Scan(f)
  PROVE  ConfigInv'
<1>1. /\ at = "scanning" /\ at' = at
      /\ changed' = Changes(f)
      /\ tracked' = [tracked EXCEPT ![f].seen = Stamp(f)]
      /\ disk' = disk /\ writes' = writes /\ entries' = entries
      /\ toRead' = toRead /\ shared' = shared
  BY DEF Scan
<1>2. f \in Files /\ Stamp(f) \in Nat /\ tracked[f] \in TrackedType
  BY StampType DEF ConfigInv, ConfigTypes
<1>3. /\ DOMAIN tracked' = DOMAIN tracked
      /\ tracked'[f] \in TrackedType
      /\ tracked'[f].seen = Stamp(f) /\ tracked'[f].path = tracked[f].path
      /\ \A g \in DOMAIN tracked \ {f} : tracked'[g] = tracked[g]
  BY <1>1, <1>2 DEF TrackedType
<1>4. \A g : Stamp(g)' = Stamp(g) /\ Parsed(g)' = Parsed(g)
  BY <1>1 DEF Stamp, Parsed
<1>5. \A n \in DOMAIN entries :
        FileAt(n)' = FileAt(n) /\ Found(n)' = Found(n) /\ Follows(n)' = Follows(n)
  BY <1>1, <1>3 DEF FileAt, Found, Follows
<1>6. ConfigTypes'
  BY <1>1, <1>3 DEF ConfigInv, ConfigTypes, DiskType
<1>7. StampsGrow'
  BY <1>1, <1>2, <1>3, <1>4 DEF ConfigInv, StampsGrow
<1>8. SharedIsKnown' /\ AllFollow' /\ Phases'
  BY <1>1, <1>5 DEF ConfigInv, SharedIsKnown, AllFollow, Phases
<1>9. AllNoticed'
  <2> SUFFICES ASSUME NEW n \in DOMAIN entries, FileAt(n) \notin shared PROVE Noticed(n)'
    BY <1>1, <1>5 DEF AllNoticed
  <2>1. Noticed(n) /\ Follows(n)
    BY DEF ConfigInv, AllNoticed, AllFollow
  <2>2. changed \subseteq changed'
    BY <1>1 DEF Changes
  <2>3. Stamp(FileAt(n))' = Stamp(FileAt(n)) /\ Parsed(FileAt(n))' = Parsed(FileAt(n))
    BY <1>1, <1>5 DEF Stamp, Parsed
  <2>4. CASE FileAt(n) = f /\ tracked[f].seen # Stamp(f)
    <3>1. entries[n].path \in changed'
      BY <1>1, <2>1, <2>4 DEF Changes, Follows
    <3> QED BY <1>1, <3>1 DEF Noticed
  <2>5. CASE ~(FileAt(n) = f /\ tracked[f].seen # Stamp(f))
    <3>1. tracked[FileAt(n)].seen # Stamp(FileAt(n)) =>
            tracked'[FileAt(n)].seen # Stamp(FileAt(n))
      BY <1>3, <2>1, <2>5 DEF Follows
    <3> QED BY <1>1, <1>5, <2>1, <2>2, <2>3, <3>1 DEF Noticed
  <2> QED BY <2>4, <2>5
<1> QED BY <1>6, <1>7, <1>8, <1>9 DEF ConfigInv

(* What was found changed is about to be read.                             *)
LEMMA ConfigScanned ==
  ASSUME ConfigInv, Scanned
  PROVE  ConfigInv'
<1>1. /\ at = "scanning" /\ toRead' = Affected
      /\ at' = IF Affected = {} THEN "idle" ELSE "reloading"
      /\ disk' = disk /\ writes' = writes /\ entries' = entries /\ tracked' = tracked
      /\ changed' = changed /\ shared' = shared
  BY DEF Scanned
<1>2. ConfigTypes' /\ StampsGrow' /\ SharedIsKnown' /\ AllFollow'
  BY <1>1 DEF ConfigInv, ConfigTypes, DiskType, StampsGrow, Stamp, SharedIsKnown, AllFollow,
              Follows, FileAt
<1>3. Phases'
  BY <1>1 DEF Phases, Affected
<1>4. AllNoticed'
  <2> SUFFICES ASSUME NEW n \in DOMAIN entries, FileAt(n) \notin shared PROVE Noticed(n)'
    BY <1>1 DEF AllNoticed, FileAt
  <2>1. Noticed(n) /\ n \notin toRead
    BY <1>1 DEF ConfigInv, AllNoticed, Phases
  <2>2. CASE entries[n].path \in changed
    BY <1>1, <2>2 DEF Noticed, Affected
  <2>3. CASE entries[n].path \notin changed
    BY <1>1, <2>1, <2>3 DEF Noticed, Found, Parsed, Follows, FileAt, Stamp
  <2> QED BY <2>2, <2>3
<1> QED BY <1>2, <1>3, <1>4 DEF ConfigInv

-----------------------------------------------------------------------------
(* Only tracked files are left to scan, and only during a scan.            *)
ScanInv == /\ at # "scanning" => toScan = {}
           /\ toScan \subseteq DOMAIN tracked

LEMMA ScanStep == Phases /\ ScanInv /\ [ConfigNext]_configVars => ScanInv'
<1> SUFFICES ASSUME Phases, ScanInv, [ConfigNext]_configVars PROVE ScanInv'
  OBVIOUS
<1>1. ASSUME NEW f \in Files, Scan(f) PROVE ScanInv'
  BY <1>1 DEF Scan, ScanInv
<1>2. ASSUME NEW f \in Files, NEW c \in Written, Write(f, c) PROVE ScanInv'
  BY <1>2 DEF Write, ScanInv
<1>3. ASSUME NEW n \in Names, NEW p \in Paths, WatchJson(n, p) PROVE ScanInv'
  BY <1>3 DEF WatchJson, ScanInv
<1>4. ASSUME NEW n \in Names, Unwatch(n) \/ Read(n) PROVE ScanInv'
  BY <1>4 DEF Unwatch, Read, ScanInv, Phases
<1>5. CASE Poll \/ Scanned
  BY <1>5 DEF Poll, Scanned, ScanInv
<1>6. CASE UNCHANGED configVars
  BY <1>6 DEF configVars, ScanInv
<1> QED BY <1>1, <1>2, <1>3, <1>4, <1>5, <1>6 DEF ConfigNext, Game

LEMMA ConfigStep ==
  Absent \notin Written /\ ConfigInv /\ ScanInv /\ [ConfigNext]_configVars => ConfigInv'
<1> SUFFICES ASSUME Absent \notin Written, ConfigInv, ScanInv, [ConfigNext]_configVars PROVE ConfigInv'
  OBVIOUS
<1>1. ASSUME NEW n \in Names, Read(n) PROVE ConfigInv'
  <2>1. n \in DOMAIN entries
    BY <1>1 DEF Read, ConfigInv, Phases
  <2> QED BY <1>1, <2>1, ConfigRead
<1>2. ASSUME NEW f \in Files, Scan(f) PROVE ConfigInv'
  BY <1>2, ConfigScan DEF Scan, ScanInv
<1>3. CASE UNCHANGED configVars
  BY <1>3 DEF configVars, ConfigInv, ConfigTypes, DiskType, StampsGrow, Stamp, SharedIsKnown, AllFollow,
              Follows, FileAt, Phases, AllNoticed, Noticed, Found, Parsed
<1> QED BY <1>1, <1>2, <1>3, ConfigWrite, ConfigWatch, ConfigUnwatch, ConfigPoll, ConfigScanned
        DEF ConfigNext, Game

(* While no file is removed, between polls every stale document of an      *)
(* unshared file shows a stamp the next poll will take for a change.       *)
THEOREM StaleDocumentsAreNoticed == Absent \notin Written => (ConfigSpec => []StaleIsNoticed)
<1> SUFFICES ASSUME Absent \notin Written PROVE ConfigSpec => []StaleIsNoticed
  OBVIOUS
<1>1. ConfigInv => StaleIsNoticed
  BY DEF ConfigInv, AllNoticed, Noticed, Phases, StaleIsNoticed, Follows
<1>2. ConfigInv /\ ScanInv /\ [ConfigNext]_configVars => ConfigInv'
  BY ConfigStep
<1>3. ConfigInit => ScanInv
  BY DEF ConfigInit, ScanInv
<1>4. ConfigInv /\ ScanInv /\ [ConfigNext]_configVars => ScanInv'
  BY ScanStep DEF ConfigInv
<1> QED BY ConfigStarts, <1>1, <1>2, <1>3, <1>4, PTL DEF ConfigSpec

-----------------------------------------------------------------------------
(* The invariant is inductive once it says that there is one newest tick   *)
(* and that ticks are numbers.                                             *)
OneNewest == newestTick = {} \/ \E n \in Ticks : newestTick = {n}
HistoryInv == /\ \A f \in frames : f.sequence \in Ticks
              /\ OneNewest
              /\ HistoryIsOneWindow

LEMMA NumberFacts == /\ Capacity \in Nat /\ Capacity > 0
                     /\ \A t \in Ticks : t \in Nat
  BY PredictionAssumption

LEMMA HistoryInit == Init => HistoryInv
  BY DEF Init, Frames!Init, HistoryInv, OneNewest, HistoryIsOneWindow

(* Forgetting frames leaves a window.                                      *)
LEMMA HistoryForgets ==
  ASSUME HistoryInv, frames' \subseteq frames, window' = window, newestTick' = newestTick
  PROVE  HistoryInv'
  BY DEF HistoryInv, OneNewest, HistoryIsOneWindow

LEMMA HistoryAcknowledges ==
  ASSUME HistoryInv, NEW t \in Ticks, Acknowledge(t)
  PROVE  HistoryInv'
<1>1. frames' \subseteq frames /\ window' = window /\ newestTick' = newestTick
  BY DEF Acknowledge, Frames!EraseThrough, Frames!Forget
<1> QED BY <1>1, HistoryForgets

(* A frame that is not refused joins the window, and may move it.          *)
LEMMA HistoryRecords ==
  ASSUME HistoryInv, NEW t \in Ticks, NEW c, NEW p, Record(t, c, p)
  PROVE  HistoryInv'
<1> DEFINE new == [sequence |-> t, value |-> [command |-> c, predictedState |-> p]]
<1>1. /\ window' = IF \E n \in window : t <= n THEN window ELSE {t}
      /\ frames' = {f \in frames : f.sequence # t /\ \A n \in window' : n < f.sequence + Capacity}
                     \cup {new}
      /\ ~Frames!TooOld(t)
      /\ newestTick' = IF Later(newestTick, t) THEN {t} ELSE newestTick
  BY DEF Record, Frames!StoreAccepted
<1>2. new.sequence = t
  OBVIOUS
<1> HIDE DEF new
<1>3. \A f \in frames' : f = new \/ (f \in frames /\ f.sequence # t
                                      /\ \A n \in window' : n < f.sequence + Capacity)
  BY <1>1
<1>4. \A f \in frames' : f.sequence \in Ticks
  BY <1>2, <1>3 DEF HistoryInv
<1>5. \A f, g \in frames' : f.sequence = g.sequence => f = g
  BY <1>2, <1>3 DEF HistoryInv, HistoryIsOneWindow
<1>6. window = newestTick
  BY DEF HistoryInv, HistoryIsOneWindow
<1>7. (\E n \in window : t <= n) <=> ~Later(newestTick, t)
  BY <1>6, NumberFacts DEF Later, HistoryInv, OneNewest
<1>8. window' = newestTick' /\ OneNewest'
  BY <1>1, <1>6, <1>7 DEF HistoryInv, OneNewest
<1>9. \A f \in frames' : \E n \in newestTick' : f.sequence <= n /\ n < f.sequence + Capacity
  <2>1. CASE Later(newestTick, t)
    <3>1. newestTick' = {t} /\ window' = {t}
      BY <1>1, <1>8, <2>1
    <3>2. ASSUME NEW f \in frames, t < f.sequence + Capacity
          PROVE  f.sequence <= t
      <4>1. PICK n \in newestTick : f.sequence <= n
        BY DEF HistoryInv, HistoryIsOneWindow
      <4>2. n \in Nat /\ f.sequence \in Nat /\ t \in Nat /\ t > n
        BY <2>1, <4>1, NumberFacts DEF Later, HistoryInv, OneNewest
      <4> QED BY <4>1, <4>2
    <3>3. t <= t /\ t < t + Capacity
      BY NumberFacts
    <3> QED BY <1>2, <1>3, <3>1, <3>2, <3>3
  <2>2. CASE ~Later(newestTick, t)
    <3>1. newestTick' = newestTick /\ window' = newestTick
      BY <1>1, <1>8, <2>2
    <3>2. PICK n \in newestTick : t <= n
      BY <1>6, <1>7, <2>2
    <3>3. n < t + Capacity
      BY <1>1, <1>6, <3>2, NumberFacts DEF Frames!TooOld, HistoryInv, OneNewest
    <3> QED BY <1>2, <1>3, <3>1, <3>2, <3>3 DEF HistoryInv, HistoryIsOneWindow
  <2> QED BY <2>1, <2>2
<1> QED BY <1>4, <1>5, <1>8, <1>9 DEF HistoryInv, HistoryIsOneWindow

LEMMA HistoryNext == HistoryInv /\ [Next]_vars => HistoryInv'
<1> SUFFICES ASSUME HistoryInv, [Next]_vars
             PROVE  HistoryInv'
  OBVIOUS
<1>1. ASSUME NEW t \in Ticks, NEW c \in Commands, NEW p \in States, Record(t, c, p)
      PROVE  HistoryInv'
  BY <1>1, HistoryRecords
<1>2. ASSUME UNCHANGED vars
      PROVE  HistoryInv'
  BY <1>2 DEF vars, HistoryInv, OneNewest, HistoryIsOneWindow
<1>3. ASSUME NEW t \in Ticks, RecordRefused(t)
      PROVE  HistoryInv'
  BY <1>2, <1>3 DEF RecordRefused
<1>4. ASSUME NEW t \in Ticks, AcknowledgeThrough(t)
      PROVE  HistoryInv'
  BY <1>4, HistoryAcknowledges DEF AcknowledgeThrough
<1>5. ASSUME NEW t \in Ticks, NEW a \in States, Reconcile(t, a)
      PROVE  HistoryInv'
  BY <1>5, HistoryAcknowledges DEF Reconcile
<1>6. ASSUME Clear
      PROVE  HistoryInv'
  BY <1>6 DEF Clear, Frames!Clear, HistoryInv, OneNewest, HistoryIsOneWindow
<1> QED BY <1>1, <1>2, <1>3, <1>4, <1>5, <1>6 DEF Next

(* Whatever order records, acknowledgements, reconciliations and clears    *)
(* come in, PredictionBuffer's newestTick_ is the container's, and the     *)
(* frames held are at most one for each of the Capacity ticks ending there.*)
THEOREM HistoryStaysOneWindow == Spec => []HistoryIsOneWindow
<1>1. HistoryInv => HistoryIsOneWindow
  BY DEF HistoryInv
<1> QED BY <1>1, HistoryInit, HistoryNext, PTL DEF Spec

-----------------------------------------------------------------------------
(* A set of numbers has a least element; what is shown of it by contra-    *)
(* diction is what induction would show.                                   *)
LEMMA LeastNumber ==
  ASSUME NEW T, T \subseteq Nat, T # {}
  PROVE  \E x \in T : \A y \in T : x <= y
<1>1. PICK n \in T : TRUE
  OBVIOUS
<1> DEFINE D == {m \in T : m <= n}
           U == {0 .. m : m \in D}
<1>2. IsWellFoundedOn(StrictSubsetOrdering(0 .. n), SUBSET (0 .. n))
  <2>1. IsFiniteSet(0 .. n)
    BY FS_Interval
  <2>2. FiniteSubsetsOf(0 .. n) = SUBSET (0 .. n)
    BY <2>1, FS_FiniteSubsetsOfFinite
  <2>3. IsWellFoundedOn(StrictSubsetOrdering(0 .. n), FiniteSubsetsOf(0 .. n))
    BY FS_StrictSubsetOrderingWellFounded
  <2> QED BY <2>2, <2>3
<1>3. U \subseteq SUBSET (0 .. n) /\ U # {}
  BY <1>1
<1>4. PICK x \in U : \A y \in U : <<y, x>> \notin StrictSubsetOrdering(0 .. n)
  BY <1>2, <1>3, WFMin
<1>5. PICK k \in D : x = 0 .. k
  BY <1>4
<1>6. \A m \in D : m >= k
  <2> SUFFICES ASSUME NEW m \in D, m < k PROVE FALSE
    OBVIOUS
  <2>1. 0 .. m \in U /\ 0 .. m \subseteq 0 .. k /\ k \in 0 .. k /\ k \notin 0 .. m
    OBVIOUS
  <2>2. 0 .. m \in SUBSET (0 .. n) /\ 0 .. k \in SUBSET (0 .. n)
    OBVIOUS
  <2> QED BY <1>4, <1>5, <2>1, <2>2 DEF StrictSubsetOrdering
<1> QED BY <1>6

LEMMA SizeIsPositive == Size \in Nat /\ Size > 0
  BY WorldAssumption, FS_CardinalityType, FS_EmptySet DEF Size

LEMMA StepIsAState == \A s \in Nat, c \in Nat : Step(s, c) \in Nat
  BY SizeIsPositive DEF Step

-----------------------------------------------------------------------------
(* e is what the commands f make of state a from tick b to tick k.         *)
Outcome(e, a, f, b, k) ==
  e = [t \in b .. k |-> IF t = b THEN a ELSE Step(e[t - 1], f[t])]

LEMMA OutcomeAt ==
  ASSUME NEW e, NEW a, NEW f, NEW b \in Nat, NEW k \in Nat, b <= k, Outcome(e, a, f, b, k)
  PROVE  e[b] = a /\ \A t \in b + 1 .. k : e[t] = Step(e[t - 1], f[t])
<1>1. e = [t \in b .. k |-> IF t = b THEN a ELSE Step(e[t - 1], f[t])]
  BY DEF Outcome
<1> QED BY <1>1

(* One command more extends the outcome by one state.                      *)
LEMMA OutcomeExtends ==
  ASSUME NEW e, NEW a, NEW f, NEW b \in Nat, NEW k \in Nat, b <= k, Outcome(e, a, f, b, k),
         NEW g, \A t \in b + 1 .. k : g[t] = f[t]
  PROVE  LET d == [t \in b .. k + 1 |-> IF t = k + 1 THEN Step(e[k], g[k + 1]) ELSE e[t]]
         IN  Outcome(d, a, g, b, k + 1)
<1> DEFINE d == [t \in b .. k + 1 |-> IF t = k + 1 THEN Step(e[k], g[k + 1]) ELSE e[t]]
<1>1. e[b] = a /\ \A t \in b + 1 .. k : e[t] = Step(e[t - 1], f[t])
  <2>1. e = [t \in b .. k |-> IF t = b THEN a ELSE Step(e[t - 1], f[t])]
    BY DEF Outcome
  <2> HIDE DEF d
  <2> QED BY <2>1
<1>2. ASSUME NEW t \in b .. k + 1
      PROVE  d[t] = IF t = b THEN a ELSE Step(d[t - 1], g[t])
  BY <1>1
<1>3. d = [t \in b .. k + 1 |-> IF t = b THEN a ELSE Step(d[t - 1], g[t])]
  BY <1>2
<1> QED BY <1>3 DEF Outcome

LEMMA OutcomeExists ==
  ASSUME NEW a, NEW f, NEW b \in Nat, NEW k \in Nat, b <= k
  PROVE  \E e : Outcome(e, a, f, b, k)
<1> DEFINE T == {n \in Nat : b <= n /\ ~\E e : Outcome(e, a, f, b, n)}
<1> SUFFICES ASSUME k \in T PROVE FALSE
  OBVIOUS
<1>1. PICK n \in T : \A m \in T : n <= m
  <2>1. T \subseteq Nat /\ T # {}
    OBVIOUS
  <2> HIDE DEF T
  <2> QED BY <2>1, LeastNumber
<1>2. CASE n = b
  <2> DEFINE e == [t \in b .. b |-> a]
  <2>1. e = [t \in b .. b |-> IF t = b THEN a ELSE Step(e[t - 1], f[t])]
    OBVIOUS
  <2>2. Outcome(e, a, f, b, b)
    BY <2>1 DEF Outcome
  <2> QED BY <1>1, <1>2, <2>2
<1>3. CASE n # b
  <2>1. n - 1 \in Nat /\ b <= n - 1 /\ n - 1 \notin T
    BY <1>1, <1>3
  <2>2. PICK e : Outcome(e, a, f, b, n - 1)
    BY <2>1
  <2>3. \E d : Outcome(d, a, f, b, n - 1 + 1)
    BY <2>1, <2>2, OutcomeExtends
  <2> QED BY <1>1, <2>3
<1> QED BY <1>2, <1>3

LEMMA OutcomeIsUnique ==
  ASSUME NEW a, NEW f, NEW b \in Nat, NEW k \in Nat, b <= k,
         NEW d, Outcome(d, a, f, b, k), NEW e, Outcome(e, a, f, b, k)
  PROVE  d = e
<1> DEFINE T == {t \in b .. k : d[t] # e[t]}
<1>1. T = {}
  <2> SUFFICES ASSUME T # {} PROVE FALSE
    OBVIOUS
  <2>1. PICK t \in T : \A u \in T : t <= u
    <3>1. T \subseteq Nat
      OBVIOUS
    <3> HIDE DEF T
    <3> QED BY <3>1, LeastNumber
  <2>2. t # b
    <3>1. b \in b .. k /\ d[b] = a /\ e[b] = a
      BY DEF Outcome
    <3> QED BY <2>1, <3>1
  <2>3. t - 1 \in b .. k /\ t - 1 \notin T /\ t \in b + 1 .. k
    BY <2>1, <2>2
  <2>4. d[t] = Step(d[t - 1], f[t]) /\ e[t] = Step(e[t - 1], f[t])
    BY <2>3, OutcomeAt
  <2> QED BY <2>1, <2>3, <2>4
<1>2. d = [t \in b .. k |-> d[t]] /\ e = [t \in b .. k |-> e[t]]
  BY DEF Outcome
<1> QED BY <1>1, <1>2

(* From a state, commands lead to states.                                  *)
LEMMA OutcomeStates ==
  ASSUME NEW a \in Nat, NEW f, NEW b \in Nat, NEW k \in Nat, b <= k,
         \A t \in b + 1 .. k : f[t] \in Nat, NEW e, Outcome(e, a, f, b, k)
  PROVE  \A t \in b .. k : e[t] \in Nat
<1> DEFINE T == {t \in b .. k : e[t] \notin Nat}
<1> SUFFICES ASSUME T # {} PROVE FALSE
  OBVIOUS
<1>1. PICK t \in T : \A u \in T : t <= u
  <2>1. T \subseteq Nat
    OBVIOUS
  <2> HIDE DEF T
  <2> QED BY <2>1, LeastNumber
<1>2. t # b
  BY <1>1, OutcomeAt
<1>3. t - 1 \in b .. k /\ t - 1 \notin T /\ t \in b + 1 .. k
  BY <1>1, <1>2
<1>4. e[t] = Step(e[t - 1], f[t])
  BY <1>3, OutcomeAt
<1> QED BY <1>1, <1>3, <1>4, StepIsAState

-----------------------------------------------------------------------------
worldAll == <<vars, worldVars>>

(* The client is ahead of the server, and the server of what was compared. *)
Issued ==
  /\ ClientTick \in 0 .. MaxTick /\ DOMAIN sent = 1 .. ClientTick
  /\ \A t \in 1 .. ClientTick : sent[t] \in Commands
  /\ ServerTick \in 0 .. ClientTick /\ DOMAIN authoritative = 0 .. ServerTick
  /\ \A t \in 0 .. ServerTick : authoritative[t] \in Nat
  /\ confirmed \in 0 .. ServerTick
  /\ newestTick = IF ClientTick = 0 THEN {} ELSE {ClientTick}

(* Frames are of ticks not yet compared; none is missing after the oldest. *)
FramesArePending ==
  \A f \in frames :
    /\ f.sequence \in confirmed + 1 .. ClientTick
    /\ f.value.command = sent[f.sequence] /\ f.value.predictedState \in Nat
    /\ \A t \in f.sequence .. ClientTick : Held(t) # {}

(* The client has got to tick r - 1 of the outcome e, the frames up to     *)
(* there say so, and the rest is being replayed, each command once.        *)
Shown(e, r) ==
  /\ clientState = e[r - 1]
  /\ \A f \in frames : f.sequence < r => f.value.predictedState = e[f.sequence]
  /\ \A g \in replaying : /\ g.sequence \in r .. ClientTick
                          /\ g.value.command = sent[g.sequence]
  /\ \A t \in r .. ClientTick : \E g \in replaying : g.sequence = t
  /\ \A g, h \in replaying : g.sequence = h.sequence => g = h

OutcomeNow(e) == Outcome(e, authoritative[confirmed], sent, confirmed, ClientTick)
ShownInv == \E e : OutcomeNow(e) /\ \E r \in confirmed + 1 .. ClientTick + 1 : Shown(e, r)

WorldInv == HistoryInv /\ Issued /\ FramesArePending /\ ShownInv

LEMMA TickFacts ==
  ASSUME Issued
  PROVE  /\ ClientTick \in Nat /\ ServerTick \in Nat /\ confirmed \in Nat
         /\ confirmed <= ServerTick /\ ServerTick <= ClientTick /\ ClientTick <= MaxTick
         /\ MaxTick \in Nat
         /\ \A t \in 1 .. ClientTick : sent[t] \in Nat /\ t \in Ticks
         /\ authoritative[confirmed] \in Nat
<1>1. /\ ClientTick \in 0 .. MaxTick /\ ServerTick \in 0 .. ClientTick
      /\ confirmed \in 0 .. ServerTick /\ MaxTick \in Nat
  BY WorldAssumption DEF Issued
<1>2. \A t \in 1 .. ClientTick : sent[t] \in Nat
  BY WorldAssumption DEF Issued
<1>3. authoritative[confirmed] \in Nat
  BY DEF Issued
<1>4. \A t \in 1 .. ClientTick : t \in Ticks
  <2>1. 1 .. ClientTick \subseteq 1 .. MaxTick
    BY <1>1
  <2> QED BY <2>1, WorldAssumption
<1> QED BY <1>1, <1>2, <1>3, <1>4

LEMMA OutcomeNowStates ==
  ASSUME Issued, NEW e, OutcomeNow(e)
  PROVE  \A t \in confirmed .. ClientTick : e[t] \in Nat
<1>1. /\ confirmed \in Nat /\ ClientTick \in Nat /\ confirmed <= ClientTick
      /\ authoritative[confirmed] \in Nat
      /\ \A t \in confirmed + 1 .. ClientTick : sent[t] \in Nat
  BY TickFacts
<1> QED BY <1>1, OutcomeStates DEF OutcomeNow

LEMMA WorldInitially == WorldInit => WorldInv
<1> SUFFICES ASSUME WorldInit PROVE WorldInv
  OBVIOUS
<1>1. HistoryInv
  BY HistoryInit DEF WorldInit
<1>2. /\ DOMAIN sent = {} /\ DOMAIN authoritative = {0} /\ authoritative[0] = 0
      /\ frames = {} /\ newestTick = {} /\ replaying = {} /\ confirmed = 0 /\ clientState = 0
  BY DEF WorldInit, Init, Frames!Init, StartState
<1>3. ClientTick = 0 /\ ServerTick = 0
  BY <1>2, FS_EmptySet, FS_Singleton DEF ClientTick, ServerTick
<1>4. Issued
  BY <1>2, <1>3, WorldAssumption DEF Issued
<1>5. FramesArePending
  BY <1>2 DEF FramesArePending
<1>6. PICK e : OutcomeNow(e)
  BY <1>2, <1>3, OutcomeExists DEF OutcomeNow
<1>7. e[0] = 0
  BY <1>2, <1>3, <1>6 DEF OutcomeNow, Outcome
<1>8. Shown(e, 1)
  BY <1>2, <1>3, <1>7 DEF Shown
<1> QED BY <1>1, <1>2, <1>3, <1>4, <1>5, <1>6, <1>8 DEF WorldInv, ShownInv

(* What recording does to the history.                                     *)
LEMMA Recorded ==
  ASSUME HistoryInv, NEW t, NEW c, NEW p, Record(t, c, p)
  PROVE  \E new :
           /\ new.sequence = t /\ new.value.command = c /\ new.value.predictedState = p
           /\ frames' = {f \in frames : f.sequence # t /\ \A n \in window' : n < f.sequence + Capacity}
                          \cup {new}
           /\ window' = IF \E n \in window : t <= n THEN window ELSE {t}
           /\ newestTick' = IF Later(newestTick, t) THEN {t} ELSE newestTick
           /\ window = newestTick
<1> DEFINE made == [sequence |-> t, value |-> [command |-> c, predictedState |-> p]]
<1>1. PICK new : new = made
  OBVIOUS
<1>2. /\ frames' = {f \in frames : f.sequence # t /\ \A n \in window' : n < f.sequence + Capacity}
                     \cup {new}
      /\ window' = IF \E n \in window : t <= n THEN window ELSE {t}
      /\ newestTick' = IF Later(newestTick, t) THEN {t} ELSE newestTick
  BY <1>1 DEF Record, Frames!StoreAccepted
<1>3. new.sequence = t /\ new.value.command = c /\ new.value.predictedState = p
  BY <1>1
<1>4. window = newestTick
  BY DEF HistoryInv, HistoryIsOneWindow
<1> QED BY <1>2, <1>3, <1>4

(* What the steps of the world make of ticks and history, whatever the     *)
(* threshold.                                                              *)
LEMMA PredictIssues ==
  ASSUME HistoryInv, Issued, NEW c \in Commands, Predict(c)
  PROVE  /\ newestTick' = {ClientTick + 1} /\ window' = {ClientTick + 1}
         /\ sent' = [u \in 1 .. ClientTick + 1 |-> IF u = ClientTick + 1 THEN c ELSE sent[u]]
         /\ ClientTick' = ClientTick + 1 /\ ServerTick' = ServerTick
         /\ HistoryInv' /\ Issued'
<1>1. PICK k : k = ClientTick
  OBVIOUS
<1>2. /\ k \in Nat /\ ServerTick \in Nat /\ confirmed \in Nat
      /\ confirmed <= ServerTick /\ ServerTick <= k /\ k + 1 <= MaxTick /\ MaxTick \in Nat
  BY <1>1, TickFacts DEF Predict
<1>3. /\ window' = IF \E n \in window : k + 1 <= n THEN window ELSE {k + 1}
      /\ newestTick' = IF Later(newestTick, k + 1) THEN {k + 1} ELSE newestTick
      /\ window = newestTick
  BY <1>1, Recorded DEF Predict
<1>4. newestTick' = {k + 1} /\ window' = {k + 1}
  <2>1. newestTick = IF k = 0 THEN {} ELSE {k}
    BY <1>1 DEF Issued
  <2> QED BY <1>2, <1>3, <2>1 DEF Later
<1>5. /\ sent' = [u \in 1 .. k + 1 |-> IF u = k + 1 THEN c ELSE sent[u]]
      /\ authoritative' = authoritative /\ confirmed' = confirmed
  BY <1>1 DEF Predict
<1>6. ClientTick' = k + 1 /\ ServerTick' = ServerTick
  <2>1. DOMAIN sent' = 1 .. k + 1
    BY <1>5
  <2>2. Cardinality(1 .. k + 1) = k + 1
    BY <1>2, FS_Interval
  <2> QED BY <1>5, <2>1, <2>2 DEF ClientTick, ServerTick
<1>7. /\ DOMAIN sent = 1 .. k /\ DOMAIN authoritative = 0 .. ServerTick
      /\ \A t \in 1 .. k : sent[t] \in Commands
      /\ \A t \in 0 .. ServerTick : authoritative[t] \in Nat
  BY <1>1 DEF Issued
<1>8. HistoryInv'
  <2>1. k + 1 \in Ticks
    BY <1>2, WorldAssumption
  <2> QED BY <1>1, <2>1, HistoryRecords DEF Predict
<1>9. Issued'
  BY <1>2, <1>4, <1>5, <1>6, <1>7 DEF Issued
<1> QED BY <1>1, <1>4, <1>5, <1>6, <1>8, <1>9

LEMMA SimulateIssues ==
  ASSUME HistoryInv, Issued, NEW push \in {0, 1}, Simulate(push)
  PROVE  /\ frames' = frames /\ acknowledgedTick' = acknowledgedTick
         /\ sent' = sent /\ clientState' = clientState
         /\ replaying' = replaying /\ confirmed' = confirmed
         /\ ClientTick' = ClientTick /\ ServerTick' = ServerTick + 1
         /\ authoritative'[confirmed] = authoritative[confirmed]
         /\ HistoryInv' /\ Issued'
<1>1. PICK m : m = ServerTick
  OBVIOUS
<1>2. /\ ClientTick \in Nat /\ m \in Nat /\ confirmed \in Nat
      /\ confirmed <= m /\ m + 1 <= ClientTick
  BY <1>1, TickFacts DEF Simulate
<1>3. PICK outcome :
        authoritative' = [u \in 0 .. m + 1 |-> IF u = m + 1 THEN outcome ELSE authoritative[u]]
        /\ outcome = Step(Step(authoritative[m], sent[m + 1]), push)
  <2>1. authoritative' = [u \in 0 .. m + 1 |->
          IF u = m + 1 THEN Step(Step(authoritative[u - 1], sent[u]), push) ELSE authoritative[u]]
    BY <1>1 DEF Simulate
  <2>3. PICK outcome : outcome = Step(Step(authoritative[m], sent[m + 1]), push)
    OBVIOUS
  <2>4. \A u : (IF u = m + 1 THEN Step(Step(authoritative[u - 1], sent[u]), push) ELSE authoritative[u])
              = (IF u = m + 1 THEN outcome ELSE authoritative[u])
    <3> SUFFICES ASSUME NEW u, u = m + 1
                 PROVE  Step(Step(authoritative[u - 1], sent[u]), push) = outcome
      OBVIOUS
    <3>1. u - 1 = m
      BY <1>2
    <3> QED BY <2>3, <3>1
  <2>5. authoritative' = [u \in 0 .. m + 1 |-> IF u = m + 1 THEN outcome ELSE authoritative[u]]
    BY <2>1, <2>4
  <2> QED BY <2>3, <2>5
<1>4. /\ frames' = frames /\ acknowledgedTick' = acknowledgedTick
      /\ window' = window /\ newestTick' = newestTick /\ sent' = sent
      /\ clientState' = clientState /\ replaying' = replaying /\ confirmed' = confirmed
  BY DEF Simulate, vars
<1>5. ClientTick' = ClientTick /\ ServerTick' = m + 1
  <2>1. DOMAIN authoritative' = 0 .. m + 1
    BY <1>3
  <2>2. Cardinality(0 .. m + 1) = m + 2
    BY <1>2, FS_Interval
  <2>4. ClientTick' = ClientTick
    BY <1>4 DEF ClientTick
  <2>5. ServerTick' = Cardinality(DOMAIN authoritative') - 1
    BY DEF ServerTick
  <2>6. ServerTick' = Cardinality(0 .. m + 1) - 1
    BY <2>1, <2>5
  <2>7. Cardinality(0 .. m + 1) - 1 = m + 1
    BY <1>2, <2>2
  <2> QED BY <2>4, <2>6, <2>7
<1>6. outcome \in Nat
  <2>1. authoritative[m] \in Nat /\ sent[m + 1] \in Nat
    <3>1. m \in 0 .. ServerTick /\ m + 1 \in 1 .. ClientTick
      BY <1>1, <1>2
    <3>2. authoritative[m] \in Nat
      BY <3>1 DEF Issued
    <3> QED BY <3>1, <3>2, TickFacts
  <2> QED BY <1>3, <2>1, StepIsAState
<1>7. authoritative'[confirmed] = authoritative[confirmed]
  BY <1>2, <1>3
<1>8. Issued'
  BY <1>1, <1>2, <1>3, <1>4, <1>5, <1>6 DEF Issued
<1>9. HistoryInv'
  BY <1>4 DEF HistoryInv, OneNewest, HistoryIsOneWindow
<1> QED BY <1>1, <1>4, <1>5, <1>7, <1>8, <1>9

LEMMA ReceiveIssues ==
  ASSUME HistoryInv, Issued, NEW t \in 1 .. ServerTick, Receive(t)
  PROVE  /\ frames' = {f \in frames : f.sequence > t}
         /\ window' = window /\ newestTick' = newestTick
         /\ acknowledgedTick' = IF Later(acknowledgedTick, t) THEN {t} ELSE acknowledgedTick
         /\ plan'.status = StatusOf(t, authoritative[t])
         /\ plan'.replay = frames'
         /\ sent' = sent /\ authoritative' = authoritative
         /\ ClientTick' = ClientTick /\ ServerTick' = ServerTick
         /\ HistoryInv' /\ Issued'
<1>1. /\ frames' = frames \ {f \in frames : f.sequence <= t}
      /\ window' = window /\ newestTick' = newestTick
      /\ acknowledgedTick' = IF Later(acknowledgedTick, t) THEN {t} ELSE acknowledgedTick
      /\ plan' = [status |-> StatusOf(t, authoritative[t]), tick |-> t,
                  replay |-> FramesAfter(frames', t)]
  BY DEF Receive, Reconcile, Acknowledge, Frames!EraseThrough, Frames!Forget
<1>2. \A f \in frames : f.sequence \in Nat
  BY NumberFacts DEF HistoryInv
<1>3. /\ t \in Nat /\ t \in 0 .. ServerTick /\ confirmed \in 0 .. ServerTick
  BY TickFacts
<1>4. frames' = {f \in frames : f.sequence > t}
  BY <1>1, <1>2, <1>3
<1>5. FramesAfter(frames', t) = frames'
  BY <1>4 DEF FramesAfter
<1>6. /\ sent' = sent /\ authoritative' = authoritative
      /\ ClientTick' = ClientTick /\ ServerTick' = ServerTick
  BY DEF Receive, ClientTick, ServerTick
<1>7. confirmed' \in 0 .. ServerTick
  BY <1>3 DEF Receive
<1>8. HistoryInv'
  <2>1. frames' \subseteq frames
    BY <1>4
  <2> QED BY <1>1, <2>1, HistoryForgets
<1>9. Issued'
  BY <1>1, <1>6, <1>7 DEF Issued
<1> QED BY <1>1, <1>4, <1>5, <1>6, <1>8, <1>9

LEMMA ReplayIssues ==
  ASSUME HistoryInv, Issued, NEW r \in 1 .. ClientTick, NEW c, NEW p, Record(r, c, p),
         sent' = sent, authoritative' = authoritative, confirmed' = confirmed
  PROVE  /\ newestTick = {ClientTick} /\ newestTick' = {ClientTick} /\ window' = {ClientTick}
         /\ ClientTick' = ClientTick /\ ServerTick' = ServerTick
         /\ \A g \in frames : ClientTick < g.sequence + Capacity
         /\ HistoryInv' /\ Issued'
<1>1. PICK k : k = ClientTick
  OBVIOUS
<1>2. k \in Nat /\ r \in Nat /\ 1 <= r /\ r <= k /\ r \in Ticks
  BY <1>1, TickFacts
<1>3. newestTick = {k} /\ window = {k}
  BY <1>1, <1>2 DEF Issued, HistoryInv, HistoryIsOneWindow
<1>4. /\ window' = IF \E n \in window : r <= n THEN window ELSE {r}
      /\ newestTick' = IF Later(newestTick, r) THEN {r} ELSE newestTick
  BY Recorded
<1>5. newestTick' = {k} /\ window' = {k}
  BY <1>2, <1>3, <1>4 DEF Later
<1>6. ClientTick' = k /\ ServerTick' = ServerTick
  BY <1>1 DEF ClientTick, ServerTick
<1>7. HistoryInv'
  BY <1>2, HistoryRecords
<1>8. Issued'
  BY <1>1, <1>2, <1>3, <1>5, <1>6 DEF Issued
<1>9. \A g \in frames : k < g.sequence + Capacity
  BY <1>3 DEF HistoryInv, HistoryIsOneWindow
<1> QED BY <1>1, <1>3, <1>5, <1>6, <1>7, <1>8, <1>9

LEMMA PredictKeeps ==
  ASSUME WorldInv, NEW c \in Commands, Predict(c)
  PROVE  WorldInv'
<1>0. PICK k : k = ClientTick
  OBVIOUS
<1>1. /\ k \in Nat /\ ServerTick \in Nat /\ confirmed \in Nat
      /\ confirmed <= ServerTick /\ ServerTick <= k /\ k + 1 <= MaxTick /\ MaxTick \in Nat
  BY <1>0, TickFacts DEF WorldInv, Predict
<1>2. PICK e : OutcomeNow(e) /\ \E r \in confirmed + 1 .. k + 1 : Shown(e, r)
  BY <1>0 DEF WorldInv, ShownInv
<1>2a. PICK r \in confirmed + 1 .. k + 1 : Shown(e, r)
  BY <1>2
<1>3. r = k + 1
  BY <1>0, <1>1, <1>2a DEF Shown, Predict
<1>4. clientState = e[k] /\ e[k] \in Nat
  BY <1>0, <1>1, <1>2, <1>2a, <1>3, OutcomeNowStates DEF Shown, WorldInv
<1>5. PICK new :
        /\ new.sequence = k + 1 /\ new.value.command = c
        /\ new.value.predictedState = Step(clientState, c)
        /\ frames' = {f \in frames : f.sequence # k + 1 /\ \A n \in window' : n < f.sequence + Capacity}
                       \cup {new}
        /\ window' = IF \E n \in window : k + 1 <= n THEN window ELSE {k + 1}
        /\ newestTick' = IF Later(newestTick, k + 1) THEN {k + 1} ELSE newestTick
        /\ window = newestTick
  BY <1>0, Recorded DEF Predict, WorldInv
<1>6. /\ newestTick' = {k + 1} /\ window' = {k + 1}
      /\ ClientTick' = k + 1 /\ ServerTick' = ServerTick
      /\ HistoryInv' /\ Issued'
  BY <1>0, PredictIssues DEF WorldInv
<1>7. /\ sent' = [u \in 1 .. k + 1 |-> IF u = k + 1 THEN c ELSE sent[u]]
      /\ clientState' = Step(clientState, c)
      /\ replaying = {} /\ replaying' = {} /\ authoritative' = authoritative /\ confirmed' = confirmed
  BY <1>0 DEF Predict
<1>10. \A f \in frames :
         /\ f.sequence \in confirmed + 1 .. k
         /\ f.value.command = sent[f.sequence] /\ f.value.predictedState \in Nat
         /\ \A t \in f.sequence .. k : \E g \in frames : g.sequence = t
  BY <1>0 DEF WorldInv, FramesArePending, Held
<1>13. \A f \in frames' : f = new \/ (f \in frames /\ k + 1 < f.sequence + Capacity)
  BY <1>5, <1>6
<1>14. \A g \in frames : k + 1 < g.sequence + Capacity => g \in frames'
  BY <1>1, <1>5, <1>6, <1>10
<1>15. FramesArePending'
  <2>1. ASSUME NEW f \in frames'
        PROVE  /\ f.sequence \in confirmed + 1 .. k + 1
               /\ f.value.command = sent'[f.sequence] /\ f.value.predictedState \in Nat
               /\ \A t \in f.sequence .. k + 1 : \E g \in frames' : g.sequence = t
    <3>1. CASE f = new
      <4>1. Step(clientState, c) \in Nat
        BY <1>4, StepIsAState, WorldAssumption
      <4> QED BY <1>1, <1>5, <1>7, <3>1, <4>1
    <3>2. CASE f # new
      <4>1. f \in frames /\ k + 1 < f.sequence + Capacity
        BY <1>13, <3>2
      <4>2. f.sequence \in confirmed + 1 .. k
        BY <1>10, <4>1
      <4>3. ASSUME NEW t \in f.sequence .. k + 1
            PROVE  \E g \in frames' : g.sequence = t
        <5>1. CASE t = k + 1
          BY <1>5, <5>1
        <5>2. CASE t # k + 1
          <6>1. PICK g \in frames : g.sequence = t
            BY <1>1, <1>10, <4>1, <4>2, <5>2
          <6>2. k + 1 < g.sequence + Capacity
            BY <1>1, <4>1, <4>2, <6>1, NumberFacts
          <6> QED BY <1>14, <6>1, <6>2
        <5> QED BY <5>1, <5>2
      <4> QED BY <1>1, <1>7, <1>10, <4>1, <4>2, <4>3
    <3> QED BY <3>1, <3>2
  <2> QED BY <1>7, <1>6, <2>1 DEF FramesArePending, Held
<1>16. ShownInv'
  <2> DEFINE d == [t \in confirmed .. k + 1 |->
                    IF t = k + 1 THEN Step(e[k], sent'[k + 1]) ELSE e[t]]
  <2>1. Outcome(d, authoritative[confirmed], sent', confirmed, k + 1)
    <3>1. \A t \in confirmed + 1 .. k : sent'[t] = sent[t]
      BY <1>1, <1>7
    <3>2. Outcome(e, authoritative[confirmed], sent, confirmed, k)
      BY <1>0, <1>2 DEF OutcomeNow
    <3> QED BY <1>1, <3>1, <3>2, OutcomeExtends
  <2>2. /\ d[k + 1] = Step(e[k], c)
        /\ \A t \in confirmed .. k : d[t] = e[t]
    BY <1>1, <1>7
  <2>3. PICK d1 : d1 = d
    OBVIOUS
  <2> HIDE DEF d
  <2>4. OutcomeNow(d1)'
    BY <1>7, <1>6, <2>1, <2>3 DEF OutcomeNow
  <2>5. \A f \in frames' : f.value.predictedState = d1[f.sequence]
    <3> SUFFICES ASSUME NEW f \in frames' PROVE f.value.predictedState = d1[f.sequence]
      OBVIOUS
    <3>1. CASE f = new
      BY <1>4, <1>5, <2>2, <2>3, <3>1
    <3>2. CASE f # new
      <4>1. f \in frames /\ f.sequence \in confirmed + 1 .. k
        BY <1>10, <1>13, <3>2
      <4> QED BY <1>1, <1>2a, <1>3, <2>2, <2>3, <4>1 DEF Shown
    <3> QED BY <3>1, <3>2
  <2>6. clientState' = d1[k + 2 - 1]
    BY <1>1, <1>4, <1>7, <2>2, <2>3
  <2>7. Shown(d1, k + 2)'
    BY <1>1, <1>7, <1>6, <2>5, <2>6 DEF Shown
  <2>8. k + 2 \in (confirmed + 1 .. ClientTick + 1)'
    BY <1>1, <1>7, <1>6
  <2> QED BY <2>4, <2>7, <2>8 DEF ShownInv
<1> QED BY <1>6, <1>15, <1>16 DEF WorldInv

LEMMA SimulateKeeps ==
  ASSUME WorldInv, NEW push \in {0, 1}, Simulate(push)
  PROVE  WorldInv'
<1>1. /\ frames' = frames /\ sent' = sent /\ clientState' = clientState
      /\ replaying' = replaying /\ confirmed' = confirmed /\ ClientTick' = ClientTick
      /\ authoritative'[confirmed] = authoritative[confirmed]
      /\ HistoryInv' /\ Issued'
  BY SimulateIssues DEF WorldInv
<1>2. FramesArePending'
  BY <1>1 DEF WorldInv, FramesArePending, Held
<1>3. ShownInv'
  BY <1>1 DEF WorldInv, ShownInv, OutcomeNow, Shown
<1> QED BY <1>1, <1>2, <1>3 DEF WorldInv

LEMMA ReceiveKeeps ==
  ASSUME CorrectionThreshold = 0, WorldInv, NEW t \in 1 .. ServerTick, Receive(t)
  PROVE  WorldInv'
<1>1. PICK k : k = ClientTick
  OBVIOUS
<1>2. /\ k \in Nat /\ ServerTick \in Nat /\ confirmed \in Nat
      /\ confirmed <= ServerTick /\ ServerTick <= k /\ t \in Nat /\ t >= 1 /\ t <= ServerTick
  BY <1>1, TickFacts DEF WorldInv
<1>3. /\ frames' = {f \in frames : f.sequence > t}
      /\ window' = window /\ newestTick' = newestTick
      /\ plan'.status = StatusOf(t, authoritative[t])
      /\ plan'.replay = frames'
      /\ HistoryInv' /\ Issued'
  BY ReceiveIssues DEF WorldInv
<1>4. /\ sent' = sent /\ authoritative' = authoritative /\ replaying = {}
      /\ ClientTick' = k /\ ServerTick' = ServerTick
  BY <1>1 DEF Receive, ClientTick, ServerTick
<1>5. PICK e : OutcomeNow(e) /\ \E r \in confirmed + 1 .. k + 1 : Shown(e, r)
  BY <1>1 DEF WorldInv, ShownInv
<1>6. Shown(e, k + 1)
  <2>1. PICK r \in confirmed + 1 .. k + 1 : Shown(e, r)
    BY <1>5
  <2>2. r = k + 1
    BY <1>1, <1>2, <1>4, <2>1 DEF Shown
  <2> QED BY <2>1, <2>2
<1>7. \A f \in frames :
        /\ f.sequence \in confirmed + 1 .. k
        /\ f.value.command = sent[f.sequence] /\ f.value.predictedState \in Nat
        /\ f.value.predictedState = e[f.sequence]
        /\ \A u \in f.sequence .. k : \E g \in frames : g.sequence = u
  BY <1>1, <1>2, <1>6 DEF WorldInv, FramesArePending, Held, Shown
<1>9. authoritative[t] \in Nat
  BY <1>2 DEF WorldInv, Issued
<1>10. CASE Held(t) = {}
  <2>1. plan'.status = "missing"
    BY <1>3, <1>10 DEF StatusOf
  <2>2. clientState' = clientState /\ replaying' = replaying /\ confirmed' = confirmed
    BY <2>1 DEF Receive, NeedsCorrection
  <2>3. frames' = frames
    <3>1. ASSUME NEW f \in frames PROVE f.sequence > t
      BY <1>2, <1>7, <1>10 DEF Held
    <3> QED BY <1>3, <3>1
  <2>4. FramesArePending'
    BY <1>1, <1>4, <2>2, <2>3 DEF WorldInv, FramesArePending, Held
  <2>5. ShownInv'
    BY <1>1, <1>4, <2>2, <2>3 DEF WorldInv, ShownInv, OutcomeNow, Shown
  <2> QED BY <1>3, <2>4, <2>5 DEF WorldInv
<1>11. CASE Held(t) # {}
  <2>1. PICK f \in frames : f = (CHOOSE g \in Held(t) : TRUE) /\ f.sequence = t
    BY <1>11 DEF Held
  <2>2. /\ confirmed + 1 <= t /\ f.value.predictedState \in Nat /\ f.value.predictedState = e[t]
    BY <1>2, <1>7, <2>1
  <2>3. \A u \in t .. k : \E g \in frames : g.sequence = u
    BY <1>7, <2>1
  <2>4. PICK error \in Nat : /\ error = Error(f.value.predictedState, authoritative[t])
                             /\ error = 0 <=> f.value.predictedState = authoritative[t]
    BY <1>9, <2>2 DEF Error
  <2>5. plan'.status = IF error > HardThreshold THEN "hardCorrection"
                       ELSE IF error > 0 THEN "correction" ELSE "accepted"
    BY <1>3, <1>11, <2>1, <2>4 DEF StatusOf
  <2>6. confirmed' = t
    BY <2>5 DEF Receive
  <2>8. \A g \in frames' :
          /\ g \in frames /\ g.sequence \in t + 1 .. k
          /\ g.value.command = sent[g.sequence] /\ g.value.predictedState \in Nat
          /\ \A u \in g.sequence .. k : \E h \in frames' : h.sequence = u
    BY <1>2, <1>3, <1>7
  <2>9. FramesArePending'
    BY <1>4, <2>6, <2>8 DEF FramesArePending, Held
  <2>10. \A u \in t + 1 .. k : \E g \in frames' : g.sequence = u
    BY <1>2, <1>3, <2>3
  <2>11. CASE error = 0
    <3>1. HardThreshold \in Nat
      BY PredictionAssumption DEF HardThreshold
    <3>2. clientState' = clientState /\ replaying' = {}
      BY <1>4, <2>4, <2>5, <2>11, <3>1 DEF Receive, NeedsCorrection
    <3> DEFINE d == [u \in t .. k |-> e[u]]
    <3>3. Outcome(d, authoritative[t], sent, t, k)
      <4>1. \A u \in confirmed + 1 .. k : e[u] = Step(e[u - 1], sent[u])
        BY <1>1, <1>2, <1>5, OutcomeAt DEF OutcomeNow
      <4>2. ASSUME NEW u \in t .. k
            PROVE  d[u] = IF u = t THEN authoritative[t] ELSE Step(d[u - 1], sent[u])
        BY <1>2, <2>2, <2>4, <2>11, <4>1
      <4>3. d = [u \in t .. k |-> IF u = t THEN authoritative[t] ELSE Step(d[u - 1], sent[u])]
        BY <4>2
      <4> QED BY <4>3 DEF Outcome
    <3>4. PICK d1 : d1 = d
      OBVIOUS
    <3>5. /\ d1[k + 1 - 1] = e[k]
          /\ \A g \in frames' : g.value.predictedState = d1[g.sequence]
      BY <1>2, <1>7, <2>8, <3>4
    <3> HIDE DEF d
    <3>6. OutcomeNow(d1)'
      BY <1>4, <2>6, <3>3, <3>4 DEF OutcomeNow
    <3>7. clientState' = d1[k + 1 - 1]
      BY <1>2, <1>6, <3>2, <3>5 DEF Shown
    <3>8. Shown(d1, k + 1)'
      BY <1>2, <1>4, <3>2, <3>5, <3>7 DEF Shown
    <3>9. k + 1 \in (confirmed + 1 .. ClientTick + 1)'
      BY <1>2, <1>4, <2>6
    <3> QED BY <1>3, <2>9, <3>6, <3>8, <3>9 DEF WorldInv, ShownInv
  <2>12. CASE error # 0
    <3>1. clientState' = authoritative[t] /\ replaying' = frames'
      BY <1>3, <2>4, <2>5, <2>12 DEF Receive, NeedsCorrection
    <3>2. PICK d : Outcome(d, authoritative[t], sent, t, k)
      <4>1. t \in Nat /\ k \in Nat /\ t <= k
        BY <1>2
      <4>2. \A a, c : \E x : Outcome(x, a, c, t, k)
        BY <4>1, OutcomeExists
      <4> QED BY <4>2
    <3>3. d[t + 1 - 1] = authoritative[t]
      BY <1>2, <3>2 DEF Outcome
    <3>4. OutcomeNow(d)'
      BY <1>4, <2>6, <3>2 DEF OutcomeNow
    <3>5. \A g, h \in frames' : g.sequence = h.sequence => g = h
      BY <1>3 DEF HistoryInv, HistoryIsOneWindow
    <3>6. \A g \in frames' : ~(g.sequence < t + 1)
      BY <1>2, <2>8
    <3>7. Shown(d, t + 1)'
      BY <1>4, <2>8, <2>10, <3>1, <3>3, <3>5, <3>6 DEF Shown
    <3>8. t + 1 \in (confirmed + 1 .. ClientTick + 1)'
      BY <1>2, <1>4, <2>6
    <3> QED BY <1>3, <2>9, <3>4, <3>7, <3>8 DEF WorldInv, ShownInv
  <2> QED BY <2>11, <2>12
<1> QED BY <1>10, <1>11

LEMMA ReplayKeeps ==
  ASSUME WorldInv, Replay
  PROVE  WorldInv'
<1>1. PICK k : k = ClientTick
  OBVIOUS
<1>2. /\ k \in Nat /\ ServerTick \in Nat /\ confirmed \in Nat
      /\ confirmed <= ServerTick /\ ServerTick <= k
  BY <1>1, TickFacts DEF WorldInv
<1>3. PICK f \in replaying :
        /\ \A g \in replaying : f.sequence <= g.sequence
        /\ Record(f.sequence, f.value.command, Step(clientState, f.value.command))
        /\ clientState' = Step(clientState, f.value.command)
        /\ replaying' = replaying \ {f}
        /\ sent' = sent /\ authoritative' = authoritative /\ confirmed' = confirmed
  BY DEF Replay
<1>4. PICK e : OutcomeNow(e) /\ \E r \in confirmed + 1 .. k + 1 : Shown(e, r)
  BY <1>1 DEF WorldInv, ShownInv
<1>5. PICK r \in confirmed + 1 .. k + 1 : Shown(e, r)
  BY <1>4
<1>6. r \in Nat /\ r <= k /\ f.sequence = r /\ f.value.command = sent[r]
  <2>1. f.sequence \in r .. k /\ f.value.command = sent[f.sequence]
    BY <1>1, <1>5 DEF Shown
  <2>2. r \in r .. k
    BY <1>2, <2>1
  <2>3. PICK g \in replaying : g.sequence = r
    BY <1>1, <1>5, <2>2 DEF Shown
  <2> QED BY <1>2, <1>3, <2>1, <2>3
<1>7. PICK p : p = Step(clientState, sent[r])
  OBVIOUS
<1>8. PICK new :
        /\ new.sequence = r /\ new.value.command = sent[r] /\ new.value.predictedState = p
        /\ frames' = {g \in frames : g.sequence # r /\ \A n \in window' : n < g.sequence + Capacity}
                       \cup {new}
        /\ window' = IF \E n \in window : r <= n THEN window ELSE {r}
        /\ newestTick' = IF Later(newestTick, r) THEN {r} ELSE newestTick
        /\ window = newestTick
  <2>1. Record(r, sent[r], p)
    BY <1>3, <1>6, <1>7
  <2> QED BY <2>1, Recorded DEF WorldInv
<1>9. /\ newestTick = {k} /\ window' = {k} /\ newestTick' = {k}
      /\ ClientTick' = k /\ ServerTick' = ServerTick
      /\ \A g \in frames : k < g.sequence + Capacity
      /\ HistoryInv' /\ Issued'
  <2>1. Record(r, f.value.command, Step(clientState, f.value.command)) /\ r \in 1 .. ClientTick
    BY <1>1, <1>2, <1>3, <1>6, <1>5
  <2> QED BY <1>1, <1>3, <2>1, ReplayIssues DEF WorldInv
<1>13. frames' = {g \in frames : g.sequence # r} \cup {new}
  BY <1>8, <1>9
<1>14. \A g \in frames :
         /\ g.sequence \in confirmed + 1 .. k
         /\ g.value.command = sent[g.sequence] /\ g.value.predictedState \in Nat
         /\ \A u \in g.sequence .. k : \E h \in frames : h.sequence = u
  BY <1>1 DEF WorldInv, FramesArePending, Held
<1>15. p = e[r] /\ p \in Nat
  <2>1. clientState = e[r - 1]
    BY <1>5 DEF Shown
  <2>2. e[r] = Step(e[r - 1], sent[r])
    <3>1. r \in confirmed + 1 .. k
      BY <1>2, <1>6
    <3>2. Outcome(e, authoritative[confirmed], sent, confirmed, k)
      BY <1>1, <1>4 DEF OutcomeNow
    <3> QED BY <1>2, <3>1, <3>2, OutcomeAt
  <2>3. e[r] \in Nat
    BY <1>1, <1>2, <1>4, <1>6, OutcomeNowStates DEF WorldInv
  <2> QED BY <1>7, <2>1, <2>2, <2>3
<1>16. \A u \in r .. k : \E h \in frames' : h.sequence = u
  <2>1. CASE r = k
    BY <1>2, <1>6, <1>8, <1>13, <2>1
  <2>2. CASE r # k
    <3>1. Held(r) # {}
      BY <1>2, <1>3, <1>6, <1>9, <2>2 DEF Record, Refuses
    <3>2. PICK g \in frames : g.sequence = r
      BY <3>1 DEF Held
    <3>3. \A u \in r .. k : \E h \in frames : h.sequence = u
      BY <1>14, <3>2
    <3> QED BY <1>8, <1>13, <3>3
  <2> QED BY <2>1, <2>2
<1>17. \A g \in frames' :
         /\ g.sequence \in confirmed + 1 .. k
         /\ g.value.command = sent[g.sequence] /\ g.value.predictedState \in Nat
         /\ \A u \in g.sequence .. k : \E h \in frames' : h.sequence = u
  <2> SUFFICES ASSUME NEW g \in frames'
               PROVE  /\ g.sequence \in confirmed + 1 .. k
                      /\ g.value.command = sent[g.sequence] /\ g.value.predictedState \in Nat
                      /\ \A u \in g.sequence .. k : \E h \in frames' : h.sequence = u
    OBVIOUS
  <2>1. CASE g = new
    BY <1>2, <1>6, <1>8, <1>15, <1>16, <2>1
  <2>2. CASE g # new
    <3>1. g \in frames
      BY <1>13, <2>2
    <3>2. ASSUME NEW u \in g.sequence .. k PROVE \E h \in frames' : h.sequence = u
      BY <1>8, <1>13, <1>14, <3>1
    <3> QED BY <1>14, <3>1, <3>2
  <2> QED BY <2>1, <2>2
<1>18. FramesArePending'
  BY <1>3, <1>9, <1>17 DEF FramesArePending, Held
<1>19. OutcomeNow(e)'
  BY <1>1, <1>3, <1>4, <1>9 DEF OutcomeNow
<1>20. Shown(e, r + 1)'
  <2>1. clientState' = e[r + 1 - 1]
    BY <1>3, <1>6, <1>7, <1>15
  <2>2. ASSUME NEW g \in frames', g.sequence < r + 1
        PROVE  g.value.predictedState = e[g.sequence]
    <3>1. CASE g = new
      BY <1>8, <1>15, <3>1
    <3>2. CASE g # new
      <4>1. g \in frames /\ g.sequence # r /\ g.sequence \in Nat
        BY <1>2, <1>13, <1>14, <3>2
      <4>2. g.sequence < r
        BY <1>6, <2>2, <4>1
      <4> QED BY <1>5, <4>1, <4>2 DEF Shown
    <3> QED BY <3>1, <3>2
  <2>3. \A g, h \in replaying : g.sequence = h.sequence => g = h
    BY <1>5 DEF Shown
  <2>4. \A g \in replaying' : g.sequence \in r + 1 .. k /\ g.value.command = sent[g.sequence]
    <3> SUFFICES ASSUME NEW g \in replaying'
                 PROVE  g.sequence \in r + 1 .. k /\ g.value.command = sent[g.sequence]
      OBVIOUS
    <3>1. g \in replaying /\ g # f
      BY <1>3
    <3>2. g.sequence \in r .. k /\ g.value.command = sent[g.sequence]
      BY <1>1, <1>5, <3>1 DEF Shown
    <3>3. g.sequence # r
      BY <1>6, <2>3, <3>1
    <3> QED BY <1>2, <1>6, <3>2, <3>3
  <2>5. \A u \in r + 1 .. k : \E g \in replaying' : g.sequence = u
    <3> SUFFICES ASSUME NEW u \in r + 1 .. k PROVE \E g \in replaying' : g.sequence = u
      OBVIOUS
    <3>1. u \in r .. k /\ u # r
      BY <1>6
    <3>2. PICK g \in replaying : g.sequence = u
      BY <1>1, <1>5, <3>1 DEF Shown
    <3> QED BY <1>3, <1>6, <3>1, <3>2
  <2>6. \A g, h \in replaying' : g.sequence = h.sequence => g = h
    BY <1>3, <2>3
  <2> QED BY <1>3, <1>9, <2>1, <2>2, <2>4, <2>5, <2>6 DEF Shown
<1>21. r + 1 \in (confirmed + 1 .. ClientTick + 1)'
  BY <1>2, <1>3, <1>6, <1>9
<1> QED BY <1>9, <1>18, <1>19, <1>20, <1>21 DEF WorldInv, ShownInv

LEMMA WorldStep ==
  ASSUME CorrectionThreshold = 0
  PROVE  WorldInv /\ [WorldNext]_worldAll => WorldInv'
<1> SUFFICES ASSUME WorldInv, [WorldNext]_worldAll PROVE WorldInv'
  OBVIOUS
<1>1. CASE UNCHANGED worldAll
  <2>1. /\ frames' = frames /\ window' = window /\ newestTick' = newestTick /\ sent' = sent
        /\ clientState' = clientState /\ replaying' = replaying
        /\ confirmed' = confirmed /\ authoritative' = authoritative
    BY <1>1 DEF worldAll, vars, worldVars
  <2>2. ClientTick' = ClientTick /\ ServerTick' = ServerTick
    BY <2>1 DEF ClientTick, ServerTick
  <2>3. HistoryInv'
    BY <2>1 DEF WorldInv, HistoryInv, OneNewest, HistoryIsOneWindow
  <2>4. Issued' /\ FramesArePending'
    BY <2>1, <2>2 DEF WorldInv, Issued, FramesArePending, Held
  <2>5. ShownInv'
    BY <2>1, <2>2 DEF WorldInv, ShownInv, OutcomeNow, Shown
  <2> QED BY <2>3, <2>4, <2>5 DEF WorldInv
<1>2. ASSUME NEW t \in 1 .. MaxTick, Receive(t) PROVE WorldInv'
  BY <1>2, ReceiveKeeps DEF Receive
<1> QED BY <1>1, <1>2, PredictKeeps, SimulateKeeps, ReplayKeeps DEF WorldNext

(* What the client shows is the outcome, and the outcome is Expected.      *)
LEMMA WorldInvShows == WorldInv => ShowsConfirmedPlusPending
<1> SUFFICES ASSUME WorldInv, replaying = {} PROVE clientState = Expected[ClientTick]
  BY DEF ShowsConfirmedPlusPending
<1>1. PICK e : OutcomeNow(e) /\ \E r \in confirmed + 1 .. ClientTick + 1 : Shown(e, r)
  BY DEF WorldInv, ShownInv
<1>2. PICK r \in confirmed + 1 .. ClientTick + 1 : Shown(e, r)
  BY <1>1
<1>3. confirmed \in Nat /\ ClientTick \in Nat /\ confirmed <= ClientTick
  BY TickFacts DEF WorldInv
<1>4. r = ClientTick + 1
  BY <1>2, <1>3 DEF Shown
<1>5. clientState = e[ClientTick]
  BY <1>2, <1>3, <1>4 DEF Shown
<1>6. OutcomeNow(Expected)
  BY <1>1 DEF OutcomeNow, Outcome, Expected
<1>7. Expected = e
  BY <1>1, <1>3, <1>6, OutcomeIsUnique DEF OutcomeNow
<1> QED BY <1>5, <1>7

(* Without tolerance for a wrong prediction, for any capacity of the       *)
(* history and any number of ticks: whenever no replay is under way, the   *)
(* client shows the newest server state that PredictionBuffer::reconcile   *)
(* could compare, moved forward by every command issued since, however     *)
(* late, repeated or reordered the updates came.                           *)
THEOREM ClientsShowConfirmedPlusPending ==
  ASSUME CorrectionThreshold = 0
  PROVE  WorldSpec => []ShowsConfirmedPlusPending
<1>1. WorldInv /\ [WorldNext]_<<vars, worldVars>> => WorldInv'
  BY WorldStep DEF worldAll
<1> QED BY <1>1, WorldInitially, WorldInvShows, PTL DEF WorldSpec

-----------------------------------------------------------------------------
(* That the history is what is pending needs no threshold: the frames of a *)
(* plan are pending until they have been recorded again, for no update is  *)
(* taken in between.                                                       *)
ReplaysArePending ==
  \A f \in replaying :
    /\ f.sequence \in 1 .. ClientTick
    /\ Later(acknowledgedTick, f.sequence)
    /\ f.value.command = sent[f.sequence]

PendingInv ==
  /\ HistoryInv /\ Issued /\ HistoryIsPending /\ ReplaysArePending
  /\ \A f \in frames : f.sequence \in 1 .. ClientTick
  /\ acknowledgedTick \subseteq 1 .. ServerTick

LEMMA PredictPends ==
  ASSUME PendingInv, NEW c \in Commands, Predict(c)
  PROVE  PendingInv'
<1>1. PICK k : k = ClientTick
  OBVIOUS
<1>2. k \in Nat /\ ServerTick \in Nat /\ ServerTick <= k
  BY <1>1, TickFacts DEF PendingInv
<1>3. /\ window' = {k + 1} /\ ClientTick' = k + 1 /\ ServerTick' = ServerTick
      /\ sent' = [u \in 1 .. k + 1 |-> IF u = k + 1 THEN c ELSE sent[u]]
      /\ HistoryInv' /\ Issued'
  BY <1>1, PredictIssues DEF PendingInv
<1>4. /\ acknowledgedTick' = acknowledgedTick /\ replaying' = {}
      /\ Record(k + 1, c, Step(clientState, c))
  BY <1>1 DEF Predict, Record
<1>5. PICK new :
        /\ new.sequence = k + 1 /\ new.value.command = c
        /\ frames' = {f \in frames : f.sequence # k + 1 /\ \A n \in window' : n < f.sequence + Capacity}
                       \cup {new}
  BY <1>4, Recorded DEF PendingInv
<1>6. \A f \in frames :
        /\ f.sequence \in 1 .. k /\ f.value.command = sent[f.sequence]
        /\ Later(acknowledgedTick, f.sequence)
        /\ \A t \in f.sequence .. k : \E g \in frames : g.sequence = t
  BY <1>1 DEF PendingInv, HistoryIsPending, Held
<1>7. acknowledgedTick \subseteq 1 .. ServerTick
  BY DEF PendingInv
<1>8. ASSUME NEW f \in frames'
      PROVE  /\ f.sequence \in 1 .. k + 1 /\ f.value.command = sent'[f.sequence]
             /\ Later(acknowledgedTick, f.sequence)
             /\ \A t \in f.sequence .. k + 1 : \E g \in frames' : g.sequence = t
  <2>1. CASE f = new
    <3>1. Later(acknowledgedTick, k + 1)
      BY <1>2, <1>7 DEF Later
    <3> QED BY <1>2, <1>3, <1>5, <2>1, <3>1
  <2>2. CASE f # new
    <3>1. f \in frames /\ k + 1 < f.sequence + Capacity /\ f.sequence \in 1 .. k
      BY <1>3, <1>5, <1>6, <2>2
    <3>2. ASSUME NEW t \in f.sequence .. k + 1
          PROVE  \E g \in frames' : g.sequence = t
      <4>1. CASE t = k + 1
        BY <1>5, <4>1
      <4>2. CASE t # k + 1
        <5>1. PICK g \in frames : g.sequence = t
          BY <1>2, <1>6, <3>1, <4>2
        <5>2. k + 1 < g.sequence + Capacity
          BY <1>2, <3>1, <5>1, NumberFacts
        <5>3. g \in frames'
          BY <1>2, <1>3, <1>5, <4>2, <5>1, <5>2
        <5> QED BY <5>1, <5>3
      <4> QED BY <4>1, <4>2
    <3> QED BY <1>2, <1>3, <1>6, <3>1, <3>2
  <2> QED BY <2>1, <2>2
<1>9. HistoryIsPending'
  BY <1>3, <1>4, <1>8 DEF HistoryIsPending, Held
<1> QED BY <1>3, <1>4, <1>7, <1>8, <1>9 DEF PendingInv, ReplaysArePending

LEMMA ReceivePends ==
  ASSUME PendingInv, NEW t \in 1 .. MaxTick, Receive(t)
  PROVE  PendingInv'
<1>1. t \in 1 .. ServerTick
  BY DEF Receive
<1>2. /\ frames' = {f \in frames : f.sequence > t}
      /\ acknowledgedTick' = IF Later(acknowledgedTick, t) THEN {t} ELSE acknowledgedTick
      /\ plan'.replay = frames'
      /\ sent' = sent /\ ClientTick' = ClientTick /\ ServerTick' = ServerTick
      /\ HistoryInv' /\ Issued'
  BY <1>1, ReceiveIssues DEF PendingInv
<1>3. PICK k : k = ClientTick /\ k \in Nat
  BY TickFacts DEF PendingInv
<1>4. t \in Nat
  OBVIOUS
<1>5. ASSUME NEW f \in frames'
      PROVE  /\ f.sequence \in 1 .. k /\ f.value.command = sent[f.sequence]
             /\ Later(acknowledgedTick', f.sequence)
             /\ \A u \in f.sequence .. k : \E g \in frames' : g.sequence = u
  <2>1. /\ f \in frames /\ f.sequence > t /\ f.sequence \in 1 .. k
        /\ f.value.command = sent[f.sequence] /\ Later(acknowledgedTick, f.sequence)
        /\ \A u \in f.sequence .. k : \E g \in frames : g.sequence = u
    BY <1>2, <1>3 DEF PendingInv, HistoryIsPending, Held
  <2>2. Later(acknowledgedTick', f.sequence)
    BY <1>2, <2>1 DEF Later
  <2>3. ASSUME NEW u \in f.sequence .. k PROVE \E g \in frames' : g.sequence = u
    <3>1. PICK g \in frames : g.sequence = u
      BY <2>1
    <3>2. u > t
      BY <1>3, <1>4, <2>1
    <3> QED BY <1>2, <3>1, <3>2
  <2> QED BY <2>1, <2>2, <2>3
<1>6. HistoryIsPending'
  BY <1>2, <1>3, <1>5 DEF HistoryIsPending, Held
<1>7. replaying' = {} \/ replaying' = frames'
  BY <1>2 DEF Receive
<1>8. ReplaysArePending'
  BY <1>2, <1>3, <1>5, <1>7 DEF ReplaysArePending
<1>9. acknowledgedTick' \subseteq 1 .. ServerTick
  BY <1>1, <1>2 DEF PendingInv
<1> QED BY <1>2, <1>3, <1>5, <1>6, <1>8, <1>9 DEF PendingInv

LEMMA ReplayPends ==
  ASSUME PendingInv, Replay
  PROVE  PendingInv'
<1>1. PICK k : k = ClientTick /\ k \in Nat
  BY TickFacts DEF PendingInv
<1>2. PICK f \in replaying :
        /\ Record(f.sequence, f.value.command, Step(clientState, f.value.command))
        /\ replaying' = replaying \ {f}
        /\ sent' = sent /\ authoritative' = authoritative /\ confirmed' = confirmed
  BY DEF Replay
<1>3. PICK r : r = f.sequence
  OBVIOUS
<1>4. r \in 1 .. k /\ f.value.command = sent[r] /\ Later(acknowledgedTick, r)
  BY <1>1, <1>2, <1>3 DEF PendingInv, ReplaysArePending
<1>5. /\ newestTick = {k} /\ window' = {k} /\ ClientTick' = k /\ ServerTick' = ServerTick
      /\ \A g \in frames : k < g.sequence + Capacity
      /\ HistoryInv' /\ Issued'
  BY <1>1, <1>2, <1>3, <1>4, ReplayIssues DEF PendingInv
<1>6. PICK new :
        /\ new.sequence = r /\ new.value.command = sent[r]
        /\ frames' = {g \in frames : g.sequence # r /\ \A n \in window' : n < g.sequence + Capacity}
                       \cup {new}
  BY <1>2, <1>3, <1>4, Recorded DEF PendingInv
<1>7. frames' = {g \in frames : g.sequence # r} \cup {new}
  BY <1>5, <1>6
<1>8. acknowledgedTick' = acknowledgedTick
  BY <1>2 DEF Record
<1>9. \A g \in frames :
        /\ g.sequence \in 1 .. k /\ g.value.command = sent[g.sequence]
        /\ Later(acknowledgedTick, g.sequence)
        /\ \A u \in g.sequence .. k : \E h \in frames : h.sequence = u
  BY <1>1 DEF PendingInv, HistoryIsPending, Held
<1>10. \A u \in r .. k : \E h \in frames' : h.sequence = u
  <2>1. CASE r = k
    BY <1>4, <1>6, <1>7, <2>1
  <2>2. CASE r # k
    <3>1. Held(r) # {}
      BY <1>1, <1>2, <1>3, <1>4, <1>5, <2>2 DEF Record, Refuses
    <3>2. PICK g \in frames : g.sequence = r
      BY <3>1 DEF Held
    <3>3. \A u \in r .. k : \E h \in frames : h.sequence = u
      BY <1>9, <3>2
    <3> QED BY <1>6, <1>7, <3>3
  <2> QED BY <2>1, <2>2
<1>11. ASSUME NEW g \in frames'
       PROVE  /\ g.sequence \in 1 .. k /\ g.value.command = sent[g.sequence]
              /\ Later(acknowledgedTick, g.sequence)
              /\ \A u \in g.sequence .. k : \E h \in frames' : h.sequence = u
  <2>1. CASE g = new
    BY <1>4, <1>6, <1>10, <2>1
  <2>2. CASE g # new
    <3>1. g \in frames
      BY <1>7, <2>2
    <3>2. ASSUME NEW u \in g.sequence .. k PROVE \E h \in frames' : h.sequence = u
      BY <1>6, <1>7, <1>9, <3>1
    <3> QED BY <1>9, <3>1, <3>2
  <2> QED BY <2>1, <2>2
<1>12. HistoryIsPending'
  BY <1>2, <1>5, <1>8, <1>11 DEF HistoryIsPending, Held
<1>13. ReplaysArePending'
  BY <1>1, <1>2, <1>5, <1>8 DEF PendingInv, ReplaysArePending
<1>14. acknowledgedTick' \subseteq 1 .. ServerTick'
  BY <1>5, <1>8 DEF PendingInv
<1> QED BY <1>5, <1>11, <1>12, <1>13, <1>14 DEF PendingInv

LEMMA PendingInitially == WorldInit => PendingInv
<1> SUFFICES ASSUME WorldInit PROVE PendingInv
  OBVIOUS
<1>1. HistoryInv /\ Issued
  BY WorldInitially DEF WorldInv
<1>2. frames = {} /\ replaying = {} /\ acknowledgedTick = {}
  BY DEF WorldInit, Init, Frames!Init
<1> QED BY <1>1, <1>2 DEF PendingInv, HistoryIsPending, ReplaysArePending

LEMMA PendingStep == PendingInv /\ [WorldNext]_worldAll => PendingInv'
<1> SUFFICES ASSUME PendingInv, [WorldNext]_worldAll PROVE PendingInv'
  OBVIOUS
<1>1. CASE UNCHANGED worldAll
  <2>1. /\ frames' = frames /\ window' = window /\ newestTick' = newestTick /\ sent' = sent
        /\ acknowledgedTick' = acknowledgedTick /\ replaying' = replaying
        /\ confirmed' = confirmed /\ authoritative' = authoritative
    BY <1>1 DEF worldAll, vars, worldVars
  <2>2. ClientTick' = ClientTick /\ ServerTick' = ServerTick
    BY <2>1 DEF ClientTick, ServerTick
  <2>3. HistoryInv' /\ Issued'
    BY <2>1, <2>2 DEF PendingInv, HistoryInv, OneNewest, HistoryIsOneWindow, Issued
  <2> QED BY <2>1, <2>2, <2>3 DEF PendingInv, HistoryIsPending, ReplaysArePending, Held
<1>2. ASSUME NEW push \in {0, 1}, Simulate(push) PROVE PendingInv'
  <2>1. /\ frames' = frames /\ acknowledgedTick' = acknowledgedTick /\ sent' = sent
        /\ replaying' = replaying /\ ClientTick' = ClientTick /\ ServerTick' = ServerTick + 1
        /\ HistoryInv' /\ Issued'
    BY <1>2, SimulateIssues DEF PendingInv
  <2>2. acknowledgedTick' \subseteq 1 .. ServerTick'
    BY <2>1, TickFacts DEF PendingInv
  <2> QED BY <2>1, <2>2 DEF PendingInv, HistoryIsPending, ReplaysArePending, Held
<1> QED BY <1>1, <1>2, PredictPends, ReceivePends, ReplayPends DEF WorldNext

(* Whatever threshold, capacity and number of ticks: a client that carries *)
(* out each plan of PredictionBuffer before it takes the next update holds *)
(* frames of ticks after the newest acknowledged one only, each with the   *)
(* command sent for it, and none is missing after the oldest.              *)
THEOREM HistoryStaysPending == WorldSpec => []HistoryIsPending
<1>1. PendingInv => HistoryIsPending
  BY DEF PendingInv
<1>2. PendingInv /\ [WorldNext]_<<vars, worldVars>> => PendingInv'
  BY PendingStep DEF worldAll
<1> QED BY <1>1, <1>2, PendingInitially, PTL DEF WorldSpec
=============================================================================
