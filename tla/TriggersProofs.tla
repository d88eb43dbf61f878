---------------------------- MODULE TriggersProofs ----------------------------
(***************************************************************************)
(* Proofs about the telemetry triggers, for every set of ids and every     *)
(* number of triggers.  What must be known besides the properties is that  *)
(* an id that is anywhere has been used: a created trigger's UUID is new,  *)
(* so it meets no other trigger of that id, and none that was deleted.     *)
(***************************************************************************)
EXTENDS Triggers, FiniteSetTheorems, TLAPS

TriggerInv ==
    /\ TriggerTypeOK
    /\ LocationLeadsToIt
    /\ DeletedTriggerGone
    /\ \A i \in DOMAIN triggers : triggers[i] \in used \cup {NoText}
    /\ kept \cup removed \subseteq used

\* Exactly one trigger has the id.
Alone(id) == \E i \in DOMAIN triggers : With(id) = {i}

LEMMA TriggerInitInv == TriggerInit => TriggerInv
BY DEF TriggerInit, TriggerInv, TriggerTypeOK, LocationLeadsToIt, DeletedTriggerGone, With

LEMMA CreateInv ==
    ASSUME TriggerInv, NEW id \in TriggerIds, create_trigger(id)
    PROVE  TriggerInv'
<1> DEFINE last == Len(triggers) + 1
<1>1. /\ TriggerTypeOK /\ id \notin used /\ id # NoText
      /\ triggers' = Append(triggers, id)
      /\ triggers \in Seq(TriggerIds \cup {NoText})
  BY TriggerAssumption DEF TriggerInv, TriggerTypeOK, create_trigger
<1>2. /\ triggers' \in Seq(TriggerIds \cup {NoText})
      /\ DOMAIN triggers' = DOMAIN triggers \cup {last} /\ last \notin DOMAIN triggers
      /\ triggers'[last] = id /\ \A i \in DOMAIN triggers : triggers'[i] = triggers[i]
  BY <1>1
<1>3. With(id) = {}
  BY <1>1 DEF TriggerInv, With
<1>4. With(id)' = {last} /\ \A x : x # id => With(x)' = With(x)
  BY <1>2, <1>3 DEF With
<1>5. TriggerTypeOK'
  BY <1>1, <1>2 DEF create_trigger, TriggerTypeOK
<1>6. LocationLeadsToIt'
  BY <1>2, <1>4 DEF TriggerInv, LocationLeadsToIt, create_trigger
<1>7. DeletedTriggerGone'
  BY <1>1, <1>4 DEF TriggerInv, DeletedTriggerGone, create_trigger
<1>8. (\A i \in DOMAIN triggers : triggers[i] \in used \cup {NoText})'
  BY <1>2 DEF TriggerInv, create_trigger
<1>9. QED
  BY <1>5, <1>6, <1>7, <1>8 DEF TriggerInv, create_trigger

LEMMA PatchInv ==
    ASSUME TriggerInv, NEW id \in TriggerIds, NEW new \in TriggerIds \cup {NoText},
           patch_trigger(id, new)
    PROVE  TriggerInv'
<1>1. PICK place \in Found(id) : triggers' = [triggers EXCEPT ![place] = new]
  BY DEF patch_trigger
<1>2. /\ TriggerTypeOK /\ triggers \in Seq(TriggerIds \cup {NoText})
      /\ place \in DOMAIN triggers /\ triggers[place] = id
  BY <1>1 DEF TriggerInv, TriggerTypeOK, Found, With
<1>3. /\ triggers' \in Seq(TriggerIds \cup {NoText})
      /\ DOMAIN triggers' = DOMAIN triggers
      /\ triggers'[place] = new
      /\ \A i \in DOMAIN triggers \ {place} : triggers'[i] = triggers[i]
  BY <1>1, <1>2
<1>4. TriggerTypeOK'
  BY <1>2, <1>3, TriggerAssumption DEF TriggerTypeOK, patch_trigger
<1>5. \A x : x # new => With(x)' \subseteq With(x)
  BY <1>3 DEF With
<1>6. \A x : x # new /\ x # id => With(x)' = With(x)
  BY <1>2, <1>3 DEF With
<1>7. LocationLeadsToIt'
  <2>1. CASE new = id
    <3>1. kept' = kept /\ given' = given
      BY <2>1 DEF patch_trigger
    <3>2. \A i \in DOMAIN triggers : triggers'[i] = triggers[i]
      BY <1>2, <1>3, <2>1
    <3>3. \A x : With(x)' = With(x)
      BY <1>3, <3>2 DEF With
    <3>4. QED
      BY <1>3, <3>1, <3>3 DEF TriggerInv, LocationLeadsToIt
  <2>2. CASE new # id
    <3>1. kept' \ given' = (kept \ given) \ {id, new}
      BY <2>2 DEF patch_trigger
    <3>2. QED
      BY <1>3, <1>6, <3>1 DEF TriggerInv, LocationLeadsToIt
  <2>3. QED
    BY <2>1, <2>2
<1>8. DeletedTriggerGone'
  BY <1>5 DEF TriggerInv, DeletedTriggerGone, patch_trigger
<1>9. (\A i \in DOMAIN triggers : triggers[i] \in used \cup {NoText})'
  BY <1>3 DEF TriggerInv, patch_trigger
<1>10. kept' \cup removed' \subseteq used'
  BY <1>2, TriggerAssumption DEF TriggerInv, TriggerTypeOK, patch_trigger
<1>11. QED
  BY <1>4, <1>7, <1>8, <1>9, <1>10 DEF TriggerInv

\* What retain leaves of a list: it stays a list, of the triggers at these
\* places, and one that was alone with its id and is left stays alone.
LEMMA Retained ==
    ASSUME TriggerTypeOK, NEW places \in SUBSET DOMAIN triggers, retain(places)
    PROVE  /\ triggers' \in Seq(TriggerIds \cup {NoText})
           /\ \A i \in DOMAIN triggers' : \E place \in places : triggers'[i] = triggers[place]
           /\ \A x : Alone(x) /\ With(x) \subseteq places => Alone(x)'
<1>1. PICK order \in InOrder(places) : triggers' = [i \in DOMAIN order |-> triggers[order[i]]]
  BY DEF retain
<1>2. /\ order \in [1..Cardinality(places) -> places]
      /\ \A i, j \in DOMAIN order : i < j => order[i] < order[j]
      /\ \A place \in places : \E i \in DOMAIN order : order[i] = place
  BY <1>1 DEF InOrder
<1>3. triggers \in Seq(TriggerIds \cup {NoText}) /\ DOMAIN triggers = 1..Len(triggers)
  BY DEF TriggerTypeOK
<1>4. Cardinality(places) \in Nat
  <2>1. IsFiniteSet(1..Len(triggers))
    BY <1>3, FS_Interval
  <2>2. IsFiniteSet(places)
    BY <1>3, <2>1, FS_Subset
  <2>3. QED
    BY <2>2, FS_CardinalityType
<1>5. triggers' \in Seq(TriggerIds \cup {NoText})
  <2> DEFINE n == Cardinality(places)
  <2>1. \A i \in 1..n : triggers[order[i]] \in TriggerIds \cup {NoText}
    BY <1>2, <1>3
  <2>2. triggers' = [i \in 1..n |-> triggers[order[i]]]
    BY <1>1, <1>2
  <2>3. n \in Nat
    BY <1>4
  <2> HIDE DEF n
  <2>4. QED
    BY <2>1, <2>2, <2>3
<1>6. \A i \in DOMAIN triggers' : \E place \in places : triggers'[i] = triggers[place]
  BY <1>1, <1>2
<1>7. \A i, j \in DOMAIN order : order[i] = order[j] => i = j
  <2>1. \A i \in DOMAIN order : i \in Nat /\ order[i] \in Nat
    BY <1>2, <1>3
  <2>2. QED
    BY <1>2, <2>1
<1>8. ASSUME NEW x, Alone(x), With(x) \subseteq places
      PROVE  Alone(x)'
  <2>1. PICK place \in DOMAIN triggers : With(x) = {place}
    BY <1>8 DEF Alone
  <2>2. PICK i \in DOMAIN order : order[i] = place
    BY <1>2, <1>8, <2>1
  <2>3. With(x)' = {i}
    <3>1. \A j \in DOMAIN order : triggers[order[j]] = x <=> order[j] = place
      BY <1>2, <2>1 DEF With
    <3>2. QED
      BY <1>1, <1>7, <2>2, <3>1 DEF With
  <2>4. QED
    BY <1>1, <2>2, <2>3 DEF Alone
<1>9. QED
  BY <1>5, <1>6, <1>8

LEMMA DeleteInv ==
    ASSUME TriggerInv, NEW id \in TriggerIds, delete_trigger(id)
    PROVE  TriggerInv'
<1> DEFINE left == DOMAIN triggers \ With(id)
<1>1. /\ TriggerTypeOK /\ With(id) # {} /\ retain(left)
      /\ kept' = kept \ {id} /\ given' = given \ {id} /\ removed' = removed \cup {id}
      /\ used' = used
  BY DEF TriggerInv, delete_trigger, Forget
<1>2. /\ triggers' \in Seq(TriggerIds \cup {NoText})
      /\ \A i \in DOMAIN triggers' : \E place \in left : triggers'[i] = triggers[place]
      /\ \A x : Alone(x) /\ With(x) \subseteq left => Alone(x)'
  BY <1>1, Retained
<1>3. With(id)' = {} /\ \A x : With(x) = {} => With(x)' = {}
  BY <1>2 DEF With
<1>4. id \in used
  BY <1>1, TriggerAssumption DEF TriggerInv, With
<1>5. TriggerTypeOK'
  BY <1>1, <1>2 DEF TriggerTypeOK
<1>6. LocationLeadsToIt'
  <2>1. ASSUME NEW x \in kept' \ given'
        PROVE  Alone(x)'
    <3>1. x # id /\ x \in kept \ given
      BY <1>1
    <3>2. Alone(x) /\ With(x) \subseteq left
      BY <3>1 DEF TriggerInv, LocationLeadsToIt, Alone, With
    <3>3. QED
      BY <1>2, <3>2
  <2>2. QED
    BY <2>1 DEF LocationLeadsToIt, Alone
<1>7. DeletedTriggerGone'
  BY <1>1, <1>3 DEF TriggerInv, DeletedTriggerGone
<1>8. (\A i \in DOMAIN triggers : triggers[i] \in used \cup {NoText})'
  BY <1>1, <1>2 DEF TriggerInv
<1>9. QED
  BY <1>1, <1>4, <1>5, <1>6, <1>7, <1>8 DEF TriggerInv

LEMMA TriggerStepInv == TriggerInv /\ [TriggerNext]_triggerVars => TriggerInv'
<1> SUFFICES ASSUME TriggerInv, [TriggerNext]_triggerVars PROVE TriggerInv'
  OBVIOUS
<1>1. CASE UNCHANGED triggerVars
  BY <1>1 DEF triggerVars, TriggerInv, TriggerTypeOK, LocationLeadsToIt, DeletedTriggerGone, With
<1>2. ASSUME NEW id \in TriggerIds, get_trigger(id) PROVE TriggerInv'
  BY <1>1, <1>2 DEF get_trigger
<1>3. QED
  BY <1>1, <1>2, CreateInv, PatchInv, DeleteInv DEF TriggerNext

\* The Location of a created trigger leads to it alone, until a client deletes
\* it, renames it, or renames another to its Id.
THEOREM LocationLeadsToItCorrect == TriggerSpec => []LocationLeadsToIt
<1>1. TriggerInv => LocationLeadsToIt
  BY DEF TriggerInv
<1>2. QED
  BY TriggerInitInv, TriggerStepInv, <1>1, PTL DEF TriggerSpec

\* A deleted id is found again only after a PATCH gave it to a trigger.
THEOREM DeletedTriggerGoneCorrect == TriggerSpec => []DeletedTriggerGone
<1>1. TriggerInv => DeletedTriggerGone
  BY DEF TriggerInv
<1>2. QED
  BY TriggerInitInv, TriggerStepInv, <1>1, PTL DEF TriggerSpec
=============================================================================
