--------------------------- MODULE SettingsProofs ---------------------------
(***************************************************************************)
(* Proofs about the setting of D-Bus properties, for every form that       *)
(* FormAssumption admits, bodies of any size, and calls that fail or are   *)
(* overtaken at any point.                                                 *)
(***************************************************************************)
EXTENDS Settings, WellFoundedInduction, TLAPS

-----------------------------------------------------------------------------
(* The invariant.                                                          *)

\* The call i, and what it sets to which value, or copies.
W(i) == F.writes[i]
Prop(i) == W(i).stored[Chosen(W(i))].prop
Val(i) == W(i).stored[Chosen(W(i))].value
Copied(i) == W(i).copies[Chosen(W(i))]

\* The body names members of the form, with values these may have.
BodyOK ==
    /\ DOMAIN patch.body \subseteq Items
    /\ \A w \in Members : w.item \in DOMAIN patch.body => Chosen(w) \in DOMAIN w.stored

Phases == {"idle", "writing", "copied", "reading", "done"}
Statuses == {0, 200, 400, 404, 500, 503}

Patch(body, seen, copy) ==
    [pc: Phases, body: {body}, status: Statuses, todo: SUBSET DOMAIN F.writes, copy: {copy},
     left: Nat, seen: {seen}, failed: SUBSET DOMAIN body, blind: BOOLEAN,
     mine: SUBSET DOMAIN F.props, touched: SUBSET DOMAIN F.props]

ValueInv ==
    /\ form \in DOMAIN Forms /\ online \in BOOLEAN
    /\ value = [p \in DOMAIN F.props |-> value[p]]
    /\ \A p \in DOMAIN F.props : value[p] \in F.props[p]

PatchInv ==
    /\ patch \in Patch(patch.body, patch.seen, patch.copy)
    /\ BodyOK

\* The calls still to be made are the last ones of those the body asks for,
\* and nothing is read before the last is made.
OrderInv ==
    /\ patch.todo \subseteq Asked(patch.body)
    /\ online => \A i \in patch.todo : \A j \in Asked(patch.body) \ patch.todo : j < i
    /\ patch.pc \in {"writing", "copied"} <=> patch.todo # {}
    /\ patch.todo # {} => DOMAIN patch.seen = {}
    /\ patch.pc = "reading" => patch.left > 0
    /\ patch.left <= Len(F.reads)
    /\ patch.pc = "idle" => patch = NoPatch

\* What is said of a request by its status.
StatusInv ==
    /\ Rejected(patch.body) => patch.pc = "done" /\ patch.status = 400
    /\ patch.status = 400 => patch.mine = {} /\ DOMAIN patch.seen = {} /\ patch.todo = {}
    /\ patch.status = 400 => Rejected(patch.body)
    /\ patch.status = 200 /\ F.refused # 200 => patch.failed = {}
    /\ patch.mine \subseteq {Prop(i) : i \in Asked(patch.body)}

\* The calls that were made and did not fail, and whose property nobody has
\* set since.
Standing(i) ==
    /\ i \in Asked(patch.body) \ patch.todo
    /\ W(i).item \notin patch.failed
    /\ Prop(i) \notin patch.touched

\* Their properties are as the body asks, or as the ones copied.
WorkInv ==
    online /\ ~ Rejected(patch.body) =>
        \A i \in DOMAIN F.writes : Standing(i) =>
            /\ Copied(i) = {} => value[Prop(i)] = Val(i)
            /\ ~ patch.blind => \A s \in Copied(i) :
                                   s \notin patch.touched => value[Prop(i)] = value[s]

\* Between a copy and its call.
CopyInv ==
    patch.pc = "copied" =>
        /\ Copying(Call)
        /\ patch.copy \in F.props[Property]
        /\ ~ patch.blind => \A s \in Copied(NextCall) :
                               s \notin patch.touched => patch.copy = value[s]

\* What was read is of a member of the body, and what was read of a property
\* is its value, unless somebody else has set it since.
SeenInv ==
    \A p \in DOMAIN patch.seen :
        /\ p \in DOMAIN F.props
        /\ \E w \in Members : w.item \in DOMAIN patch.body /\ p \in Concerned(w)
        /\ patch.seen[p] # Unread /\ p \notin patch.touched => patch.seen[p] = value[p]

SettingsInv ==
    /\ ValueInv /\ PatchInv /\ OrderInv /\ StatusInv
    /\ WorkInv /\ CopyInv /\ SeenInv

-----------------------------------------------------------------------------
(* Facts about forms, bodies and requests.                                 *)

LEMMA MinOfNaturals ==
    ASSUME NEW S \in SUBSET Nat, S # {}
    PROVE  Min(S) \in S /\ \A n \in S : Min(S) <= n
<1> DEFINE Less == {ss \in Nat \X Nat : ss[1] < ss[2]}
<1>1. OpToRel(<, Nat) = Less
  BY Zenon DEF OpToRel
<1>2. IsWellFoundedOn(Less, Nat)
  <2> HIDE DEF Less
  <2> QED BY <1>1, NatLessThanWellFounded, Zenon
<1>3. PICK x \in S : \A y \in S : ~ (<<y, x>> \in Less)
  <2> HIDE DEF Less
  <2> QED BY <1>2, WFMin, Zenon
<1>4. ASSUME NEW y \in S, y < x PROVE FALSE
  <2>1. <<y, x>> \in Nat \X Nat /\ <<y, x>>[1] = y /\ <<y, x>>[2] = x
    OBVIOUS
  <2>2. <<y, x>> \in Less
    BY <2>1, <1>4
  <2> QED BY <2>2, <1>3
<1>5. \A y \in S : x <= y
  BY <1>4
<1>6. QED
  BY <1>5 DEF Min

\* What a call that the body asks for is about.
LEMMA CallFacts ==
    ASSUME ValueInv, BodyOK, NEW i \in Asked(patch.body)
    PROVE  /\ i \in Nat /\ i \in DOMAIN F.writes
           /\ W(i) \in Writes /\ W(i) \in Members /\ W(i).item \in DOMAIN patch.body
           /\ Chosen(W(i)) \in DOMAIN W(i).stored
           /\ Prop(i) \in DOMAIN F.props /\ Val(i) \in F.props[Prop(i)]
           /\ Prop(i) \in Targets(W(i)) /\ Prop(i) \in Concerned(W(i))
           /\ Copied(i) \subseteq Concerned(W(i)) /\ Copied(i) \subseteq DOMAIN F.props
           /\ \A s \in Copied(i) : Copied(i) = {s} /\ F.props[s] \subseteq F.props[Prop(i)]
<1>1. FormFits(F)
  BY FormAssumption DEF ValueInv, F
<1>2. i \in Nat /\ i \in DOMAIN F.writes /\ W(i).item \in DOMAIN patch.body
  BY <1>1 DEF FormFits, Asked, W
<1>3. W(i) \in Writes /\ W(i) \in Members
  BY <1>2 DEF W, Writes, Members
<1>4. Chosen(W(i)) \in DOMAIN W(i).stored
  BY <1>2, <1>3 DEF BodyOK
<1>5. WriteFits(F, W(i))
  BY <1>1, <1>2 DEF FormFits, W
<1>6. Prop(i) \in Targets(W(i))
  BY <1>4 DEF Targets, Prop
<1>7. Copied(i) \subseteq Concerned(W(i)) /\ Prop(i) \in Concerned(W(i))
  BY <1>4, <1>6 DEF Concerned, Copied
<1>8. QED
  BY <1>2, <1>3, <1>4, <1>5, <1>6, <1>7 DEF WriteFits, Prop, Val, Copied

\* Two calls have different members and properties, and none sets what an
\* earlier one has copied.
LEMMA CallsApart ==
    ASSUME ValueInv, BodyOK, NEW i \in Asked(patch.body), NEW j \in Asked(patch.body)
    PROVE  /\ i # j => W(i).item # W(j).item /\ Prop(i) # Prop(j)
           /\ j >= i => Prop(j) \notin Copied(i)
<1>1. FormFits(F)
  BY FormAssumption DEF ValueInv, F
<1>2. /\ Prop(i) \in Targets(W(i)) /\ Prop(j) \in Targets(W(j))
      /\ i \in DOMAIN F.writes /\ j \in DOMAIN F.writes
      /\ Chosen(W(i)) \in DOMAIN W(i).stored
  BY CallFacts
<1>3. i # j => W(i).item # W(j).item /\ Targets(W(i)) \cap Targets(W(j)) = {}
  <2>1. TargetsApart(F)
    BY <1>1 DEF FormFits
  <2>2. ASSUME i # j PROVE W(i).item # W(j).item
    BY <2>1, <2>2, <1>2 DEF TargetsApart, W
  <2>3. ASSUME i # j PROVE Targets(W(i)) \cap Targets(W(j)) = {}
    BY <2>1, <2>3, <1>2 DEF TargetsApart, W
  <2>4. QED
    BY <2>2, <2>3
<1>4. j >= i => Copied(i) \cap Targets(W(j)) = {}
  <2>1. CopiesOfEarlier(F)
    BY <1>1 DEF FormFits
  <2>2. QED
    BY <2>1, <1>2 DEF CopiesOfEarlier, W, Copied
<1>5. QED
  BY <1>2, <1>3, <1>4

\* The next call is the first of those still to be made.
LEMMA NextCallIs ==
    ASSUME ValueInv, PatchInv, OrderInv, patch.todo # {}
    PROVE  /\ NextCall \in patch.todo /\ NextCall \in Asked(patch.body)
           /\ \A i \in patch.todo : NextCall <= i
           /\ Call = W(NextCall) /\ Property = Prop(NextCall)
           /\ Copying(Call) <=> Copied(NextCall) # {}
<1>1. patch.todo \subseteq Nat
  BY CallFacts DEF OrderInv, PatchInv
<1>2. NextCall \in patch.todo /\ \A i \in patch.todo : NextCall <= i
  BY <1>1, MinOfNaturals DEF NextCall
<1>3. QED
  BY <1>2 DEF OrderInv, Call, W, Property, Prop, Copying, Copied

\* What does not depend on the request.
LEMMA SameForm ==
    ASSUME F' = F
    PROVE  Members' = Members /\ \A w : Concerned(w)' = Concerned(w)
BY DEF Members, Writes, Concerned, Targets, ReadFor, AnswerMembers, Sources

\* A step that keeps the form and the body keeps what its calls are about.
LEMMA SameBody ==
    ASSUME UNCHANGED form, patch'.body = patch.body
    PROVE  /\ F' = F /\ Asked(patch.body)' = Asked(patch.body)
           /\ Rejected(patch.body)' = Rejected(patch.body)
           /\ \A i : /\ W(i)' = W(i) /\ Prop(i)' = Prop(i) /\ Val(i)' = Val(i)
                     /\ Copied(i)' = Copied(i) /\ Chosen(W(i))' = Chosen(W(i))
           /\ BodyOK' = BodyOK
<1>1. F' = F
  BY DEF F
<1>2. QED
  BY <1>1 DEF Asked, Rejected, W, Prop, Val, Copied, Chosen, BodyOK, Items, Members, Writes

\* What is left after each call or read.
LEMMA OnwardIs ==
    ASSUME NEW body, NEW seen, NEW copy, NEW q \in Patch(body, seen, copy)
    PROVE  /\ Onward(q) \in Patch(body, seen, copy)
           /\ Onward(q).todo = q.todo /\ Onward(q).left = q.left
           /\ Onward(q).status = q.status /\ Onward(q).failed = q.failed
           /\ Onward(q).blind = q.blind
           /\ Onward(q).mine = q.mine /\ Onward(q).touched = q.touched
           /\ \/ Onward(q).pc = "writing" /\ q.todo # {}
              \/ Onward(q).pc = "reading" /\ q.todo = {} /\ q.left > 0
              \/ Onward(q).pc = "done" /\ q.todo = {}
BY DEF Onward, Patch, Phases

-----------------------------------------------------------------------------
(* The steps.                                                              *)

LEMMA NothingAsked ==
    ASSUME patch.body = << >>
    PROVE  /\ DOMAIN patch.body = {} /\ Asked(patch.body) = {} /\ ~ Rejected(patch.body)
           /\ BodyOK
BY DEF Asked, Rejected, BodyOK

\* With no request, only the values matter.
LEMMA IdleInv == ValueInv /\ patch = NoPatch => SettingsInv
<1> SUFFICES ASSUME ValueInv, patch = NoPatch PROVE SettingsInv
  OBVIOUS
<1>1. /\ patch.pc = "idle" /\ patch.body = << >> /\ patch.status = 0 /\ patch.todo = {}
      /\ patch.left = 0 /\ patch.seen = << >> /\ patch.failed = {}
      /\ patch.blind = FALSE /\ patch.mine = {} /\ patch.touched = {}
  BY DEF NoPatch
<1>2. /\ DOMAIN patch.body = {} /\ Asked(patch.body) = {} /\ ~ Rejected(patch.body)
      /\ BodyOK
  BY <1>1, NothingAsked
<1>3. DOMAIN patch.seen = {}
  BY <1>1
<1>4. PatchInv
  <2>1. patch \in Patch(patch.body, patch.seen, patch.copy)
    BY DEF NoPatch, Patch, Phases, Statuses
  <2>2. QED
    BY <2>1, <1>2, <1>3 DEF PatchInv
<1>5. Len(F.reads) \in Nat
  BY FormAssumption DEF ValueInv, F, FormFits
<1>6. OrderInv
  BY <1>1, <1>2, <1>3, <1>5 DEF OrderInv
<1>7. StatusInv
  BY <1>1, <1>2, <1>3 DEF StatusInv
<1>8. WorkInv /\ SeenInv
  BY <1>2, <1>3 DEF WorkInv, SeenInv, Standing
<1>9. CopyInv
  BY <1>1 DEF CopyInv
<1>10. QED
  BY <1>4, <1>6, <1>7, <1>8, <1>9 DEF SettingsInv

LEMMA InitInv == SettingsInit => SettingsInv
<1> SUFFICES ASSUME SettingsInit PROVE SettingsInv
  OBVIOUS
<1>1. form \in DOMAIN Forms /\ FormFits(F)
  BY FormAssumption DEF SettingsInit, F
<1>2. ValueInv
  BY <1>1 DEF SettingsInit, ValueInv, FormFits
<1>3. QED
  BY <1>2, IdleInv DEF SettingsInit

LEMMA ChangeInv ==
    ASSUME SettingsInv, NEW p \in DOMAIN F.props, NEW v \in F.changes[p], Change(p, v)
    PROVE  SettingsInv'
<1>1. UNCHANGED <<form, online>>
  BY DEF Change
<1>2. v \in F.props[p]
  BY FormAssumption DEF SettingsInv, ValueInv, F, FormFits
<1>3. ValueInv'
  BY <1>1, <1>2 DEF SettingsInv, ValueInv, Change, F
<1>4. patch \in Patch(patch.body, patch.seen, patch.copy)
  BY DEF SettingsInv, PatchInv
<1>5. /\ patch' \in Patch(patch.body, patch.seen, patch.copy)
      /\ patch'.body = patch.body /\ patch'.seen = patch.seen /\ patch'.copy = patch.copy
      /\ patch'.pc = patch.pc /\ patch'.status = patch.status /\ patch'.todo = patch.todo
      /\ patch'.left = patch.left /\ patch'.failed = patch.failed
      /\ patch'.blind = patch.blind /\ patch'.mine = patch.mine
      /\ patch.touched \subseteq patch'.touched
  BY <1>4 DEF Change, Patch
<1>6. \A w \in Members : w.item \in DOMAIN patch.body /\ p \in Concerned(w)
                             => p \in patch'.touched
  BY <1>4 DEF Change, Patch
<1>7. /\ F' = F /\ Asked(patch.body)' = Asked(patch.body)
      /\ Rejected(patch.body)' = Rejected(patch.body)
      /\ \A i : /\ W(i)' = W(i) /\ Prop(i)' = Prop(i) /\ Val(i)' = Val(i)
                /\ Copied(i)' = Copied(i) /\ Chosen(W(i))' = Chosen(W(i))
      /\ BodyOK' = BodyOK
  BY <1>1, <1>5, SameBody
<1>8. PatchInv'
  BY <1>5, <1>7 DEF SettingsInv, PatchInv, Patch
<1>9. OrderInv'
  <2>1. patch = NoPatch => patch' = NoPatch
    <3>1. SUFFICES ASSUME patch = NoPatch PROVE patch' = patch
      OBVIOUS
    <3>2. DOMAIN patch.body = {}
      BY <3>1, NothingAsked DEF NoPatch
    <3>3. QED
      BY <3>2 DEF Change
  <2>2. QED
    BY <1>1, <1>5, <1>7, <2>1 DEF SettingsInv, OrderInv
<1>10. StatusInv'
  BY <1>5, <1>7 DEF SettingsInv, StatusInv
<1>11. \A i \in DOMAIN F.writes : Standing(i)' => Standing(i)
  BY <1>5, <1>7 DEF Standing
<1>12. \A i \in Asked(patch.body) : \A s \in Copied(i) \cup {Prop(i)} :
          s \notin patch'.touched => value'[s] = value[s]
  <2> SUFFICES ASSUME NEW i \in Asked(patch.body), NEW s \in Copied(i) \cup {Prop(i)},
                      s \notin patch'.touched
               PROVE  value'[s] = value[s]
    OBVIOUS
  <2>1. W(i) \in Members /\ W(i).item \in DOMAIN patch.body /\ s \in Concerned(W(i))
        /\ s \in DOMAIN F.props
    BY CallFacts DEF SettingsInv, PatchInv
  <2>2. s # p
    BY <1>6, <2>1
  <2>3. QED
    BY <2>1, <2>2 DEF Change, SettingsInv, ValueInv
<1>13. WorkInv'
  BY <1>1, <1>5, <1>7, <1>11, <1>12 DEF SettingsInv, WorkInv, Standing
<1>14. CopyInv'
  <2> SUFFICES ASSUME patch'.pc = "copied" PROVE CopyInv'
    BY DEF CopyInv
  <2>1. NextCall' = NextCall /\ Property' = Property /\ Copying(Call)' = Copying(Call)
    BY <1>1, <1>5, <1>7 DEF NextCall, Property, Copying, Call, Chosen
  <2>2. NextCall \in Asked(patch.body)
    BY <1>5, NextCallIs DEF SettingsInv, OrderInv
  <2>3. QED
    BY <1>5, <1>7, <1>12, <2>1, <2>2 DEF SettingsInv, CopyInv
<1>15. SeenInv'
  <2>1. Members' = Members /\ \A w : Concerned(w)' = Concerned(w)
    BY <1>7, SameForm
  <2>2. ASSUME NEW s \in DOMAIN patch.seen
        PROVE  /\ s \in DOMAIN F.props
               /\ \E w \in Members : w.item \in DOMAIN patch.body /\ s \in Concerned(w)
               /\ patch.seen[s] # Unread /\ s \notin patch'.touched =>
                     patch.seen[s] = value'[s]
    <3>1. /\ s \in DOMAIN F.props
          /\ \E w \in Members : w.item \in DOMAIN patch.body /\ s \in Concerned(w)
          /\ patch.seen[s] # Unread /\ s \notin patch.touched => patch.seen[s] = value[s]
      BY DEF SettingsInv, SeenInv
    <3>2. s \notin patch'.touched => s \notin patch.touched /\ s # p
      BY <1>5, <1>6, <3>1
    <3>3. s # p => value'[s] = value[s]
      BY <3>1 DEF Change, SettingsInv, ValueInv
    <3>4. QED
      BY <3>1, <3>2, <3>3
  <2>3. QED
    BY <1>5, <1>7, <2>1, <2>2 DEF SeenInv
<1>16. QED
  BY <1>3, <1>8, <1>9, <1>10, <1>13, <1>14, <1>15 DEF SettingsInv

LEMMA EmptyHasNoMembers ==
    ASSUME NEW f, f = << >>
    PROVE  DOMAIN f = {}
OBVIOUS

LEMMA AcceptInv ==
    ASSUME SettingsInv, NEW body \in Bodies, Accept(body)
    PROVE  SettingsInv'
<1> DEFINE status == IF online THEN 200 ELSE F.offline
           todo == IF online THEN Asked(body) ELSE {}
           left == IF online THEN Len(F.reads) ELSE 0
<1>n. PICK none, blank : none = << >> /\ DOMAIN none = {} /\ blank = ""
  BY EmptyHasNoMembers
<1>0. PICK q : q = [NoPatch EXCEPT !.body = body, !.status = status, !.todo = todo,
                                   !.left = left]
  OBVIOUS
<1>1. /\ UNCHANGED <<form, online, value>> /\ F' = F /\ patch' = Onward(q)
      /\ ~ Rejected(body)
  BY <1>0 DEF Accept, F
<1>2. FormFits(F)
  BY FormAssumption DEF SettingsInv, ValueInv, F
<1>3. ValueInv'
  BY <1>1 DEF SettingsInv, ValueInv
<1> HIDE DEF status, todo, left
<1>4. q = [pc |-> "idle", body |-> body, status |-> status, todo |-> todo, copy |-> blank,
           left |-> left, seen |-> none, failed |-> {}, blind |-> FALSE,
           mine |-> {}, touched |-> {}]
  BY <1>0, <1>n DEF NoPatch
<1>5. /\ status \in {200, 404, 500, 503} /\ todo \subseteq Asked(body)
      /\ todo \in SUBSET DOMAIN F.writes /\ left \in Nat /\ left <= Len(F.reads)
      /\ online => todo = Asked(body)
  BY <1>2 DEF FormFits, Asked, SettingsInv, ValueInv, status, todo, left
<1>6. /\ q \in Patch(body, none, blank) /\ q.status = status /\ q.todo = todo /\ q.left = left
      /\ q.failed = {} /\ q.mine = {}
  <2>1. "idle" \in Phases /\ status \in Statuses
    BY <1>5 DEF Phases, Statuses
  <2>2. q \in Patch(body, none, blank)
    BY <1>4, <1>5, <2>1 DEF Patch
  <2>3. QED
    BY <1>4, <2>2
<1>7. /\ patch' \in Patch(body, none, blank) /\ patch'.todo = todo /\ patch'.left = left
      /\ patch'.status = status /\ patch'.failed = {} /\ patch'.mine = {}
      /\ \/ patch'.pc = "writing" /\ todo # {}
         \/ patch'.pc = "reading" /\ todo = {} /\ left > 0
         \/ patch'.pc = "done" /\ todo = {}
  <2>1. /\ Onward(q) \in Patch(body, none, blank)
        /\ Onward(q).todo = q.todo /\ Onward(q).left = q.left
        /\ Onward(q).status = q.status /\ Onward(q).failed = q.failed
        /\ Onward(q).mine = q.mine
        /\ \/ Onward(q).pc = "writing" /\ q.todo # {}
           \/ Onward(q).pc = "reading" /\ q.todo = {} /\ q.left > 0
           \/ Onward(q).pc = "done" /\ q.todo = {}
    BY <1>6, OnwardIs
  <2>2. QED
    BY <1>1, <1>6, <2>1
<1>8. patch'.body = body /\ patch'.seen = none /\ patch'.copy = blank
  BY <1>7 DEF Patch
<1>9. DOMAIN patch'.seen = {}
  BY <1>8, <1>n
<1>10. /\ Asked(patch.body)' = Asked(body) /\ Rejected(patch.body)' = Rejected(body)
       /\ Items' = Items /\ Members' = Members
  BY <1>1, <1>8 DEF Asked, Rejected, Items, Members, Writes
<1>11. BodyOK'
  BY <1>8, <1>10 DEF Bodies, BodyOK, Chosen
<1>12. PatchInv'
  BY <1>1, <1>7, <1>8, <1>9, <1>11 DEF PatchInv, Patch
<1>13. OrderInv'
  BY <1>1, <1>5, <1>7, <1>9, <1>10 DEF OrderInv
<1>14. StatusInv'
  BY <1>1, <1>5, <1>7, <1>10 DEF StatusInv
<1>15. WorkInv'
  BY <1>1, <1>5, <1>7, <1>10 DEF WorkInv, Standing
<1>16. CopyInv' /\ SeenInv'
  BY <1>7, <1>9 DEF CopyInv, SeenInv
<1>17. QED
  BY <1>3, <1>12, <1>13, <1>14, <1>15, <1>16 DEF SettingsInv

LEMMA RejectInv ==
    ASSUME SettingsInv, NEW body \in Bodies, Reject(body)
    PROVE  SettingsInv'
<1>n. PICK none, blank : none = << >> /\ DOMAIN none = {} /\ blank = ""
  BY EmptyHasNoMembers
<1>1. /\ UNCHANGED <<form, online, value>> /\ F' = F /\ Rejected(body)
  BY DEF Reject, F
<1>2. Len(F.reads) \in Nat
  BY FormAssumption DEF SettingsInv, ValueInv, F, FormFits
<1>3. ValueInv'
  BY <1>1 DEF SettingsInv, ValueInv
<1>4. patch' =
        [pc |-> "done", body |-> body, status |-> 400, todo |-> {}, copy |-> blank,
         left |-> 0, seen |-> none, failed |-> {}, blind |-> FALSE,
         mine |-> {}, touched |-> {}]
  <2>1. PICK q : q = [NoPatch EXCEPT !.pc = "done", !.body = body, !.status = 400]
    OBVIOUS
  <2>2. patch' = q
    BY <2>1 DEF Reject
  <2>3. q = [pc |-> "done", body |-> body, status |-> 400, todo |-> {}, copy |-> "",
             left |-> 0, seen |-> << >>, failed |-> {}, blind |-> FALSE,
             mine |-> {}, touched |-> {}]
    BY <2>1 DEF NoPatch
  <2>4. QED
    BY <1>n, <2>2, <2>3, Zenon
<1>5. /\ patch' \in Patch(body, none, blank) /\ patch'.pc = "done" /\ patch'.body = body
      /\ patch'.status = 400 /\ patch'.todo = {} /\ patch'.left = 0 /\ patch'.seen = none
      /\ patch'.copy = blank /\ patch'.failed = {} /\ patch'.mine = {} /\ DOMAIN patch'.seen = {}
  <2>1. "done" \in Phases /\ 400 \in Statuses
    BY DEF Phases, Statuses
  <2>2. patch' \in Patch(body, none, blank)
    BY <1>4, <2>1 DEF Patch
  <2>3. patch'.seen = none
    BY <1>4
  <2>4. QED
    BY <1>4, <1>n, <2>2, <2>3
<1>6. /\ Asked(patch.body)' = Asked(body) /\ Rejected(patch.body)' = Rejected(body)
      /\ Items' = Items /\ Members' = Members
  <2>1. patch'.body = body /\ F' = F
    BY <1>1, <1>5
  <2>2. QED
    BY <2>1 DEF Asked, Rejected, Items, Members, Writes
<1>7. BodyOK'
  BY <1>5, <1>6 DEF Bodies, BodyOK, Chosen
<1>8. PatchInv'
  BY <1>1, <1>5, <1>7 DEF PatchInv, Patch
<1>9. OrderInv'
  BY <1>2, <1>1, <1>5, <1>6 DEF OrderInv
<1>10. StatusInv'
  BY <1>1, <1>5, <1>6 DEF StatusInv
<1>11. WorkInv' /\ CopyInv' /\ SeenInv'
  BY <1>1, <1>5, <1>6 DEF WorkInv, CopyInv, SeenInv
<1>12. QED
  BY <1>3, <1>8, <1>9, <1>10, <1>11 DEF SettingsInv

LEMMA CopyPropertyInv ==
    ASSUME SettingsInv, CopyProperty
    PROVE  SettingsInv'
<1>1. /\ UNCHANGED <<form, online, value>> /\ F' = F /\ patch.todo # {}
      /\ patch.pc = "writing" /\ Copying(Call)
  BY DEF SettingsInv, OrderInv, CopyProperty, F
<1>2. PICK source \in Copied(NextCall), ok \in BOOLEAN :
          patch' = [patch EXCEPT
                       !.pc = "copied", !.blind = @ \/ ~ ok,
                       !.copy = IF ok THEN value[source] ELSE Val(NextCall)]
  BY DEF CopyProperty, Copied, Val, Call, W
<1>3. /\ NextCall \in Asked(patch.body) /\ Call = W(NextCall) /\ Property = Prop(NextCall)
      /\ Val(NextCall) \in F.props[Property] /\ Copied(NextCall) = {source}
      /\ source \in DOMAIN F.props /\ F.props[source] \subseteq F.props[Property]
  BY <1>1, NextCallIs, CallFacts DEF SettingsInv, PatchInv
<1>4. patch \in Patch(patch.body, patch.seen, patch.copy)
  BY DEF SettingsInv, PatchInv
<1>5. /\ patch'.pc = "copied" /\ patch'.body = patch.body /\ patch'.seen = patch.seen
      /\ patch'.status = patch.status /\ patch'.todo = patch.todo
      /\ patch'.left = patch.left /\ patch'.failed = patch.failed
      /\ patch'.mine = patch.mine /\ patch'.touched = patch.touched
      /\ patch' \in Patch(patch.body, patch.seen, patch'.copy)
  BY <1>2, <1>4 DEF Patch, Phases
<1>6. /\ patch'.copy = IF ok THEN value[source] ELSE Val(NextCall)
      /\ patch'.blind <=> patch.blind \/ ~ ok
  BY <1>2, <1>4 DEF Patch
<1>7. /\ Asked(patch.body)' = Asked(patch.body)
      /\ Rejected(patch.body)' = Rejected(patch.body)
      /\ \A i : /\ W(i)' = W(i) /\ Prop(i)' = Prop(i) /\ Val(i)' = Val(i)
                /\ Copied(i)' = Copied(i) /\ Chosen(W(i))' = Chosen(W(i))
      /\ BodyOK' = BodyOK
  BY <1>1, <1>5, SameBody
<1>8. ValueInv'
  BY <1>1 DEF SettingsInv, ValueInv
<1>9. PatchInv'
  BY <1>1, <1>5, <1>7 DEF SettingsInv, PatchInv, Patch
<1>10. OrderInv' /\ StatusInv'
  <2>1. ~ Rejected(patch.body) /\ patch.status # 400
    BY <1>1 DEF SettingsInv, StatusInv
  <2>2. OrderInv'
    BY <1>1, <1>5, <1>7 DEF SettingsInv, OrderInv
  <2>3. StatusInv'
    BY <2>1, <1>1, <1>5, <1>7 DEF SettingsInv, StatusInv
  <2>4. QED
    BY <2>2, <2>3
<1>11. \A i \in DOMAIN F.writes : Standing(i)' => Standing(i)
  BY <1>5, <1>7 DEF Standing
<1>12. WorkInv'
  BY <1>1, <1>5, <1>6, <1>7, <1>11 DEF SettingsInv, WorkInv
<1>13. CopyInv'
  <2>1. NextCall' = NextCall /\ Property' = Property /\ Copying(Call)' = Copying(Call)
    BY <1>1, <1>5, <1>7 DEF NextCall, Property, Copying, Call, Chosen
  <2>2. value[source] \in F.props[source]
    BY <1>3 DEF SettingsInv, ValueInv
  <2>3. patch'.copy \in F.props[Property]
    BY <1>3, <1>6, <2>2
  <2>4. ~ patch'.blind => patch'.copy = value[source]
    BY <1>6
  <2>5. QED
    BY <1>1, <1>3, <1>5, <1>7, <2>1, <2>3, <2>4 DEF CopyInv
<1>14. SeenInv'
  BY <1>1, <1>5, SameForm DEF SettingsInv, SeenInv
<1>15. QED
  BY <1>8, <1>9, <1>10, <1>12, <1>13, <1>14 DEF SettingsInv

\* A call is over: it was made, or failed, or was not made.
LEMMA CallOverInv ==
    ASSUME SettingsInv, Ready, UNCHANGED <<form, online>>, ValueInv',
           \A p \in DOMAIN F.props : p # Property => value'[p] = value[p],
           NEW q \in Patch(patch.body, patch.seen, patch.copy), patch' = Onward(q),
           q.todo = patch.todo \ {NextCall}, q.left = patch.left,
           q.blind = patch.blind,
           \/ q.failed = patch.failed /\ q.status = patch.status /\ value'[Property] = Sent
           \/ q.failed = patch.failed \cup {Call.item} /\ q.status = F.refused,
           q.mine \subseteq patch.mine \cup {Property},
           patch.touched \ {Property} \subseteq q.touched
    PROVE  SettingsInv'
<1> DEFINE k == NextCall
<1>1. patch.todo # {} /\ ~ Rejected(patch.body) /\ patch.status # 400 /\ DOMAIN patch.seen = {}
  BY DEF SettingsInv, OrderInv, StatusInv, Ready
<1>2. /\ k \in patch.todo /\ k \in Asked(patch.body) /\ \A i \in patch.todo : k <= i
      /\ Call = W(k) /\ Property = Prop(k) /\ (Copying(Call) <=> Copied(k) # {})
      /\ k \in Nat
  BY <1>1, NextCallIs, CallFacts DEF SettingsInv, PatchInv
<1> HIDE DEF k
<1>3. /\ patch' \in Patch(patch.body, patch.seen, patch.copy)
      /\ patch'.todo = patch.todo \ {k} /\ patch'.left = patch.left
      /\ patch'.blind = patch.blind
      /\ patch'.failed = q.failed /\ patch'.status = q.status /\ patch'.mine = q.mine
      /\ patch'.touched = q.touched
      /\ \/ patch'.pc = "writing" /\ patch'.todo # {}
         \/ patch'.pc = "reading" /\ patch'.todo = {} /\ patch'.left > 0
         \/ patch'.pc = "done" /\ patch'.todo = {}
  <2>1. /\ Onward(q) \in Patch(patch.body, patch.seen, patch.copy)
        /\ Onward(q).todo = q.todo /\ Onward(q).left = q.left
        /\ Onward(q).status = q.status /\ Onward(q).failed = q.failed
        /\ Onward(q).blind = q.blind
        /\ Onward(q).mine = q.mine /\ Onward(q).touched = q.touched
        /\ \/ Onward(q).pc = "writing" /\ q.todo # {}
           \/ Onward(q).pc = "reading" /\ q.todo = {} /\ q.left > 0
           \/ Onward(q).pc = "done" /\ q.todo = {}
    BY OnwardIs
  <2>2. QED
    BY <2>1 DEF k
<1>4. /\ patch'.body = patch.body /\ patch'.seen = patch.seen /\ patch'.copy = patch.copy
      /\ F' = F
  BY <1>3 DEF Patch, F
<1>5. /\ Asked(patch.body)' = Asked(patch.body)
      /\ Rejected(patch.body)' = Rejected(patch.body)
      /\ \A i : /\ W(i)' = W(i) /\ Prop(i)' = Prop(i) /\ Val(i)' = Val(i)
                /\ Copied(i)' = Copied(i) /\ Chosen(W(i))' = Chosen(W(i))
      /\ BodyOK' = BodyOK
  BY <1>4, SameBody
<1>6. PatchInv'
  BY <1>3, <1>4, <1>5 DEF SettingsInv, PatchInv, Patch
<1>7. OrderInv'
  <2>1. \A j \in Asked(patch.body) : j \in Nat
    BY CallFacts DEF SettingsInv, PatchInv
  <2>2. ASSUME online, NEW i \in patch.todo \ {k},
               NEW j \in Asked(patch.body) \ (patch.todo \ {k})
        PROVE  j < i
    <3>0. patch.todo \subseteq Asked(patch.body)
      BY DEF SettingsInv, OrderInv
    <3>1. i \in Nat /\ k \in Nat /\ k < i /\ j \in Nat
      <4>1. i \in Asked(patch.body) /\ j \in Asked(patch.body) /\ i \in patch.todo /\ i # k
        BY <3>0, Zenon
      <4>2. i \in Nat /\ j \in Nat
        BY <4>1, <2>1, Zenon
      <4>3. QED
        BY <1>2, <4>1, <4>2
    <3>2. CASE j = k
      BY <3>1, <3>2
    <3>3. CASE j # k
      BY <2>2, <3>3 DEF SettingsInv, OrderInv
    <3>4. QED
      BY <3>2, <3>3
  <2>3. QED
    BY <1>1, <1>3, <1>4, <1>5, <2>2 DEF SettingsInv, OrderInv
<1>8. StatusInv'
  <2>1. F.refused \in {200, 404, 500, 503}
    BY FormAssumption DEF SettingsInv, ValueInv, F, FormFits
  <2>2. patch'.mine \subseteq {Prop(i) : i \in Asked(patch.body)}
    BY <1>2, <1>3 DEF SettingsInv, StatusInv
  <2>3. patch'.status # 400
    BY <1>1, <1>3, <2>1
  <2>4. patch'.status = 200 /\ F.refused # 200 => patch'.failed = {}
    BY <1>3 DEF SettingsInv, StatusInv
  <2>5. QED
    BY <1>1, <1>4, <1>5, <2>2, <2>3, <2>4 DEF StatusInv
<1>9. ASSUME NEW i \in DOMAIN F.writes, Standing(i)', online
      PROVE  /\ Copied(i) = {} => value'[Prop(i)] = Val(i)
             /\ ~ patch.blind => \A s \in Copied(i) :
                                    s \notin patch'.touched => value'[Prop(i)] = value'[s]
  <2>1. /\ i \in Asked(patch.body) /\ W(i).item \notin patch'.failed
        /\ Prop(i) \notin patch'.touched /\ (i # k => i \notin patch.todo)
    BY <1>3, <1>5, <1>9 DEF Standing
  <2>2. /\ Prop(i) \in DOMAIN F.props /\ Copied(i) \subseteq DOMAIN F.props
    BY <2>1, CallFacts DEF SettingsInv, PatchInv
  <2>3. CASE i = k
    <3>1. value'[Prop(i)] = Sent
      BY <1>2, <1>3, <2>1, <2>3
    <3>2. ASSUME Copied(i) = {} PROVE value'[Prop(i)] = Val(i)
      <4>1. patch.pc # "copied"
        BY <1>2, <2>3, <3>2 DEF SettingsInv, CopyInv
      <4>2. QED
        BY <1>2, <2>3, <3>1, <4>1 DEF Sent, Val
    <3>3. ASSUME ~ patch.blind, NEW s \in Copied(i), s \notin patch'.touched
          PROVE  value'[Prop(i)] = value'[s]
      <4>1. patch.pc = "copied"
        BY <1>2, <2>3 DEF Ready
      <4>2. s # Prop(i)
        <5>1. k \in Nat /\ k >= k
          BY <1>2
        <5>2. Prop(k) \notin Copied(k)
          BY <1>2, <5>1, CallsApart DEF SettingsInv, PatchInv
        <5>3. QED
          BY <2>3, <3>3, <5>2
      <4>3. s \notin patch.touched /\ value'[s] = value[s]
        BY <1>2, <1>3, <2>2, <2>3, <3>3, <4>2
      <4>4. patch.copy = value[s]
        BY <2>3, <3>3, <4>1, <4>3 DEF SettingsInv, CopyInv, k
      <4>5. QED
        BY <3>1, <4>1, <4>3, <4>4 DEF Sent
    <3>4. QED
      BY <3>2, <3>3
  <2>4. CASE i # k
    <3>1. i \in Asked(patch.body) \ patch.todo /\ W(i).item \notin patch.failed
      BY <1>3, <2>1, <2>4
    <3>2. Prop(i) # Prop(k)
      BY <1>2, <2>1, <2>4, CallsApart DEF SettingsInv, PatchInv
    <3>3. Standing(i) /\ value'[Prop(i)] = value[Prop(i)]
      BY <1>2, <1>3, <2>1, <2>2, <3>1, <3>2 DEF Standing
    <3>4. i < k
      BY <1>2, <1>9, <3>1 DEF SettingsInv, OrderInv
    <3>5. i \in Nat
      BY <2>1, CallFacts DEF SettingsInv, PatchInv
    <3>6. Prop(k) \notin Copied(i)
      BY <1>2, <2>1, <3>4, <3>5, CallsApart DEF SettingsInv, PatchInv
    <3>7. \A s \in Copied(i) : s \notin patch'.touched =>
             s \notin patch.touched /\ value'[s] = value[s]
      BY <1>2, <1>3, <2>2, <3>6
    <3>8. QED
      BY <1>1, <1>9, <3>3, <3>7 DEF SettingsInv, WorkInv
  <2>5. QED
    BY <2>3, <2>4
<1>10. WorkInv'
  BY <1>3, <1>4, <1>5, <1>9 DEF WorkInv
<1>11. CopyInv'
  BY <1>3 DEF CopyInv
<1>12. SeenInv'
  BY <1>1, <1>4 DEF SeenInv
<1>13. QED
  BY <1>6, <1>7, <1>8, <1>10, <1>11, <1>12 DEF SettingsInv

LEMMA SetPropertyInv ==
    ASSUME SettingsInv, SetProperty \/ SetPropertyFails \/ SetPropertyRefused
    PROVE  SettingsInv'
<1>1. /\ Ready /\ patch.todo # {} /\ UNCHANGED <<form, online>>
  BY DEF SetProperty, SetPropertyFails, SetPropertyRefused, SettingsInv, OrderInv, Ready
<1>2. patch \in Patch(patch.body, patch.seen, patch.copy)
  BY DEF SettingsInv, PatchInv
<1>3. /\ NextCall \in patch.todo /\ Call.item \in DOMAIN patch.body
      /\ Property \in DOMAIN F.props
      /\ Call.stored[Chosen(Call)].value \in F.props[Property]
  BY <1>1, NextCallIs, CallFacts DEF SettingsInv, PatchInv, Val, Prop, Property
<1>4. Sent \in F.props[Property]
  BY <1>3 DEF SettingsInv, CopyInv, Sent
<1>5. F.refused \in Statuses
  BY FormAssumption DEF SettingsInv, ValueInv, F, FormFits, Statuses
<1>6. ASSUME Set \/ UNCHANGED value
      PROVE  /\ ValueInv'
             /\ \A p \in DOMAIN F.props : p # Property => value'[p] = value[p]
             /\ Set => value'[Property] = Sent
  <2>1. F' = F
    BY <1>1 DEF F
  <2>2. value = [p \in DOMAIN F.props |-> value[p]]
    BY DEF SettingsInv, ValueInv
  <2>3. Set => /\ value' = [p \in DOMAIN F.props |-> value'[p]]
               /\ value'[Property] = Sent
               /\ \A p \in DOMAIN F.props : p # Property => value'[p] = value[p]
    BY <1>3, <2>2 DEF Set
  <2>4. QED
    BY <1>1, <1>4, <1>6, <2>1, <2>2, <2>3 DEF SettingsInv, ValueInv
<1>7. /\ Failed(patch) \in Patch(patch.body, patch.seen, patch.copy)
      /\ Failed(patch).todo = patch.todo /\ Failed(patch).left = patch.left
      /\ Failed(patch).blind = patch.blind
      /\ Failed(patch).failed = patch.failed \cup {Call.item}
      /\ Failed(patch).status = F.refused
      /\ Failed(patch).mine = patch.mine /\ Failed(patch).touched = patch.touched
  BY <1>2, <1>3, <1>5 DEF Failed, Patch
<1>8. ASSUME NEW q \in Patch(patch.body, patch.seen, patch.copy)
      PROVE  /\ Made(q) \in Patch(patch.body, patch.seen, patch.copy)
             /\ Made(q).todo = q.todo \ {NextCall} /\ Made(q).left = q.left
             /\ Made(q).blind = q.blind
             /\ Made(q).failed = q.failed /\ Made(q).status = q.status
             /\ Made(q).mine = q.mine \cup {Property}
             /\ Made(q).touched = q.touched \ {Property}
  BY <1>3, <1>8 DEF Made, Patch
<1>9. CASE SetProperty
  <2>1. Set /\ patch' = Onward(Made(patch))
    BY <1>9 DEF SetProperty
  <2>2. QED
    BY <1>1, <1>2, <1>6, <1>8, <2>1, CallOverInv
<1>10. CASE SetPropertyFails
  <2>1. (Set \/ UNCHANGED value) /\ patch' = Onward(Made(Failed(patch)))
    BY <1>10 DEF SetPropertyFails
  <2>2. QED
    BY <1>1, <1>6, <1>7, <1>8, <2>1, CallOverInv
<1>11. CASE SetPropertyRefused
  <2> DEFINE q == [Failed(patch) EXCEPT !.todo = @ \ {NextCall}]
  <2>1. UNCHANGED value /\ patch' = Onward(q)
    BY <1>11 DEF SetPropertyRefused
  <2>2. /\ q \in Patch(patch.body, patch.seen, patch.copy)
        /\ q.todo = patch.todo \ {NextCall} /\ q.left = patch.left
        /\ q.blind = patch.blind /\ q.failed = patch.failed \cup {Call.item}
        /\ q.status = F.refused /\ q.mine = patch.mine /\ q.touched = patch.touched
    BY <1>7 DEF Patch
  <2> HIDE DEF q
  <2>3. QED
    BY <1>1, <1>6, <2>1, <2>2, CallOverInv
<1>12. QED
  BY <1>9, <1>10, <1>11

LEMMA GetPropertyInv ==
    ASSUME SettingsInv, GetProperty
    PROVE  SettingsInv'
<1> DEFINE needed == UNION {ReadFor(item) : item \in DOMAIN patch.body}
           read == {r.prop : r \in F.reads[Len(F.reads) - patch.left + 1]} \cap needed
           seen(ok) == [p \in DOMAIN patch.seen \cup read |->
                           IF p \notin read THEN patch.seen[p]
                           ELSE IF ok THEN value[p] ELSE Unread]
           status(ok) == IF ok \/ ~ F.needed THEN patch.status ELSE 404
<1>1. /\ UNCHANGED <<form, online, value>> /\ F' = F
      /\ patch.pc = "reading" /\ patch.todo = {} /\ patch.left \in Nat /\ patch.left > 0
      /\ patch.left <= Len(F.reads) /\ ~ Rejected(patch.body) /\ patch.status # 400
  BY DEF GetProperty, SettingsInv, PatchInv, Patch, OrderInv, StatusInv, F
<1>2. \A p \in read :
         /\ p \in DOMAIN F.props
         /\ \E w \in Members : w.item \in DOMAIN patch.body /\ p \in Concerned(w)
  <2> SUFFICES ASSUME NEW p \in read
               PROVE  /\ p \in DOMAIN F.props
                      /\ \E w \in Members : w.item \in DOMAIN patch.body /\ p \in Concerned(w)
    OBVIOUS
  <2>1. FormFits(F)
    BY FormAssumption DEF SettingsInv, ValueInv, F
  <2>2. Len(F.reads) - patch.left + 1 \in DOMAIN F.reads
    BY <1>1, <2>1 DEF FormFits
  <2>3. p \in DOMAIN F.props
    BY <2>1, <2>2 DEF FormFits
  <2>4. PICK item \in DOMAIN patch.body : p \in ReadFor(item)
    OBVIOUS
  <2>5. PICK w \in Members : w.item = item
    BY <2>4 DEF SettingsInv, PatchInv, BodyOK, Items
  <2>6. p \in Concerned(w)
    BY <2>4, <2>5, Zenon DEF Concerned
  <2>7. QED
    BY <2>3, <2>4, <2>5, <2>6
<1> HIDE DEF needed, read
<1>3. PICK ok \in BOOLEAN :
         patch' = Onward([patch EXCEPT !.left = @ - 1, !.status = status(ok), !.seen = seen(ok)])
  BY DEF GetProperty, read, needed
<1>4. /\ DOMAIN seen(ok) = DOMAIN patch.seen \cup read
      /\ \A p \in DOMAIN seen(ok) :
            seen(ok)[p] = IF p \notin read THEN patch.seen[p]
                          ELSE IF ok THEN value[p] ELSE Unread
  OBVIOUS
<1>5. /\ status(ok) \in Statuses /\ status(ok) # 400
      /\ status(ok) = 200 => patch.status = 200
  BY <1>1 DEF SettingsInv, PatchInv, Patch, Statuses
<1> HIDE DEF seen, status
<1>6. PICK q : q = [patch EXCEPT !.left = @ - 1, !.status = status(ok), !.seen = seen(ok)]
  OBVIOUS
<1>7. /\ q \in Patch(patch.body, seen(ok), patch.copy)
      /\ q.status = status(ok) /\ q.todo = {} /\ q.left = patch.left - 1
      /\ q.failed = patch.failed /\ q.blind = patch.blind
      /\ q.mine = patch.mine /\ q.touched = patch.touched
  <2>1. patch \in Patch(patch.body, patch.seen, patch.copy) /\ patch.left - 1 \in Nat
    BY <1>1 DEF SettingsInv, PatchInv
  <2>2. /\ q.status = status(ok) /\ q.todo = patch.todo /\ q.left = patch.left - 1
        /\ q.failed = patch.failed /\ q.blind = patch.blind
        /\ q.mine = patch.mine /\ q.touched = patch.touched
    BY <1>6, <2>1 DEF Patch
  <2>3. q \in Patch(patch.body, seen(ok), patch.copy)
    BY <1>5, <1>6, <2>1 DEF Patch
  <2>4. QED
    BY <1>1, <2>2, <2>3
<1>8. /\ patch' \in Patch(patch.body, seen(ok), patch.copy)
      /\ patch'.status = status(ok) /\ patch'.todo = {} /\ patch'.left = patch.left - 1
      /\ patch'.failed = patch.failed /\ patch'.blind = patch.blind
      /\ patch'.mine = patch.mine /\ patch'.touched = patch.touched
      /\ \/ patch'.pc = "reading" /\ patch'.left > 0
         \/ patch'.pc = "done"
  <2>1. /\ Onward(q) \in Patch(patch.body, seen(ok), patch.copy)
        /\ Onward(q).todo = q.todo /\ Onward(q).left = q.left
        /\ Onward(q).status = q.status /\ Onward(q).failed = q.failed
        /\ Onward(q).blind = q.blind
        /\ Onward(q).mine = q.mine /\ Onward(q).touched = q.touched
        /\ \/ Onward(q).pc = "writing" /\ q.todo # {}
           \/ Onward(q).pc = "reading" /\ q.todo = {} /\ q.left > 0
           \/ Onward(q).pc = "done" /\ q.todo = {}
    BY <1>7, OnwardIs
  <2>2. patch' = Onward(q)
    BY <1>3, <1>6
  <2>3. QED
    BY <1>7, <2>1, <2>2
<1>9. patch'.body = patch.body /\ patch'.seen = seen(ok) /\ patch'.copy = patch.copy
  BY <1>8 DEF Patch
<1>10. /\ Asked(patch.body)' = Asked(patch.body)
       /\ Rejected(patch.body)' = Rejected(patch.body)
       /\ \A i : /\ W(i)' = W(i) /\ Prop(i)' = Prop(i) /\ Val(i)' = Val(i)
                 /\ Copied(i)' = Copied(i) /\ Chosen(W(i))' = Chosen(W(i))
       /\ BodyOK' = BodyOK
  BY <1>1, <1>9, SameBody
<1>11. ValueInv'
  BY <1>1 DEF SettingsInv, ValueInv
<1>12. PatchInv'
  BY <1>1, <1>8, <1>9, <1>10 DEF SettingsInv, PatchInv, Patch
<1>13. OrderInv'
  BY <1>1, <1>8, <1>9, <1>10 DEF SettingsInv, OrderInv
<1>14. StatusInv'
  BY <1>1, <1>5, <1>8, <1>9, <1>10 DEF SettingsInv, StatusInv
<1>15. \A i \in DOMAIN F.writes : Standing(i)' <=> Standing(i)
  BY <1>1, <1>8, <1>9, <1>10 DEF Standing
<1>16. WorkInv'
  BY <1>1, <1>8, <1>9, <1>10, <1>15 DEF SettingsInv, WorkInv
<1>17. CopyInv'
  BY <1>8 DEF CopyInv
<1>18. SeenInv'
  <2>1. Members' = Members /\ \A w : Concerned(w)' = Concerned(w)
    BY <1>1, SameForm
  <2>2. ASSUME NEW p \in DOMAIN seen(ok)
        PROVE  /\ p \in DOMAIN F.props
               /\ \E w \in Members : w.item \in DOMAIN patch.body /\ p \in Concerned(w)
               /\ seen(ok)[p] # Unread /\ p \notin patch.touched => seen(ok)[p] = value[p]
    <3>1. CASE p \in read
      BY <1>2, <1>4, <3>1
    <3>2. CASE p \notin read
      <4>1. p \in DOMAIN patch.seen /\ seen(ok)[p] = patch.seen[p]
        BY <1>4, <2>2, <3>2
      <4>2. QED
        BY <4>1 DEF SettingsInv, SeenInv
    <3>3. QED
      BY <3>1, <3>2
  <2>3. QED
    BY <1>1, <1>8, <1>9, <2>1, <2>2 DEF SeenInv
<1>19. QED
  BY <1>11, <1>12, <1>13, <1>14, <1>16, <1>17, <1>18 DEF SettingsInv

LEMMA VanishedInv ==
    ASSUME SettingsInv, Vanished
    PROVE  SettingsInv'
<1>1. /\ UNCHANGED <<form, online, value>> /\ F' = F
      /\ patch.pc = "reading" /\ patch.todo = {} /\ ~ Rejected(patch.body)
  BY DEF Vanished, SettingsInv, OrderInv, StatusInv, F
<1>2. patch \in Patch(patch.body, patch.seen, patch.copy)
  BY DEF SettingsInv, PatchInv
<1>3. /\ patch' \in Patch(patch.body, patch.seen, patch.copy)
      /\ patch'.body = patch.body /\ patch'.seen = patch.seen /\ patch'.copy = patch.copy
      /\ patch'.pc = "done" /\ patch'.status = 404 /\ patch'.todo = {} /\ patch'.left = 0
      /\ patch'.failed = patch.failed /\ patch'.blind = patch.blind
      /\ patch'.mine = patch.mine /\ patch'.touched = patch.touched
  <2>1. PICK done \in Phases, status \in Statuses, left \in Nat :
           done = "done" /\ status = 404 /\ left = 0
    BY DEF Phases, Statuses
  <2>2. PICK q : q = [patch EXCEPT !.pc = done, !.status = status, !.left = left]
    OBVIOUS
  <2>3. q \in Patch(patch.body, patch.seen, patch.copy)
    BY <1>2, <2>2 DEF Patch
  <2>4. /\ q.body = patch.body /\ q.seen = patch.seen /\ q.copy = patch.copy
        /\ q.pc = done /\ q.status = status /\ q.todo = patch.todo /\ q.left = left
        /\ q.failed = patch.failed /\ q.blind = patch.blind
        /\ q.mine = patch.mine /\ q.touched = patch.touched
    BY <1>2, <2>2 DEF Patch
  <2>5. patch' = q
    BY <2>1, <2>2 DEF Vanished
  <2>6. QED
    BY <1>1, <2>1, <2>3, <2>4, <2>5
<1>4. /\ Asked(patch.body)' = Asked(patch.body)
      /\ Rejected(patch.body)' = Rejected(patch.body)
      /\ \A i : /\ W(i)' = W(i) /\ Prop(i)' = Prop(i) /\ Val(i)' = Val(i)
                /\ Copied(i)' = Copied(i) /\ Chosen(W(i))' = Chosen(W(i))
      /\ BodyOK' = BodyOK
  BY <1>1, <1>3, SameBody
<1>5. Len(F.reads) \in Nat
  BY FormAssumption DEF SettingsInv, ValueInv, F, FormFits
<1>6. ValueInv' /\ PatchInv'
  BY <1>1, <1>3, <1>4 DEF SettingsInv, ValueInv, PatchInv, Patch
<1>7. OrderInv' /\ StatusInv' /\ CopyInv'
  BY <1>1, <1>3, <1>4, <1>5 DEF SettingsInv, OrderInv, StatusInv, CopyInv
<1>8. \A i \in DOMAIN F.writes : Standing(i)' <=> Standing(i)
  BY <1>1, <1>3, <1>4 DEF Standing
<1>9. WorkInv'
  BY <1>1, <1>3, <1>4, <1>8 DEF SettingsInv, WorkInv
<1>10. SeenInv'
  BY <1>1, <1>3, SameForm DEF SettingsInv, SeenInv
<1>11. QED
  BY <1>6, <1>7, <1>9, <1>10 DEF SettingsInv

LEMMA ReturnInv ==
    ASSUME SettingsInv, Return
    PROVE  SettingsInv'
<1>1. ValueInv' /\ patch' = NoPatch
  BY DEF SettingsInv, ValueInv, Return, F
<1>2. (ValueInv /\ patch = NoPatch => SettingsInv)'
  BY IdleInv, PTL
<1>3. QED
  BY <1>1, <1>2 DEF NoPatch

LEMMA StepInv == SettingsInv /\ [SettingsNext]_settingsVars => SettingsInv'
<1> SUFFICES ASSUME SettingsInv, [SettingsNext]_settingsVars PROVE SettingsInv'
  OBVIOUS
<1>1. CASE \E p \in DOMAIN F.props : \E v \in F.changes[p] : Change(p, v)
  BY <1>1, ChangeInv
<1>2. CASE \E body \in Bodies : Accept(body) \/ Reject(body)
  BY <1>2, AcceptInv, RejectInv
<1>3. CASE CopyProperty
  BY <1>3, CopyPropertyInv
<1>4. CASE SetProperty \/ SetPropertyFails \/ SetPropertyRefused
  BY <1>4, SetPropertyInv
<1>5. CASE GetProperty
  BY <1>5, GetPropertyInv
<1>6. CASE Vanished \/ Return
  BY <1>6, VanishedInv, ReturnInv
<1>7. CASE UNCHANGED settingsVars
  <2>1. UNCHANGED form /\ UNCHANGED online /\ UNCHANGED value /\ UNCHANGED patch
    BY <1>7 DEF settingsVars
  <2>2. F' = F /\ NextCall' = NextCall /\ patch'.body = patch.body
    BY <2>1 DEF F, NextCall
  <2>3. /\ Asked(patch.body)' = Asked(patch.body)
        /\ Rejected(patch.body)' = Rejected(patch.body)
        /\ \A i : /\ W(i)' = W(i) /\ Prop(i)' = Prop(i) /\ Val(i)' = Val(i)
                  /\ Copied(i)' = Copied(i) /\ Chosen(W(i))' = Chosen(W(i))
        /\ BodyOK' = BodyOK
    BY <2>1, <2>2, SameBody
  <2>4. Property' = Property /\ Copying(Call)' = Copying(Call)
    BY <2>1, <2>2 DEF Property, Copying, Call, Chosen
  <2>5. ValueInv' /\ PatchInv'
    BY <2>1, <2>2, <2>3 DEF SettingsInv, ValueInv, PatchInv, Patch
  <2>6. OrderInv' /\ StatusInv'
    BY <2>1, <2>2, <2>3 DEF SettingsInv, OrderInv, StatusInv
  <2>7. WorkInv'
    BY <2>1, <2>2, <2>3 DEF SettingsInv, WorkInv, Standing
  <2>8. SeenInv'
    BY <2>1, <2>2, SameForm DEF SettingsInv, SeenInv
  <2>9. CopyInv'
    BY <2>1, <2>2, <2>3, <2>4 DEF SettingsInv, CopyInv
  <2>10. QED
    BY <2>5, <2>6, <2>7, <2>8, <2>9 DEF SettingsInv
<1>8. QED
  BY <1>1, <1>2, <1>3, <1>4, <1>5, <1>6, <1>7 DEF SettingsNext

-----------------------------------------------------------------------------
(* The properties.                                                         *)

\* What the invariant says of the calls that did their work.
LEMMA EffectiveStands ==
    ASSUME SettingsInv, Finished, NEW w \in Effective
    PROVE  \E i \in DOMAIN F.writes : w = W(i) /\ Standing(i)
<1>1. PICK i \in DOMAIN F.writes : w = F.writes[i]
  BY DEF Effective, Writes
<1>2. patch.todo = {}
  BY DEF SettingsInv, OrderInv, Finished
<1>3. Standing(i) /\ w = W(i)
  BY <1>1, <1>2 DEF Effective, Standing, Asked, W, Prop
<1>4. QED
  BY <1>3

\* The type invariant: in particular a property only ever has a value of its
\* own, whatever the bodies and the copies say, and each request ends with one of
\* the answers the handlers give.
THEOREM SettingsTypeCorrect == SettingsSpec => []SettingsTypeOK
<1>1. SettingsInv => SettingsTypeOK
  <2> SUFFICES ASSUME SettingsInv PROVE SettingsTypeOK
    OBVIOUS
  <2>1. DOMAIN patch.seen \subseteq DOMAIN F.props
    BY DEF SettingsInv, SeenInv
  <2>2. DOMAIN patch.body \subseteq Items
    BY DEF SettingsInv, PatchInv, BodyOK
  <2>3. /\ patch.pc \in Phases /\ patch.status \in Statuses
        /\ patch.failed \subseteq DOMAIN patch.body
        /\ patch.mine \cup patch.touched \subseteq DOMAIN F.props
    BY DEF SettingsInv, PatchInv, Patch
  <2>4. QED
    BY <2>1, <2>2, <2>3 DEF SettingsInv, ValueInv, Phases, Statuses, SettingsTypeOK
<1>2. QED
  BY <1>1, InitInv, StepInv, PTL DEF SettingsSpec

\* A handler that sets several properties (patch_system, patch_network_protocol
\* and the others) stops at no call that fails, sets what the body asks and
\* nothing else.
THEOREM EveryMemberTriedCorrect == SettingsSpec => []EveryMemberTried
<1>1. SettingsInv => EveryMemberTried
  <2> SUFFICES ASSUME SettingsInv, Finished PROVE EveryMemberTried
    BY DEF EveryMemberTried
  <2>1. patch.mine \subseteq {w.stored[Chosen(w)].prop :
                                 w \in {x \in Writes : x.item \in DOMAIN patch.body}}
    <3>1. \A i \in Asked(patch.body) :
             Prop(i) \in {w.stored[Chosen(w)].prop :
                             w \in {x \in Writes : x.item \in DOMAIN patch.body}}
      BY DEF Asked, Writes, Prop, W
    <3>2. QED
      BY <3>1 DEF SettingsInv, StatusInv
  <2>2. ASSUME patch.status # 400, NEW w \in Effective, ~ Copying(w)
        PROVE  value[w.stored[Chosen(w)].prop] = w.stored[Chosen(w)].value
    <3>1. PICK i \in DOMAIN F.writes : w = W(i) /\ Standing(i)
      BY EffectiveStands
    <3>2. online /\ ~ Rejected(patch.body)
      BY <2>2 DEF Finished, SettingsInv, StatusInv
    <3>3. Copied(i) = {}
      BY <2>2, <3>1 DEF Copying, Copied
    <3>4. QED
      BY <3>1, <3>2, <3>3 DEF SettingsInv, WorkInv, Prop, Val
  <2>3. QED
    BY <2>1, <2>2 DEF SettingsInv, StatusInv, EveryMemberTried
<1>2. QED
  BY <1>1, InitInv, StepInv, PTL DEF SettingsSpec

\* A one-time boot override is for the target given in the same request
\* (patch_system sets the target before it copies it).
THEOREM OnceIsForTargetCorrect == SettingsSpec => []OnceIsForTarget
<1>1. SettingsInv => OnceIsForTarget
  <2> SUFFICES ASSUME SettingsInv, Finished, patch.status # 400, ~ patch.blind,
                      NEW w \in Effective, NEW source \in w.copies[Chosen(w)],
                      source \notin patch.touched
               PROVE  value[w.stored[Chosen(w)].prop] = value[source]
    BY DEF OnceIsForTarget
  <2>1. PICK i \in DOMAIN F.writes : w = W(i) /\ Standing(i)
    BY EffectiveStands
  <2>2. online /\ ~ Rejected(patch.body)
    BY DEF Finished, SettingsInv, StatusInv
  <2>3. QED
    BY <2>1, <2>2 DEF SettingsInv, WorkInv, Prop, Copied
<1>2. QED
  BY <1>1, InitInv, StepInv, PTL DEF SettingsSpec

\* The answer of a PATCH is read when the last call is made, and shows what is
\* stored then, of every member it gives.
THEOREM AnswerFromStoredCorrect == SettingsSpec => []AnswerFromStored
<1>1. SettingsInv => AnswerFromStored
  <2> SUFFICES ASSUME SettingsInv, NEW r \in Answered, Sources(r) \cap patch.touched = {}
               PROVE  Shows(r, patch.seen) = Shows(r, value)
    BY DEF AnswerFromStored
  <2>1. \A p \in Sources(r) : patch.seen[p] = value[p]
    BY DEF Answered, SettingsInv, SeenInv
  <2>2. r.prop \in Sources(r) /\ r.beside \subseteq Sources(r)
    BY DEF Sources
  <2>3. QED
    BY <2>1, <2>2 DEF Shows
<1>2. QED
  BY <1>1, InitInv, StepInv, PTL DEF SettingsSpec
=============================================================================
