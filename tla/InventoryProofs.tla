---------------------------- MODULE InventoryProofs ----------------------------
(***************************************************************************)
(* Proofs about the collections and their members, for every resource that *)
(* is WellFormed, every number of clients, and every order in which objects *)
(* come, go, are listed and looked for.                                    *)
(***************************************************************************)
EXTENDS InventoryLinks, SequenceTheorems, TLAPS

-----------------------------------------------------------------------------
(* Types, and that one lookup has one instant.                             *)

LEMMA ThisResource == ASSUME resource \in DOMAIN Resources PROVE WellFormed(R)
BY ResourceAssumption DEF R

LEMMA SameResource ==
    ASSUME resource' = resource
    PROVE  /\ R' = R /\ Request' = Request
           /\ \A id : Tries(id)' = Tries(id) /\ Named(id)' = Named(id)
                      /\ Listed(id)' = Listed(id) /\ Denoted(id)' = Denoted(id)
BY DEF R, Request, Tries, Named, Listed, Denoted

\* Where a request may be.
InPlace(q) ==
    /\ q.pc = "looking" => q.found = {} /\ (Tries(q.id) # << >> => q.step \in DOMAIN Tries(q.id))
    /\ q.pc = "reading" => q.reads > 0

DirInv == InventoryTypeOK /\ \A c \in Clients : InPlace(req[c])

\* A step of one request that ends in a well-formed state keeps the invariant.
LEMMA RequestStep ==
    ASSUME DirInv, NEW c \in Clients, NEW p \in Request, InPlace(p),
           req' = [req EXCEPT ![c] = p], UNCHANGED <<resource, bus, tree, listed, promised>>
    PROVE  DirInv'
<1>1. R' = R /\ Request' = Request
  BY SameResource
<1>2. req' \in [Clients -> Request]'
  BY <1>1 DEF DirInv, InventoryTypeOK
<1>3. InventoryTypeOK'
  BY <1>1, <1>2 DEF DirInv, InventoryTypeOK
<1>4. \A d \in Clients : InPlace(req[d])'
  <2> TAKE d \in Clients
  <2>1. req'[d] = IF d = c THEN p ELSE req[d]
    BY DEF DirInv, InventoryTypeOK
  <2>2. InPlace(req'[d])
    BY <2>1 DEF DirInv
  <2>3. QED
    BY <2>2, SameResource DEF InPlace
<1>5. QED
  BY <1>3, <1>4 DEF DirInv

\* What a decision changes of a request.
Keeps(q, p) ==
    /\ p.id = q.id /\ p.found = q.found /\ p.failed = q.failed /\ p.missed = q.missed
    /\ p.lost = q.lost /\ p.seen = q.seen /\ p.link = q.link /\ p.stub = q.stub

LEMMA AcceptedIs ==
    ASSUME DirInv, NEW q \in Request
    PROVE  /\ Accepted(q) \in Request /\ InPlace(Accepted(q)) /\ Keeps(q, Accepted(q))
           /\ Accepted(q).pc \in {"reading", "done"} /\ Accepted(q).status = 200
           /\ Accepted(q).pc = "reading" => bus /\ Target(q) # {}
<1> DEFINE reading == [q EXCEPT !.pc = "reading", !.reads = R.member.reads, !.status = 200]
           done == [q EXCEPT !.pc = "done", !.status = 200]
<1>1. R.member.reads \in Nat
  BY ThisResource DEF DirInv, InventoryTypeOK, WellFormed
<1>2. CASE R.member.reads > 0 /\ bus /\ Target(q) # {}
  <2>1. Accepted(q) = reading
    BY <1>2 DEF Accepted
  <2>2. reading \in Request /\ Keeps(q, reading) /\ reading.pc = "reading"
        /\ reading.status = 200 /\ reading.reads > 0
    BY <1>1, <1>2, ZenonT(60) DEF Request, Keeps
  <2>3. QED
    BY <1>2, <2>1, <2>2 DEF InPlace
<1>3. CASE ~ (R.member.reads > 0 /\ bus /\ Target(q) # {})
  <2>1. Accepted(q) = done
    BY <1>3 DEF Accepted
  <2>2. done \in Request /\ Keeps(q, done) /\ done.pc = "done" /\ done.status = 200
    BY ZenonT(60) DEF Request, Keeps
  <2>3. QED
    BY <2>1, <2>2 DEF InPlace
<1>4. QED
  BY <1>2, <1>3

LEMMA NotFoundIs ==
    ASSUME NEW q \in Request
    PROVE  /\ NotFound(q) \in Request /\ InPlace(NotFound(q)) /\ Keeps(q, NotFound(q))
           /\ NotFound(q).pc = "done" /\ NotFound(q).status = 404
<1> DEFINE done == [q EXCEPT !.pc = "done", !.status = 404]
<1>1. NotFound(q) = done
  BY DEF NotFound
<1>2. done \in Request
  <2> DEFINE ended == [q EXCEPT !.pc = "done"]
  <2>1. ended \in Request
    BY DEF Request
  <2>2. done = [ended EXCEPT !.status = 404]
    BY DEF Request
  <2> HIDE DEF ended, done
  <2>3. [ended EXCEPT !.status = 404] \in Request
    BY <2>1 DEF Request
  <2>4. QED
    BY <2>2, <2>3
<1>3. Keeps(q, done) /\ done.pc = "done" /\ done.status = 404
  BY DEF Request, Keeps
<1>4. QED
  BY <1>1, <1>2, <1>3 DEF InPlace

LEMMA DecidedIs ==
    ASSUME DirInv, NEW q \in Request, NEW stubs
    PROVE  /\ Decided(q, stubs) \in Request /\ InPlace(Decided(q, stubs))
           /\ Keeps(q, Decided(q, stubs))
           /\ Decided(q, stubs).pc \in {"reading", "done"}
           /\ Decided(q, stubs).pc = "reading" => bus /\ Target(q) # {}
           /\ Decided(q, stubs).status = IF q.id \in stubs THEN 200 ELSE 404
<1>1. CASE q.id \in stubs
  <2>1. Decided(q, stubs) = Accepted(q)
    BY <1>1 DEF Decided
  <2>2. QED
    BY <1>1, <2>1, AcceptedIs
<1>2. CASE q.id \notin stubs
  <2>1. Decided(q, stubs) = NotFound(q)
    BY <1>2 DEF Decided
  <2>2. QED
    BY <1>2, <2>1, NotFoundIs
<1>3. QED
  BY <1>1, <1>2

\* One more place to look at.
LEMMA NextTry ==
    ASSUME DirInv, NEW q \in Request, q.pc = "looking", InPlace(q),
           Tries(q.id) # << >>, ~ LastTry(q)
    PROVE  LET p == [q EXCEPT !.step = @ + 1]
           IN  p \in Request /\ InPlace(p) /\ Keeps(q, p) /\ p.pc = "looking" /\ p.step = q.step + 1
<1> DEFINE p == [q EXCEPT !.step = @ + 1]
<1>1. Tries(q.id) \in Seq(SUBSET R.objects)
  BY ThisResource DEF DirInv, InventoryTypeOK, WellFormed, Tries, Request
<1>2. q.step \in 1..Len(Tries(q.id)) /\ q.step # Len(Tries(q.id)) /\ q.found = {}
  BY <1>1 DEF InPlace, LastTry
<1>3. p \in Request /\ Keeps(q, p) /\ p.pc = "looking" /\ p.step = q.step + 1 /\ p.found = {}
      /\ p.id = q.id
  BY <1>2 DEF Request, Keeps
<1>4. p.step \in DOMAIN Tries(p.id)
  BY <1>1, <1>2, <1>3
<1>5. QED
  BY <1>3, <1>4 DEF InPlace

-----------------------------------------------------------------------------
(* One lemma for the request a step of a member handler leaves.            *)

\* The request after a client's step, p, and that only it is changed.
Becomes(c, p) == req' = [req EXCEPT ![c] = p] /\ UNCHANGED <<resource, bus, tree, listed, promised>>

LEMMA ReqIs ==
    ASSUME DirInv, NEW c \in Clients
    PROVE  req[c] \in Request /\ InPlace(req[c])
BY DEF DirInv, InventoryTypeOK

LEMMA IdleIs ==
    ASSUME DirInv
    PROVE  Idle \in Request /\ Idle.pc = "idle" /\ Idle.found = {} /\ ~ Idle.failed
           /\ Idle.step = 1 /\ ~ Idle.lost /\ ~ Idle.missed /\ Idle.status = 0
           /\ Idle.link = {} /\ ~ Idle.stub
<1>1. R.ids # {}
  BY ThisResource DEF DirInv, InventoryTypeOK, WellFormed
<1>2. QED
  BY <1>1 DEF Idle, Request

LEMMA TriesIs ==
    ASSUME DirInv, NEW id \in R.ids
    PROVE  Tries(id) \in Seq(SUBSET R.objects) /\ Named(id) \subseteq R.objects
           /\ Listed(id) \subseteq R.objects
<1>1. Tries(id) \in Seq(SUBSET R.objects) /\ R.list.from \subseteq R.objects
  BY ThisResource DEF DirInv, InventoryTypeOK, WellFormed, Tries
<1>2. QED
  BY <1>1 DEF Named, Listed

LEMMA GetMemberIs ==
    ASSUME DirInv, NEW c \in Clients, NEW id \in R.ids, GetMember(c, id)
    PROVE  \E p \in Request :
              /\ Becomes(c, p) /\ InPlace(p) /\ req[c].pc = "idle"
              /\ p.pc = "looking" /\ p.id = id /\ p.found = {} /\ p.step = 1 /\ ~ p.failed
              /\ ~ p.lost /\ ~ p.missed /\ p.status = 0
              /\ p.seen = tree \cap Denoted(id) /\ p.link = listed[id]
              /\ p.stub = (id \in promised)
<1> DEFINE p == [Idle EXCEPT !.pc = "looking", !.id = id, !.seen = tree \cap Denoted(id),
                             !.link = listed[id], !.stub = id \in promised]
<1>1. tree \cap Denoted(id) \in SUBSET R.objects /\ listed[id] \in SUBSET R.objects
  BY DEF DirInv, InventoryTypeOK
<1>1a. (id \in promised) \in BOOLEAN
  OBVIOUS
<1>2. p \in Request
  BY <1>1, <1>1a, IdleIs, ZenonT(60) DEF Request
<1>3. p.pc = "looking" /\ p.id = id /\ p.found = {} /\ p.step = 1 /\ ~ p.failed
      /\ ~ p.lost /\ ~ p.missed /\ p.status = 0
      /\ p.seen = tree \cap Denoted(id) /\ p.link = listed[id]
  BY IdleIs DEF Request
<1>3a. p.stub = (id \in promised)
  BY IdleIs DEF Request
<1>4. InPlace(p)
  BY <1>3, TriesIs DEF InPlace
<1>5. Becomes(c, p) /\ req[c].pc = "idle"
  BY DEF GetMember, Becomes, At
<1>6. QED
  BY <1>2, <1>3, <1>3a, <1>4, <1>5

LEMMA AnswerIs ==
    ASSUME DirInv, NEW c \in Clients, Answer(c)
    PROVE  \E p \in Request : Becomes(c, p) /\ InPlace(p) /\ req[c].pc = "done"
                              /\ p.pc = "idle" /\ p.id = req[c].id
<1> DEFINE p == [Idle EXCEPT !.id = req[c].id]
<1>1. p \in Request /\ p.pc = "idle" /\ p.id = req[c].id
  BY IdleIs, ReqIs DEF Request
<1>2. Becomes(c, p) /\ req[c].pc = "done"
  BY DEF Answer, Becomes, At
<1>3. QED
  BY <1>1, <1>2 DEF InPlace

\* A read changes no more than the types of these four allow.
LEMMA ReadStaysRequest ==
    ASSUME NEW q \in Request, NEW n \in Nat, NEW pc \in {"reading", "done"},
           NEW lost \in BOOLEAN, NEW missed \in BOOLEAN
    PROVE  [q EXCEPT !.reads = n, !.pc = pc, !.lost = lost, !.missed = missed] \in Request
BY ZenonT(60) DEF Request

LEMMA ReadIs ==
    ASSUME DirInv, NEW c \in Clients, Read(c)
    PROVE  \E p \in Request :
              /\ Becomes(c, p) /\ InPlace(p) /\ req[c].pc = "reading"
              /\ p.pc \in {"reading", "done"} /\ p.status = req[c].status /\ p.id = req[c].id
              /\ p.found = req[c].found /\ p.failed = req[c].failed
              /\ p.seen = req[c].seen /\ p.link = req[c].link /\ p.stub = req[c].stub
              /\ (req[c].lost => p.lost)
              /\ (p.missed <=> req[c].missed \/ Target(req[c]) \cap tree = {})
<1> DEFINE q == req[c]
           pc == IF q.reads = 1 THEN "done" ELSE "reading"
           missed == q.missed \/ Target(q) \cap tree = {}
           gone(lost) == q.lost \/ lost
           p(lost) == [q EXCEPT !.reads = @ - 1, !.pc = pc, !.lost = gone(lost),
                                !.missed = missed]
<1>1. PICK lost \in BOOLEAN :
          req' = [req EXCEPT ![c] =
                     [q EXCEPT !.reads = @ - 1,
                               !.pc = IF q.reads = 1 THEN "done" ELSE "reading",
                               !.lost = @ \/ lost,
                               !.missed = @ \/ Target(q) \cap tree = {}]]
  BY DEF Read
<1>2. q \in Request /\ q.pc = "reading" /\ q.reads > 0
  BY ReqIs DEF InPlace, Read, At
<1>3. pc \in {"reading", "done"} /\ q.reads - 1 \in Nat
      /\ (pc = "reading" => q.reads - 1 > 0)
  BY <1>2 DEF Request
<1>4. gone(lost) \in BOOLEAN /\ missed \in BOOLEAN
  OBVIOUS
<1>5. Becomes(c, p(lost))
  BY <1>1 DEF Becomes, Read
<1> HIDE DEF pc, missed, gone
<1>6. p(lost) \in Request
  BY <1>2, <1>3, <1>4, ReadStaysRequest, Zenon
<1>7. /\ p(lost).pc = pc /\ p(lost).reads = q.reads - 1 /\ p(lost).status = q.status
      /\ p(lost).id = q.id /\ p(lost).found = q.found /\ p(lost).failed = q.failed
      /\ p(lost).seen = q.seen /\ p(lost).link = q.link /\ p(lost).stub = q.stub
      /\ p(lost).lost = gone(lost)
  BY <1>2 DEF Request
<1>8. p(lost).missed = missed
  BY <1>2 DEF Request
<1> HIDE DEF p
<1>9. InPlace(p(lost))
  BY <1>3, <1>7 DEF InPlace
<1>10. (q.lost => p(lost).lost) /\ (p(lost).missed <=> q.missed \/ Target(q) \cap tree = {})
  BY <1>7, <1>8 DEF missed, gone
<1>11. QED
  BY <1>2, <1>3, <1>5, <1>6, <1>7, <1>9, <1>10

\* The request a decision leaves, without an object found.
DecidedOn(q, stubs, p) ==
    /\ p.id = q.id /\ p.found = {} /\ p.missed = q.missed /\ p.lost = q.lost
    /\ p.seen = q.seen /\ p.link = q.link /\ p.stub = q.stub
    /\ p.pc \in {"reading", "done"} /\ p.status = IF q.id \in stubs THEN 200 ELSE 404
    /\ p.pc = "reading" => bus /\ Target(p) # {}

LEMMA DecidedOnIs ==
    ASSUME DirInv, NEW q \in Request, q.found = {}, NEW stubs
    PROVE  LET p == Decided(q, stubs)
           IN  p \in Request /\ InPlace(p) /\ DecidedOn(q, stubs, p) /\ p.failed = q.failed
<1> DEFINE p == Decided(q, stubs)
<1>1. p \in Request /\ InPlace(p) /\ Keeps(q, p) /\ p.pc \in {"reading", "done"}
      /\ (p.pc = "reading" => bus /\ Target(q) # {})
      /\ p.status = IF q.id \in stubs THEN 200 ELSE 404
  BY DecidedIs
<1> HIDE DEF p
<1>2. Target(p) = Target(q)
  BY <1>1 DEF Keeps, Target
<1>3. QED
  BY <1>1, <1>2 DEF Keeps, DecidedOn, p

LEMMA LookBlindIs ==
    ASSUME DirInv, NEW c \in Clients, LookBlind(c)
    PROVE  \E p \in Request :
              /\ Becomes(c, p) /\ InPlace(p) /\ req[c].pc = "looking"
              /\ ~ bus \/ Tries(req[c].id) = << >>
              /\ p.failed = req[c].failed
              /\ DecidedOn(req[c], IF bus THEN R.member.missing ELSE R.member.noBus, p)
<1>1. req[c] \in Request /\ req[c].found = {} /\ req[c].pc = "looking"
  BY ReqIs DEF LookBlind, At, InPlace
<1>2. Becomes(c, Decided(req[c], IF bus THEN R.member.missing ELSE R.member.noBus))
  BY DEF LookBlind, Becomes
<1>3. QED
  BY <1>1, <1>2, DecidedOnIs DEF LookBlind

LEMMA LookFindsIs ==
    ASSUME DirInv, NEW c \in Clients, LookFinds(c)
    PROVE  \E o \in Tries(req[c].id)[req[c].step] \cap tree, p \in Request :
              /\ Becomes(c, p) /\ InPlace(p) /\ req[c].pc = "looking" /\ bus
              /\ Tries(req[c].id) # << >> /\ req[c].step \in DOMAIN Tries(req[c].id)
              /\ p.found = {o} /\ p.id = req[c].id /\ p.failed = req[c].failed
              /\ p.missed = req[c].missed /\ p.lost = req[c].lost /\ p.seen = req[c].seen
              /\ p.link = req[c].link /\ p.stub = req[c].stub
              /\ p.pc \in {"reading", "done"} /\ p.status = 200
<1> DEFINE q == req[c]
<1>1. q \in Request /\ q.pc = "looking" /\ bus /\ Tries(q.id) # << >>
      /\ q.step \in DOMAIN Tries(q.id)
  BY ReqIs DEF LookFinds, At, InPlace
<1>2. PICK o \in Tries(q.id)[q.step] \cap tree : Becomes(c, Accepted([q EXCEPT !.found = {o}]))
  BY DEF LookFinds, Becomes, Hits
<1> DEFINE f == [q EXCEPT !.found = {o}]
<1>3. o \in R.objects
  BY <1>2 DEF DirInv, InventoryTypeOK
<1>4. f \in Request /\ f.found = {o} /\ f.id = q.id /\ f.failed = q.failed
      /\ f.missed = q.missed /\ f.lost = q.lost /\ f.seen = q.seen
      /\ f.link = q.link /\ f.stub = q.stub
  BY <1>1, <1>3 DEF Request
<1> HIDE DEF f
<1>5. /\ Accepted(f) \in Request /\ InPlace(Accepted(f)) /\ Keeps(f, Accepted(f))
      /\ Accepted(f).pc \in {"reading", "done"} /\ Accepted(f).status = 200
  BY <1>4, AcceptedIs
<1>6. Becomes(c, Accepted(f))
  BY <1>2 DEF f
<1>7. QED
  BY <1>1, <1>2, <1>4, <1>5, <1>6 DEF Keeps

\* A try that is not the last: the next place.
GoesOn(q, p) ==
    /\ ~ LastTry(q) /\ p.pc = "looking" /\ p.step = q.step + 1 /\ p.id = q.id /\ p.found = {}
    /\ p.missed = q.missed /\ p.lost = q.lost
    /\ p.seen = q.seen /\ p.link = q.link /\ p.stub = q.stub

LEMMA LookMissesIs ==
    ASSUME DirInv, NEW c \in Clients, LookMisses(c)
    PROVE  \E p \in Request :
              /\ Becomes(c, p) /\ InPlace(p) /\ req[c].pc = "looking" /\ bus
              /\ Tries(req[c].id) # << >> /\ req[c].step \in DOMAIN Tries(req[c].id)
              /\ Tries(req[c].id)[req[c].step] \cap tree = {} /\ p.failed = req[c].failed
              /\ \/ GoesOn(req[c], p)
                 \/ LastTry(req[c])
                    /\ DecidedOn(req[c], R.member.missing \cup
                                    (IF Present = {} THEN R.member.empty ELSE {}), p)
<1> DEFINE q == req[c]
           stubs == R.member.missing \cup (IF Present = {} THEN R.member.empty ELSE {})
<1>1. q \in Request /\ InPlace(q) /\ q.pc = "looking" /\ bus /\ Tries(q.id) # << >>
      /\ q.step \in DOMAIN Tries(q.id) /\ q.found = {} /\ Tries(q.id)[q.step] \cap tree = {}
  BY ReqIs DEF LookMisses, At, InPlace, Hits
<1>2. CASE ~ LastTry(q)
  <2>1. Becomes(c, [q EXCEPT !.step = @ + 1])
    BY <1>2 DEF LookMisses, Becomes
  <2>2. QED
    BY <1>1, <1>2, <2>1, NextTry, ZenonT(60) DEF GoesOn, Keeps
<1>3. CASE LastTry(q)
  <2>1. Becomes(c, Decided(q, stubs))
    BY <1>3 DEF LookMisses, Becomes
  <2>2. QED
    BY <1>1, <1>3, <2>1, DecidedOnIs
<1>4. QED
  BY <1>2, <1>3

LEMMA LookFailsIs ==
    ASSUME DirInv, NEW c \in Clients, LookFails(c)
    PROVE  \E p \in Request :
              /\ Becomes(c, p) /\ InPlace(p) /\ req[c].pc = "looking" /\ bus
              /\ Tries(req[c].id) # << >> /\ req[c].step \in DOMAIN Tries(req[c].id) /\ p.failed
              /\ \/ GoesOn(req[c], p)
                 \/ LastTry(req[c]) /\ DecidedOn(req[c], R.member.failed, p)
<1> DEFINE q == req[c]
           f == [q EXCEPT !.failed = TRUE]
<1>1. q \in Request /\ InPlace(q) /\ q.pc = "looking" /\ bus /\ Tries(q.id) # << >>
      /\ q.step \in DOMAIN Tries(q.id) /\ q.found = {}
  BY ReqIs DEF LookFails, At, InPlace
<1>2. f \in Request /\ f.failed
  BY <1>1, ZenonT(60) DEF Request
<1>3. f.pc = "looking" /\ f.id = q.id /\ f.step = q.step /\ f.found = {} /\ f.missed = q.missed
      /\ f.lost = q.lost /\ f.seen = q.seen /\ f.link = q.link /\ f.stub = q.stub
  BY <1>1 DEF Request
<1>4. Becomes(c, IF ~ LastTry(f) THEN [f EXCEPT !.step = @ + 1]
                 ELSE Decided(f, R.member.failed))
  BY DEF LookFails, Becomes
<1> HIDE DEF f
<1>5. InPlace(f) /\ (LastTry(f) <=> LastTry(q))
  BY <1>1, <1>3 DEF InPlace, LastTry
<1>6. CASE ~ LastTry(f)
  <2> DEFINE p == [f EXCEPT !.step = @ + 1]
  <2>1. Becomes(c, p)
    BY <1>4, <1>6
  <2>2. p \in Request /\ InPlace(p) /\ Keeps(f, p) /\ p.pc = "looking" /\ p.step = f.step + 1
    BY <1>1, <1>2, <1>3, <1>5, <1>6, NextTry
  <2> HIDE DEF p
  <2>3. GoesOn(q, p) /\ p.failed
    BY <1>2, <1>3, <1>5, <1>6, <2>2 DEF GoesOn, Keeps
  <2>4. QED
    BY <1>1, <2>1, <2>2, <2>3
<1>7. CASE LastTry(f)
  <2> DEFINE p == Decided(f, R.member.failed)
  <2>1. Becomes(c, p)
    BY <1>4, <1>7
  <2>2. p \in Request /\ InPlace(p) /\ DecidedOn(f, R.member.failed, p) /\ p.failed
    BY <1>2, <1>3, DecidedOnIs
  <2> HIDE DEF p
  <2>3. DecidedOn(q, R.member.failed, p)
    BY <1>3, <2>2 DEF DecidedOn
  <2>4. QED
    BY <1>1, <1>5, <1>7, <2>1, <2>2, <2>3
<1>8. QED
  BY <1>6, <1>7

LEMMA LookIs ==
    ASSUME DirInv, NEW c \in Clients,
           \/ \E id \in R.ids : GetMember(c, id)
           \/ LookBlind(c) \/ LookFinds(c) \/ LookMisses(c) \/ LookFails(c)
           \/ Read(c) \/ Answer(c)
    PROVE  \E p \in Request : Becomes(c, p) /\ InPlace(p)
<1>1. ASSUME NEW id \in R.ids, GetMember(c, id)
      PROVE  \E p \in Request : Becomes(c, p) /\ InPlace(p)
  BY <1>1, GetMemberIs
<1>2. CASE LookBlind(c)
  BY <1>2, LookBlindIs
<1>3. CASE LookFinds(c)
  BY <1>3, LookFindsIs
<1>4. CASE LookMisses(c)
  BY <1>4, LookMissesIs
<1>5. CASE LookFails(c)
  BY <1>5, LookFailsIs
<1>6. CASE Read(c)
  BY <1>6, ReadIs
<1>7. CASE Answer(c)
  BY <1>7, AnswerIs
<1>8. QED
  BY <1>1, <1>2, <1>3, <1>4, <1>5, <1>6, <1>7

\* An object comes or goes: what a request knows of it, and nothing else.
Notices(q, p) ==
    /\ p.pc = q.pc /\ p.id = q.id /\ p.step = q.step /\ p.reads = q.reads /\ p.found = q.found
    /\ p.failed = q.failed /\ p.missed = q.missed /\ p.lost = q.lost /\ p.status = q.status

LEMMA AppearIs ==
    ASSUME DirInv, NEW o \in R.objects, Appear(o)
    PROVE  /\ req' \in [Clients -> Request]
           /\ \A c \in Clients :
                /\ Notices(req[c], req'[c]) /\ ~ req'[c].stub
                /\ req'[c].link = req[c].link
                /\ req'[c].seen = IF o \in Denoted(req[c].id) /\ ~ At(c, "idle")
                                  THEN req[c].seen \cup {o} ELSE req[c].seen
<1> DEFINE seen(c) == IF o \in Denoted(req[c].id) /\ ~ At(c, "idle")
                      THEN req[c].seen \cup {o} ELSE req[c].seen
           p(c) == [req[c] EXCEPT !.stub = FALSE, !.seen = seen(c)]
<1>1. req' = [c \in Clients |-> p(c)]
  BY DEF Appear
<1>2. ASSUME NEW c \in Clients
      PROVE  p(c) \in Request /\ Notices(req[c], p(c)) /\ ~ p(c).stub
             /\ p(c).link = req[c].link /\ p(c).seen = seen(c)
  <2>1. req[c] \in Request
    BY ReqIs
  <2>2. seen(c) \in SUBSET R.objects
    BY <2>1 DEF Request
  <2> HIDE DEF seen
  <2>3. p(c) \in Request
    BY <2>1, <2>2, ZenonT(60) DEF Request
  <2>4. QED
    BY <2>1, <2>3 DEF Request, Notices
<1> HIDE DEF p
<1>3. \A c \in Clients : req'[c] = p(c)
  BY <1>1
<1>4. req' \in [Clients -> Request]
  BY <1>1, <1>2
<1>5. QED
  BY <1>2, <1>3, <1>4

LEMMA VanishIs ==
    ASSUME DirInv, NEW o \in R.objects, Vanish(o)
    PROVE  /\ req' \in [Clients -> Request]
           /\ \A c \in Clients :
                /\ Notices(req[c], req'[c]) /\ req'[c].stub = req[c].stub
                /\ req'[c].seen = req[c].seen /\ req'[c].link = req[c].link \ {o}
<1> DEFINE p(c) == [req[c] EXCEPT !.link = @ \ {o}]
<1>1. req' = [c \in Clients |-> p(c)]
  BY DEF Vanish
<1>2. ASSUME NEW c \in Clients
      PROVE  p(c) \in Request /\ Notices(req[c], p(c)) /\ p(c).stub = req[c].stub
             /\ p(c).seen = req[c].seen /\ p(c).link = req[c].link \ {o}
  <2>1. req[c] \in Request
    BY ReqIs
  <2>2. QED
    BY <2>1 DEF Request, Notices
<1> HIDE DEF p
<1>3. \A c \in Clients : req'[c] = p(c)
  BY <1>1
<1>4. QED
  BY <1>1, <1>2, <1>3

LEMMA NoticesInPlace ==
    ASSUME resource' = resource, \A c \in Clients : InPlace(req[c]) /\ Notices(req[c], req'[c])
    PROVE  \A c \in Clients : InPlace(req[c])'
BY SameResource DEF InPlace, Notices

-----------------------------------------------------------------------------
LEMMA DirInit == Init => DirInv
<1> SUFFICES ASSUME Init PROVE DirInv
  OBVIOUS
<1>1. resource \in DOMAIN Resources /\ R.ids # {} /\ promised \subseteq R.ids
      /\ listed \in [R.ids -> SUBSET tree] /\ bus \in BOOLEAN /\ tree \subseteq R.objects
  BY ThisResource DEF Init, WellFormed
<1>2. Idle \in Request /\ Idle.pc = "idle"
  BY <1>1 DEF Idle, Request
<1>3. req = [c \in Clients |-> Idle]
  BY DEF Init
<1> HIDE DEF Idle
<1>4. QED
  BY <1>1, <1>2, <1>3 DEF DirInv, InventoryTypeOK, InPlace

LEMMA DirStep == DirInv /\ [Next]_vars => DirInv'
<1> SUFFICES ASSUME DirInv, [Next]_vars PROVE DirInv'
  OBVIOUS
<1>1. ASSUME NEW o \in R.objects, Appear(o) PROVE DirInv'
  <2>1. R' = R /\ Request' = Request
    BY <1>1, SameResource DEF Appear
  <2>2. InventoryTypeOK'
    BY <1>1, <2>1, AppearIs DEF Appear, DirInv, InventoryTypeOK
  <2>3. \A c \in Clients : InPlace(req[c])'
    BY <1>1, AppearIs, NoticesInPlace DEF Appear, DirInv
  <2>4. QED
    BY <2>2, <2>3 DEF DirInv
<1>2. ASSUME NEW o \in R.objects, Vanish(o) PROVE DirInv'
  <2>1. R' = R /\ Request' = Request
    BY <1>2, SameResource DEF Vanish
  <2>2. InventoryTypeOK'
    BY <1>2, <2>1, VanishIs DEF Vanish, DirInv, InventoryTypeOK
  <2>3. \A c \in Clients : InPlace(req[c])'
    BY <1>2, VanishIs, NoticesInPlace DEF Vanish, DirInv
  <2>4. QED
    BY <2>2, <2>3 DEF DirInv
<1>3. CASE ListSnapshot
  <2>1. R' = R /\ Request' = Request
    BY <1>3, SameResource DEF ListSnapshot
  <2>2. Placeholders \subseteq R.ids
    BY ThisResource DEF DirInv, InventoryTypeOK, WellFormed, Placeholders
  <2>3. InventoryTypeOK'
    BY <1>3, <2>1, <2>2 DEF ListSnapshot, DirInv, InventoryTypeOK
  <2>4. \A c \in Clients : InPlace(req[c])'
    BY <1>3, SameResource DEF ListSnapshot, DirInv, InPlace
  <2>5. QED
    BY <2>3, <2>4 DEF DirInv
<1>4. CASE ListBlind
  <2>1. R' = R /\ Request' = Request
    BY <1>4, SameResource DEF ListBlind
  <2>2. R.list.failed \subseteq R.ids /\ R.list.noBus \subseteq R.ids
    BY ThisResource DEF DirInv, InventoryTypeOK, WellFormed
  <2>3. InventoryTypeOK'
    BY <1>4, <2>1, <2>2 DEF ListBlind, DirInv, InventoryTypeOK
  <2>4. \A c \in Clients : InPlace(req[c])'
    BY <1>4, SameResource DEF ListBlind, DirInv, InPlace
  <2>5. QED
    BY <2>3, <2>4 DEF DirInv
<1>5. ASSUME NEW c \in Clients,
             \/ \E id \in R.ids : GetMember(c, id)
             \/ LookBlind(c) \/ LookFinds(c) \/ LookMisses(c) \/ LookFails(c)
             \/ Read(c) \/ Answer(c)
      PROVE  DirInv'
  BY <1>5, LookIs, RequestStep DEF Becomes
<1>6. CASE UNCHANGED vars
  <2>1. R' = R /\ Request' = Request
    BY <1>6, SameResource DEF vars
  <2>2. QED
    BY <1>6, <2>1, SameResource DEF vars, DirInv, InventoryTypeOK, InPlace
<1>7. QED
  BY <1>1, <1>2, <1>3, <1>4, <1>5, <1>6 DEF Next

\* Type correctness (the handlers' answers are those the code has).
THEOREM InventoryTypeCorrect == Spec => []InventoryTypeOK
<1>1. DirInv => InventoryTypeOK
  BY DEF DirInv
<1>2. QED
  BY <1>1, DirInit, DirStep, PTL DEF Spec

-----------------------------------------------------------------------------
(* The refinement.                                                         *)

present == {id \in R.ids : Named(id) \cap tree # {}}

\* While the objects stay, a client's step is a step of its lookup alone.
LEMMA PhaseIs ==
    ASSUME DirInv, NEW c \in Clients, NEW p \in Request, Becomes(c, p)
    PROVE  /\ phase' = [phase EXCEPT ![c] = [id |-> p.id, state |-> PhaseOf(p)]]
           /\ phase[c] = [id |-> req[c].id, state |-> PhaseOf(req[c])]
           /\ present' = present /\ R' = R
<1>1. R' = R /\ present' = present
  BY SameResource DEF Becomes, present
<1>2. \A d \in Clients : req'[d] = IF d = c THEN p ELSE req[d]
  BY DEF Becomes, DirInv, InventoryTypeOK
<1>3. \A q : PhaseOf(q)' = PhaseOf(q)
  BY DEF PhaseOf, Becomes
<1> DEFINE ph(q) == [id |-> q.id, state |-> PhaseOf(q)]
<1>4. phase' = [d \in Clients |-> ph(req'[d])]
  BY DEF phase, PhaseOf, Becomes
<1>5. phase = [d \in Clients |-> ph(req[d])]
  BY DEF phase
<1> HIDE DEF ph
<1>6. phase' = [phase EXCEPT ![c] = ph(p)]
  BY <1>2, <1>4, <1>5
<1>7. phase[c] = ph(req[c])
  BY <1>5
<1>8. QED
  BY <1>1, <1>6, <1>7 DEF ph

\* What the refinement needs of a step: which state the lookup goes to.
LEMMA GoesIs ==
    ASSUME DirInv, NEW c \in Clients, NEW p \in Request, Becomes(c, p), p.id = req[c].id
    PROVE  /\ Lookup!Goes(c, PhaseOf(p)) /\ phase[c].state = PhaseOf(req[c])
           /\ phase[c].id = req[c].id /\ req[c].id \in R.ids
           /\ present' = present /\ R' = R
           /\ PhaseOf(p) = PhaseOf(req[c]) => phase' = phase
<1>1. /\ phase' = [phase EXCEPT ![c] = [id |-> p.id, state |-> PhaseOf(p)]]
      /\ phase[c] = [id |-> req[c].id, state |-> PhaseOf(req[c])]
      /\ present' = present /\ R' = R
  BY PhaseIs
<1>2. [phase[c] EXCEPT !.state = PhaseOf(p)] = [id |-> p.id, state |-> PhaseOf(p)]
  BY <1>1
<1>3. Lookup!Goes(c, PhaseOf(p))
  BY <1>1, <1>2 DEF Lookup!Goes
<1>4. PhaseOf(p) = PhaseOf(req[c]) => phase' = phase
  BY <1>1 DEF phase
<1>5. req[c].id \in R.ids
  BY ReqIs DEF Request
<1>6. QED
  BY <1>1, <1>3, <1>4, <1>5

\* The mapped step: a step of the directory, or none.
DirectoryStep == [Lookup!Next]_(Lookup!vars)

LEMMA NoDirectoryStep ==
    ASSUME R' = R, present' = present, phase' = phase PROVE DirectoryStep
BY DEF DirectoryStep, Lookup!vars, present

LEMMA LookupStep ==
    ASSUME R' = R, present' = present, NEW c \in Clients, Lookup!Lookup(c)
    PROVE  DirectoryStep
BY DEF DirectoryStep, Lookup!Next, Lookup!vars, present

\* A request that has found no object, looked at all it will, and decided.
LEMMA DecidedStep ==
    ASSUME DirInv, NEW c \in Clients, NEW p \in Request, Becomes(c, p),
           req[c].pc = "looking", NEW stubs, DecidedOn(req[c], stubs, p),
           ~ p.failed /\ bus /\ req[c].id \in stubs
             => req[c].id \in R.member.missing \cup R.member.empty,
           ~ p.failed /\ bus /\ req[c].id \notin stubs => req[c].id \notin present
    PROVE  DirectoryStep
<1>1. p.id = req[c].id /\ p.found = {} /\ p.pc \in {"reading", "done"}
      /\ p.status = IF req[c].id \in stubs THEN 200 ELSE 404
  BY DEF DecidedOn
<1>2. PhaseOf(req[c]) = "asked"
  BY DEF PhaseOf
<1>3. /\ Lookup!Goes(c, PhaseOf(p)) /\ phase[c].state = "asked"
      /\ phase[c].id = req[c].id /\ req[c].id \in R.ids /\ present' = present /\ R' = R
  BY <1>1, <1>2, GoesIs
<1>4. CASE p.failed \/ ~ bus
  <2>1. PhaseOf(p) = "excused"
    BY <1>1, <1>4 DEF PhaseOf
  <2>2. Lookup!Excuse(c)
    BY <1>3, <2>1 DEF Lookup!Excuse, Lookup!In
  <2>3. QED
    BY <1>3, <2>2, LookupStep DEF Lookup!Lookup
<1>5. CASE ~ p.failed /\ bus /\ req[c].id \in stubs
  <2>1. PhaseOf(p) = "stub"
    BY <1>1, <1>5 DEF PhaseOf
  <2>2. Lookup!Stub(c)
    BY <1>3, <1>5, <2>1 DEF Lookup!Stub, Lookup!In
  <2>3. QED
    BY <1>3, <2>2, LookupStep DEF Lookup!Lookup
<1>6. CASE ~ p.failed /\ bus /\ req[c].id \notin stubs
  <2>1. PhaseOf(p) = "missing"
    BY <1>1, <1>6 DEF PhaseOf
  <2>2. Lookup!Missing(c)
    BY <1>3, <1>6, <2>1 DEF Lookup!Missing, Lookup!In, present
  <2>3. QED
    BY <1>3, <2>2, LookupStep DEF Lookup!Lookup
<1>7. QED
  BY <1>4, <1>5, <1>6

LEMMA MissesStep ==
    ASSUME DirInv, NEW c \in Clients, LookMisses(c) PROVE DirectoryStep
<1> DEFINE stubs == R.member.missing \cup (IF Present = {} THEN R.member.empty ELSE {})
           id == req[c].id
<1>1. PICK p \in Request :
          /\ Becomes(c, p) /\ req[c].pc = "looking" /\ bus
          /\ Tries(id) # << >> /\ req[c].step \in DOMAIN Tries(id)
          /\ Tries(id)[req[c].step] \cap tree = {}
          /\ \/ GoesOn(req[c], p)
             \/ LastTry(req[c]) /\ DecidedOn(req[c], stubs, p)
  BY LookMissesIs
<1>2. CASE GoesOn(req[c], p)
  <2>1. p.id = id /\ PhaseOf(p) = "asked" /\ PhaseOf(req[c]) = "asked"
    BY <1>1, <1>2 DEF GoesOn, PhaseOf
  <2>2. QED
    BY <1>1, <2>1, GoesIs, NoDirectoryStep
<1>3. CASE LastTry(req[c]) /\ DecidedOn(req[c], stubs, p)
  <2>1. ASSUME id \notin stubs PROVE id \notin present
    <3>1. id \in R.ids /\ Tries(id) \in Seq(SUBSET R.objects)
      BY ReqIs, TriesIs DEF Request
    <3>2. Len(Tries(id)) <= 1
      BY <2>1, <3>1, ThisResource DEF DirInv, InventoryTypeOK, WellFormed, Tries
    <3>3. DOMAIN Tries(id) = {req[c].step}
      <4>1. DOMAIN Tries(id) = 1 .. Len(Tries(id)) /\ Len(Tries(id)) \in Nat
        BY <3>1
      <4>2. req[c].step \in 1 .. Len(Tries(id))
        BY <1>1, <4>1
      <4>3. ASSUME NEW n \in Nat, n <= 1, NEW i \in 1 .. n PROVE n = 1 /\ i = 1
        BY <4>3
      <4>4. QED
        BY <3>2, <4>1, <4>2, <4>3
    <3>4. Named(id) \cap tree = {}
      BY <1>1, <3>3 DEF Named
    <3>5. QED
      BY <3>4 DEF present
  <2>2. QED
    BY <1>1, <1>3, <2>1, DecidedStep
<1>4. QED
  BY <1>1, <1>2, <1>3

LEMMA FailsStep ==
    ASSUME DirInv, NEW c \in Clients, LookFails(c) PROVE DirectoryStep
<1>1. PICK p \in Request :
          /\ Becomes(c, p) /\ req[c].pc = "looking" /\ bus /\ p.failed
          /\ GoesOn(req[c], p) \/ DecidedOn(req[c], R.member.failed, p)
  BY LookFailsIs
<1>2. CASE GoesOn(req[c], p)
  <2>1. p.id = req[c].id /\ PhaseOf(p) = "asked" /\ PhaseOf(req[c]) = "asked"
    BY <1>1, <1>2 DEF GoesOn, PhaseOf
  <2>2. QED
    BY <1>1, <2>1, GoesIs, NoDirectoryStep
<1>3. CASE DecidedOn(req[c], R.member.failed, p)
  BY <1>1, <1>3, DecidedStep
<1>4. QED
  BY <1>1, <1>2, <1>3

LEMMA BlindStep ==
    ASSUME DirInv, NEW c \in Clients, LookBlind(c) PROVE DirectoryStep
<1> DEFINE stubs == IF bus THEN R.member.missing ELSE R.member.noBus
<1>1. PICK p \in Request :
          /\ Becomes(c, p) /\ req[c].pc = "looking"
          /\ ~ bus \/ Tries(req[c].id) = << >>
          /\ DecidedOn(req[c], stubs, p)
  BY LookBlindIs
<1>2. bus => req[c].id \notin present
  BY <1>1 DEF present, Named
<1>3. QED
  BY <1>1, <1>2, DecidedStep

LEMMA FindsStep ==
    ASSUME DirInv, NEW c \in Clients, LookFinds(c) PROVE DirectoryStep
<1> DEFINE id == req[c].id
<1>1. PICK o \in Tries(id)[req[c].step] \cap tree, p \in Request :
          /\ Becomes(c, p) /\ req[c].pc = "looking" /\ req[c].step \in DOMAIN Tries(id)
          /\ p.found = {o} /\ p.id = id /\ p.pc \in {"reading", "done"}
  BY LookFindsIs
<1>2. PhaseOf(p) = "found" /\ PhaseOf(req[c]) = "asked"
  BY <1>1 DEF PhaseOf
<1>3. /\ Lookup!Goes(c, "found") /\ phase[c].state = "asked"
      /\ phase[c].id = id /\ id \in R.ids /\ present' = present /\ R' = R
  BY <1>1, <1>2, GoesIs
<1>4. Named(id) \cap tree # {}
  BY <1>1 DEF Named
<1>5. Lookup!Found(c)
  BY <1>3, <1>4 DEF Lookup!Found, Lookup!In
<1>6. QED
  BY <1>3, <1>5, LookupStep DEF Lookup!Lookup

\* The steps of the lookups: the request, the one instant, the answer.
LEMMA ClientStep ==
    ASSUME DirInv, NEW c \in Clients,
           \/ \E id \in R.ids : GetMember(c, id)
           \/ LookBlind(c) \/ LookFinds(c) \/ LookMisses(c) \/ LookFails(c)
           \/ Read(c) \/ Answer(c)
    PROVE  DirectoryStep
<1>1. ASSUME NEW id \in R.ids, GetMember(c, id) PROVE DirectoryStep
  <2>1. PICK p \in Request :
            Becomes(c, p) /\ req[c].pc = "idle" /\ p.pc = "looking" /\ p.id = id
    BY <1>1, GetMemberIs
  <2>2. PhaseOf(p) = "asked" /\ PhaseOf(req[c]) = "idle"
    BY <2>1 DEF PhaseOf
  <2>3. /\ phase' = [phase EXCEPT ![c] = [id |-> id, state |-> "asked"]]
        /\ phase[c].state = "idle" /\ present' = present /\ R' = R
    <3>1. /\ phase' = [phase EXCEPT ![c] = [id |-> p.id, state |-> PhaseOf(p)]]
          /\ phase[c] = [id |-> req[c].id, state |-> PhaseOf(req[c])]
          /\ present' = present /\ R' = R
      BY <2>1, PhaseIs
    <3>2. QED
      BY <2>1, <2>2, <3>1
  <2>4. Lookup!Request(c)
    BY <2>3 DEF Lookup!Request, Lookup!In
  <2>5. QED
    BY <2>3, <2>4, LookupStep DEF Lookup!Lookup
<1>2. CASE Read(c)
  <2>1. PICK p \in Request :
            /\ Becomes(c, p) /\ req[c].pc = "reading" /\ p.pc \in {"reading", "done"}
            /\ p.status = req[c].status /\ p.id = req[c].id /\ p.found = req[c].found
            /\ p.failed = req[c].failed
    BY <1>2, ReadIs
  <2>2. PhaseOf(p) = PhaseOf(req[c])
    BY <2>1 DEF PhaseOf
  <2>3. QED
    BY <2>1, <2>2, GoesIs, NoDirectoryStep
<1>3. CASE Answer(c)
  <2>1. PICK p \in Request :
            Becomes(c, p) /\ req[c].pc = "done" /\ p.pc = "idle" /\ p.id = req[c].id
    BY <1>3, AnswerIs
  <2>2. PhaseOf(p) = "idle" /\ PhaseOf(req[c]) \in {"found", "missing", "stub", "excused"}
    BY <2>1 DEF PhaseOf
  <2>3. /\ Lookup!Goes(c, "idle") /\ present' = present /\ R' = R
        /\ phase[c].state \in {"found", "missing", "stub", "excused"}
    BY <2>1, <2>2, GoesIs
  <2>4. Lookup!Return(c)
    BY <2>3 DEF Lookup!Return
  <2>5. QED
    BY <2>3, <2>4, LookupStep DEF Lookup!Lookup
<1>4. QED
  BY <1>1, <1>2, <1>3, MissesStep, FailsStep, BlindStep, FindsStep

\* Objects come and go, and collections are listed, beside the lookups.
LEMMA TreeStep ==
    ASSUME DirInv, NEW o \in R.objects, Appear(o) \/ Vanish(o) PROVE DirectoryStep
<1>1. resource' = resource /\ bus' = bus
  BY DEF Appear, Vanish
<1>2. R' = R
  BY <1>1, SameResource
<1>3. \A c \in Clients : Notices(req[c], req'[c])
  BY AppearIs, VanishIs
<1>4. phase' = phase
  BY <1>1, <1>3 DEF phase, PhaseOf, Notices
<1>5. present' \in SUBSET R.ids
  BY <1>2 DEF present
<1>6. Lookup!Change
  BY <1>4, <1>5 DEF Lookup!Change, present
<1>7. QED
  BY <1>2, <1>6 DEF DirectoryStep, Lookup!Next, Lookup!vars

LEMMA QuietStep ==
    ASSUME UNCHANGED <<resource, bus, tree, req>> PROVE DirectoryStep
<1>1. R' = R /\ present' = present
  BY SameResource DEF present
<1>2. phase' = phase
  BY DEF phase, PhaseOf
<1>3. QED
  BY <1>1, <1>2, NoDirectoryStep

\* The handlers of a resource implement lookups in a directory: of each GET of
\* a member there is one instant, between the request and the answer, at which
\* the object answered with was there, or for a 404 none of that name.
THEOREM ImplementsDirectoryCorrect == Spec => ImplementsDirectory
<1>1. Init => Lookup!Init
  <2> SUFFICES ASSUME Init, NEW c \in Clients PROVE Lookup!In(c, "idle")
    BY DEF Lookup!Init
  <2>1. PhaseOf(req[c]) = "idle"
    BY DEF Init, Idle, PhaseOf
  <2>2. QED
    BY <2>1 DEF Lookup!In, phase
<1>2. DirInv /\ [Next]_vars => [Lookup!Next]_(Lookup!vars)
  <2> SUFFICES ASSUME DirInv, [Next]_vars PROVE DirectoryStep
    BY DEF DirectoryStep
  <2>1. CASE \E o \in R.objects : Appear(o) \/ Vanish(o)
    BY <2>1, TreeStep
  <2>2. CASE ListSnapshot \/ ListBlind
    BY <2>2, QuietStep DEF ListSnapshot, ListBlind
  <2>3. CASE \E c \in Clients :
                \/ \E id \in R.ids : GetMember(c, id)
                \/ LookBlind(c) \/ LookFinds(c) \/ LookMisses(c) \/ LookFails(c)
                \/ Read(c) \/ Answer(c)
    BY <2>3, ClientStep
  <2>4. CASE UNCHANGED vars
    BY <2>4, QuietStep DEF vars
  <2>5. QED
    BY <2>1, <2>2, <2>3, <2>4 DEF Next
<1>3. QED
  BY <1>1, <1>2, DirInit, DirStep, PTL DEF Spec, ImplementsDirectory, Lookup!Spec

-----------------------------------------------------------------------------
(* Links resolve.                                                          *)

\* The ids a collection lists without an object.
Promisable == IF bus THEN R.list.none \cup R.list.failed ELSE R.list.noBus

\* What the id names is no longer just what its link was listed for.
Upset(q) == q.seen = {} \/ ~ (q.seen \subseteq q.link)

\* A request on its way: its link is to objects that are there; what is there
\* it has seen; a placeholder is one while there is no object at all; no place
\* it has looked at held an object of the link.
LinkKept(q) ==
    /\ q.link \subseteq Listed(q.id) \cap tree
    /\ tree \cap Denoted(q.id) \subseteq q.seen /\ q.found \subseteq q.seen
    /\ q.stub => Present = {} /\ q.id \in Promisable
    /\ q.missed => Upset(q)

SearchKept(q) ==
    q.pc = "looking" =>
        /\ ~ q.missed
        /\ ~ q.failed => \A j \in DOMAIN Tries(q.id) :
                            j < q.step => Tries(q.id)[j] \cap q.link = {}

\* A request that has decided.
AnswerKept(q) ==
    q.pc \in {"reading", "done"} =>
        /\ q.pc = "reading" => bus /\ Target(q) # {}
        /\ bus /\ ~ q.failed
              => Upset(q) \/ (q.status = 200 /\ (q.found # {} \/ Tries(q.id) = << >>))
        /\ q.stub /\ ~ q.failed => q.status = 200

LinkOK(q) == q.pc # "idle" => LinkKept(q) /\ SearchKept(q) /\ AnswerKept(q)

ListsKept ==
    /\ promised # {} => Present = {}
    /\ promised \subseteq Promisable
    /\ \A id \in R.ids : listed[id] \subseteq Listed(id) \cap tree

LinkInv == DirInv /\ ListsKept /\ \A c \in Clients : LinkOK(req[c])

\* The definitions of the invariant while everything but the requests stays.
LEMMA SameLinks ==
    ASSUME UNCHANGED <<resource, bus, tree>>
    PROVE  /\ Present' = Present /\ Promisable' = Promisable /\ R' = R
           /\ \A q : LinkOK(q)' = LinkOK(q)
<1>1. /\ R' = R /\ Present' = Present
      /\ \A id : Tries(id)' = Tries(id) /\ Listed(id)' = Listed(id) /\ Denoted(id)' = Denoted(id)
  BY SameResource DEF Present
<1>2. Promisable' = Promisable
  BY <1>1 DEF Promisable
<1>3. ASSUME NEW q PROVE LinkKept(q)' = LinkKept(q)
  BY <1>1, <1>2 DEF LinkKept, Upset
<1>4. ASSUME NEW q PROVE SearchKept(q)' = SearchKept(q)
  BY <1>1 DEF SearchKept
<1>5. ASSUME NEW q PROVE AnswerKept(q)' = AnswerKept(q)
  BY <1>1 DEF AnswerKept, Target, Upset
<1>6. ASSUME NEW q PROVE LinkOK(q)' = LinkOK(q)
  BY <1>3, <1>4, <1>5 DEF LinkOK
<1>7. QED
  BY <1>1, <1>2, <1>6

LEMMA LinkRequestStep ==
    ASSUME LinkInv, DirInv', NEW c \in Clients, NEW p \in Request, Becomes(c, p), LinkOK(p)
    PROVE  LinkInv'
<1>1. ListsKept'
  BY SameLinks, SameResource DEF LinkInv, ListsKept, Becomes
<1>2. \A d \in Clients : LinkOK(req[d])'
  <2> TAKE d \in Clients
  <2>1. req'[d] = IF d = c THEN p ELSE req[d]
    BY DEF LinkInv, DirInv, InventoryTypeOK, Becomes
  <2>2. LinkOK(req'[d])
    BY <2>1 DEF LinkInv
  <2>3. LinkOK(req[d])' = LinkOK(req'[d])
    <3>1. /\ Present' = Present /\ Promisable' = Promisable /\ R' = R /\ bus' = bus /\ tree' = tree
          /\ \A id : Tries(id)' = Tries(id) /\ Listed(id)' = Listed(id)
                     /\ Denoted(id)' = Denoted(id)
      BY SameLinks, SameResource DEF Becomes
    <3>2. QED
      BY <3>1 DEF LinkOK, LinkKept, SearchKept, AnswerKept, Target, Upset
  <2>4. QED
    BY <2>2, <2>3
<1>3. QED
  BY <1>1, <1>2 DEF LinkInv

\* The resource is one whose collection and handler agree.
LEMMA Agrees ==
    ASSUME DirInv, NEW id \in R.ids
    PROVE  /\ Tries(id) # << >> => Listed(id) \subseteq Named(id)
           /\ Tries(id) = << >> /\ (Listed(id) # {} \/ id \in R.list.none \cup R.list.failed)
                 => id \in R.member.missing
           /\ R.member.built[id] # {} => Listed(id) \subseteq R.member.built[id]
           /\ id \in R.list.none \cup R.list.failed
                 => id \in R.member.missing \cup R.member.empty
           /\ id \in R.list.noBus => id \in R.member.noBus
<1>1. LinksAgree(R)
  BY LinkAssumption DEF DirInv, InventoryTypeOK, R
<1>2. QED
  BY <1>1 DEF LinksAgree, Tries, Listed, Named

LEMMA GetMemberLinks ==
    ASSUME LinkInv, NEW c \in Clients, NEW id \in R.ids, GetMember(c, id)
    PROVE  \E p \in Request : Becomes(c, p) /\ LinkOK(p)
<1>1. PICK p \in Request :
          /\ Becomes(c, p) /\ p.pc = "looking" /\ p.id = id /\ p.found = {} /\ p.step = 1
          /\ ~ p.missed /\ p.seen = tree \cap Denoted(id) /\ p.link = listed[id]
          /\ p.stub = (id \in promised)
  BY GetMemberIs DEF LinkInv
<1>2. LinkKept(p)
  BY <1>1 DEF LinkKept, LinkInv, ListsKept
<1>3. SearchKept(p)
  <2>1. Tries(id) \in Seq(SUBSET R.objects)
    BY TriesIs DEF LinkInv
  <2>2. \A j \in DOMAIN Tries(id) : ~ (j < 1)
    BY <2>1
  <2>3. QED
    BY <1>1, <2>2 DEF SearchKept
<1>4. AnswerKept(p)
  BY <1>1 DEF AnswerKept
<1>5. QED
  BY <1>1, <1>2, <1>3, <1>4 DEF LinkOK

\* Nothing found in any place looked at: the link has no object left.
LEMMA NothingOfTheLink ==
    ASSUME LinkInv, NEW q \in Request, LinkKept(q), Tries(q.id) # << >>,
           \A j \in DOMAIN Tries(q.id) : Tries(q.id)[j] \cap q.link = {}
    PROVE  Upset(q)
<1>1. q.id \in R.ids
  BY DEF Request
<1>2. Listed(q.id) \subseteq Named(q.id)
  BY <1>1, Agrees DEF LinkInv
<1>3. q.link = {}
  BY <1>2 DEF LinkKept, Named
<1>4. QED
  BY <1>3 DEF Upset

\* A decision without an object found keeps what is known of the link.
LEMMA DecidedLinks ==
    ASSUME LinkInv, NEW c \in Clients, NEW stubs, NEW p \in Request,
           req[c].pc = "looking", DecidedOn(req[c], stubs, p),
           bus /\ ~ p.failed => Upset(req[c]) \/ (req[c].id \in stubs /\ Tries(req[c].id) = << >>),
           req[c].stub /\ ~ p.failed => req[c].id \in stubs
    PROVE  LinkOK(p)
<1> DEFINE q == req[c]
<1>1. LinkKept(q) /\ SearchKept(q)
  BY DEF LinkInv, LinkOK
<1>2. /\ p.id = q.id /\ p.found = {} /\ p.missed = q.missed
      /\ p.seen = q.seen /\ p.link = q.link /\ p.stub = q.stub
      /\ p.pc \in {"reading", "done"} /\ p.status = IF q.id \in stubs THEN 200 ELSE 404
      /\ p.pc = "reading" => bus /\ Target(p) # {}
  BY DEF DecidedOn
<1>3. LinkKept(p)
  BY <1>1, <1>2 DEF LinkKept, Upset
<1>4. SearchKept(p)
  BY <1>2 DEF SearchKept
<1>5. AnswerKept(p)
  BY <1>2 DEF AnswerKept, Upset
<1>6. QED
  BY <1>3, <1>4, <1>5 DEF LinkOK

\* A request goes on to its next place.
LEMMA GoesOnLinks ==
    ASSUME LinkInv, NEW c \in Clients, NEW p \in Request, req[c].pc = "looking",
           req[c].step \in DOMAIN Tries(req[c].id), GoesOn(req[c], p),
           ~ p.failed => ~ req[c].failed /\ Tries(req[c].id)[req[c].step] \cap req[c].link = {}
    PROVE  LinkOK(p)
<1> DEFINE q == req[c]
<1>1. LinkKept(q) /\ SearchKept(q)
  BY DEF LinkInv, LinkOK
<1>2. /\ p.pc = "looking" /\ p.step = q.step + 1 /\ p.id = q.id /\ p.found = {}
      /\ p.missed = q.missed /\ p.seen = q.seen /\ p.link = q.link /\ p.stub = q.stub
  BY DEF GoesOn
<1>3. LinkKept(p)
  BY <1>1, <1>2 DEF LinkKept, Upset
<1>4. SearchKept(p)
  <2> SUFFICES ASSUME ~ p.failed, NEW j \in DOMAIN Tries(q.id), j < q.step + 1
               PROVE  Tries(q.id)[j] \cap q.link = {}
    BY <1>1, <1>2 DEF SearchKept
  <2>1. q.id \in R.ids /\ q.step \in Nat
    BY ReqIs DEF LinkInv, Request
  <2>2. j \in Nat
    BY <2>1, TriesIs DEF LinkInv
  <2>3. CASE j < q.step
    BY <1>1, <2>3 DEF SearchKept
  <2>4. CASE j = q.step
    BY <2>4
  <2>5. QED
    BY <2>1, <2>2, <2>3, <2>4
<1>5. AnswerKept(p)
  BY <1>2 DEF AnswerKept
<1>6. QED
  BY <1>3, <1>4, <1>5 DEF LinkOK

LEMMA BlindLinks ==
    ASSUME LinkInv, NEW c \in Clients, LookBlind(c)
    PROVE  \E p \in Request : Becomes(c, p) /\ LinkOK(p)
<1> DEFINE q == req[c]
           stubs == IF bus THEN R.member.missing ELSE R.member.noBus
<1>1. PICK p \in Request :
          /\ Becomes(c, p) /\ q.pc = "looking" /\ p.failed = q.failed
          /\ ~ bus \/ Tries(q.id) = << >>
          /\ DecidedOn(q, stubs, p)
  BY LookBlindIs DEF LinkInv
<1>2. q.id \in R.ids /\ LinkKept(q)
  BY <1>1, ReqIs DEF LinkInv, LinkOK, Request
<1>3. bus => Upset(q) \/ (q.id \in stubs /\ Tries(q.id) = << >>)
  <2> SUFFICES ASSUME bus, ~ Upset(q) PROVE q.id \in stubs /\ Tries(q.id) = << >>
    OBVIOUS
  <2>1. Tries(q.id) = << >>
    BY <1>1
  <2>2. Listed(q.id) # {}
    BY <1>2 DEF Upset, LinkKept
  <2>3. QED
    BY <1>2, <2>1, <2>2, Agrees DEF LinkInv
<1>4. q.stub => q.id \in stubs
  <2> SUFFICES ASSUME q.stub PROVE q.id \in stubs
    OBVIOUS
  <2>1. q.id \in Promisable
    BY <1>2 DEF LinkKept
  <2>2. CASE bus
    BY <1>1, <1>2, <2>1, <2>2, Agrees DEF Promisable, LinkInv
  <2>3. CASE ~ bus
    BY <1>2, <2>1, <2>3, Agrees DEF Promisable, LinkInv
  <2>4. QED
    BY <2>2, <2>3
<1>5. QED
  BY <1>1, <1>3, <1>4, DecidedLinks

LEMMA MissesLinks ==
    ASSUME LinkInv, NEW c \in Clients, LookMisses(c)
    PROVE  \E p \in Request : Becomes(c, p) /\ LinkOK(p)
<1> DEFINE q == req[c]
           stubs == R.member.missing \cup (IF Present = {} THEN R.member.empty ELSE {})
<1>1. PICK p \in Request :
          /\ Becomes(c, p) /\ q.pc = "looking" /\ bus
          /\ Tries(q.id) # << >> /\ q.step \in DOMAIN Tries(q.id)
          /\ Tries(q.id)[q.step] \cap tree = {} /\ p.failed = q.failed
          /\ \/ GoesOn(q, p)
             \/ LastTry(q) /\ DecidedOn(q, stubs, p)
  BY LookMissesIs DEF LinkInv
<1>2. q \in Request /\ q.id \in R.ids /\ LinkKept(q) /\ SearchKept(q)
  BY <1>1, ReqIs DEF LinkInv, LinkOK, Request
<1>3. Tries(q.id)[q.step] \cap q.link = {}
  BY <1>1, <1>2 DEF LinkKept
<1>4. CASE GoesOn(q, p)
  <2>1. ~ p.failed => ~ q.failed
    BY <1>1
  <2>2. QED
    BY <1>1, <1>3, <1>4, <2>1, GoesOnLinks
<1>5. CASE LastTry(q) /\ DecidedOn(q, stubs, p)
  <2>1. ASSUME ~ q.failed PROVE Upset(q)
    <3>1. ASSUME NEW j \in DOMAIN Tries(q.id) PROVE Tries(q.id)[j] \cap q.link = {}
      <4>1. Tries(q.id) \in Seq(SUBSET R.objects)
        BY <1>2, TriesIs DEF LinkInv
      <4>2. j \in 1 .. Len(Tries(q.id)) /\ q.step = Len(Tries(q.id)) /\ Len(Tries(q.id)) \in Nat
        BY <1>5, <4>1 DEF LastTry
      <4>3. j = q.step \/ j < q.step
        BY <4>2
      <4>4. QED
        BY <1>1, <1>2, <1>3, <2>1, <4>3 DEF SearchKept
    <3>2. QED
      BY <1>1, <1>2, <3>1, NothingOfTheLink
  <2>2. ASSUME q.stub PROVE q.id \in stubs
    BY <1>1, <1>2, <2>2, Agrees DEF LinkKept, Promisable, LinkInv
  <2>3. QED
    BY <1>1, <1>5, <2>1, <2>2, DecidedLinks
<1>6. QED
  BY <1>1, <1>4, <1>5

LEMMA FailsLinks ==
    ASSUME LinkInv, NEW c \in Clients, LookFails(c)
    PROVE  \E p \in Request : Becomes(c, p) /\ LinkOK(p)
<1>1. PICK p \in Request :
          /\ Becomes(c, p) /\ req[c].pc = "looking" /\ req[c].step \in DOMAIN Tries(req[c].id)
          /\ p.failed
          /\ GoesOn(req[c], p) \/ DecidedOn(req[c], R.member.failed, p)
  BY LookFailsIs DEF LinkInv
<1>2. QED
  BY <1>1, GoesOnLinks, DecidedLinks

LEMMA FindsLinks ==
    ASSUME LinkInv, NEW c \in Clients, LookFinds(c)
    PROVE  \E p \in Request : Becomes(c, p) /\ LinkOK(p)
<1> DEFINE q == req[c]
<1>1. PICK o \in Tries(q.id)[q.step] \cap tree, p \in Request :
          /\ Becomes(c, p) /\ q.pc = "looking" /\ bus /\ q.step \in DOMAIN Tries(q.id)
          /\ p.found = {o} /\ p.id = q.id /\ p.missed = q.missed /\ p.seen = q.seen
          /\ p.link = q.link /\ p.stub = q.stub
          /\ p.pc \in {"reading", "done"} /\ p.status = 200
  BY LookFindsIs DEF LinkInv
<1>2. LinkKept(q) /\ ~ q.missed
  BY <1>1 DEF LinkInv, LinkOK, SearchKept
<1>3. o \in tree \cap Denoted(q.id)
  BY <1>1 DEF Denoted, Named
<1>4. LinkKept(p)
  BY <1>1, <1>2, <1>3 DEF LinkKept
<1>5. SearchKept(p)
  BY <1>1 DEF SearchKept
<1>6. p.pc = "reading" => Target(p) # {}
  BY <1>1 DEF Target
<1>7. AnswerKept(p)
  BY <1>1, <1>6 DEF AnswerKept
<1>8. QED
  BY <1>1, <1>4, <1>5, <1>7 DEF LinkOK

LEMMA ReadLinks ==
    ASSUME LinkInv, NEW c \in Clients, Read(c)
    PROVE  \E p \in Request : Becomes(c, p) /\ LinkOK(p)
<1> DEFINE q == req[c]
<1>1. PICK p \in Request :
          /\ Becomes(c, p) /\ q.pc = "reading" /\ p.pc \in {"reading", "done"}
          /\ p.status = q.status /\ p.id = q.id /\ p.found = q.found /\ p.failed = q.failed
          /\ p.seen = q.seen /\ p.link = q.link /\ p.stub = q.stub
          /\ p.missed <=> q.missed \/ Target(q) \cap tree = {}
  BY ReadIs DEF LinkInv
<1>2. LinkKept(q) /\ AnswerKept(q) /\ q.id \in R.ids
  BY <1>1, ReqIs DEF LinkInv, LinkOK, Request
<1>3. ASSUME Target(q) \cap tree = {} PROVE Upset(q)
  <2> SUFFICES ASSUME q.seen # {}, q.seen \subseteq q.link PROVE FALSE
    BY DEF Upset
  <2>1. q.seen \subseteq Listed(q.id) \cap tree /\ q.found \subseteq q.seen
    BY <1>2 DEF LinkKept
  <2>2. Target(q) # {}
    BY <1>1, <1>2 DEF AnswerKept
  <2>3. CASE R.member.built[q.id] = {}
    BY <1>3, <2>1, <2>2, <2>3 DEF Target
  <2>4. CASE R.member.built[q.id] # {}
    BY <1>2, <1>3, <2>1, <2>4, Agrees DEF Target, LinkInv
  <2>5. QED
    BY <2>3, <2>4
<1>4. LinkKept(p)
  BY <1>1, <1>2, <1>3 DEF LinkKept, Upset
<1>5. SearchKept(p)
  BY <1>1 DEF SearchKept
<1>6. Target(p) = Target(q) /\ (Upset(p) <=> Upset(q))
  BY <1>1 DEF Target, Upset
<1>7. AnswerKept(p)
  BY <1>1, <1>2, <1>6 DEF AnswerKept
<1>8. QED
  BY <1>1, <1>4, <1>5, <1>7 DEF LinkOK

\* An object comes: a request that has not seen it is upset by it.
LEMMA AppearLinks ==
    ASSUME LinkInv, NEW o \in R.objects, Appear(o) PROVE ListsKept' /\ \A c \in Clients : LinkOK(req[c])'
<1>1. /\ resource' = resource /\ bus' = bus /\ listed' = listed /\ tree' = tree \cup {o}
      /\ o \notin tree /\ promised' = {}
  BY DEF Appear
<1>2. /\ R' = R
      /\ \A id : Tries(id)' = Tries(id) /\ Listed(id)' = Listed(id) /\ Denoted(id)' = Denoted(id)
  BY <1>1, SameResource
<1>3. ListsKept'
  BY <1>1, <1>2 DEF LinkInv, ListsKept
<1>4. ASSUME NEW c \in Clients PROVE LinkOK(req[c])'
  <2> DEFINE q == req[c]
             p == req'[c]
  <2>1. /\ Notices(q, p) /\ ~ p.stub /\ p.link = q.link
        /\ p.seen = IF o \in Denoted(q.id) /\ ~ At(c, "idle") THEN q.seen \cup {o} ELSE q.seen
    BY AppearIs DEF LinkInv
  <2>2. /\ p.pc = q.pc /\ p.id = q.id /\ p.step = q.step /\ p.found = q.found
        /\ p.failed = q.failed /\ p.missed = q.missed /\ p.status = q.status
    BY <2>1 DEF Notices
  <2> SUFFICES ASSUME q.pc # "idle" PROVE LinkKept(req[c])' /\ SearchKept(req[c])' /\ AnswerKept(req[c])'
    BY <2>2 DEF LinkOK, LinkKept, SearchKept, AnswerKept, Target, Upset
  <2>3. LinkKept(q) /\ SearchKept(q) /\ AnswerKept(q)
    BY DEF LinkInv, LinkOK
  <2>4. p.seen = IF o \in Denoted(q.id) THEN q.seen \cup {o} ELSE q.seen
    BY <2>1 DEF At
  <2>5. o \notin q.link
    BY <1>1, <2>3 DEF LinkKept
  <2>6. Upset(q) => Upset(p)
    BY <2>1, <2>4, <2>5 DEF Upset
  <2>7. LinkKept(req[c])'
    BY <1>1, <1>2, <2>1, <2>2, <2>3, <2>4, <2>6 DEF LinkKept, Upset
  <2>8. SearchKept(req[c])'
    BY <1>2, <2>1, <2>2, <2>3 DEF SearchKept
  <2>9. AnswerKept(req[c])'
    BY <1>1, <1>2, <2>1, <2>2, <2>3, <2>6 DEF AnswerKept, Target, Upset
  <2>10. QED
    BY <2>7, <2>8, <2>9
<1>5. QED
  BY <1>3, <1>4

\* An object goes, and with it the links to it.
LEMMA VanishLinks ==
    ASSUME LinkInv, NEW o \in R.objects, Vanish(o) PROVE ListsKept' /\ \A c \in Clients : LinkOK(req[c])'
<1>1. /\ resource' = resource /\ bus' = bus /\ promised' = promised /\ tree' = tree \ {o}
      /\ listed' = [id \in R.ids |-> listed[id] \ {o}]
  BY DEF Vanish
<1>2. /\ R' = R
      /\ \A id : Tries(id)' = Tries(id) /\ Listed(id)' = Listed(id) /\ Denoted(id)' = Denoted(id)
  BY <1>1, SameResource
<1>3. Present' \subseteq Present /\ Promisable' = Promisable
  BY <1>1, <1>2 DEF Present, Promisable
<1>4. ListsKept'
  BY <1>1, <1>2, <1>3 DEF LinkInv, ListsKept
<1>5. ASSUME NEW c \in Clients PROVE LinkOK(req[c])'
  <2> DEFINE q == req[c]
             p == req'[c]
  <2>1. /\ Notices(q, p) /\ p.stub = q.stub /\ p.seen = q.seen /\ p.link = q.link \ {o}
    BY VanishIs DEF LinkInv
  <2>2. /\ p.pc = q.pc /\ p.id = q.id /\ p.step = q.step /\ p.found = q.found
        /\ p.failed = q.failed /\ p.missed = q.missed /\ p.status = q.status
    BY <2>1 DEF Notices
  <2> SUFFICES ASSUME q.pc # "idle" PROVE LinkKept(req[c])' /\ SearchKept(req[c])' /\ AnswerKept(req[c])'
    BY <2>2 DEF LinkOK, LinkKept, SearchKept, AnswerKept, Target, Upset
  <2>3. LinkKept(q) /\ SearchKept(q) /\ AnswerKept(q)
    BY DEF LinkInv, LinkOK
  <2>4. Upset(q) => Upset(p)
    BY <2>1 DEF Upset
  <2>5. LinkKept(req[c])'
    BY <1>1, <1>2, <1>3, <2>1, <2>2, <2>3, <2>4 DEF LinkKept, Upset
  <2>6. SearchKept(req[c])'
    BY <1>2, <2>1, <2>2, <2>3 DEF SearchKept
  <2>7. AnswerKept(req[c])'
    BY <1>1, <1>2, <2>1, <2>2, <2>3, <2>4 DEF AnswerKept, Target, Upset
  <2>8. QED
    BY <2>5, <2>6, <2>7
<1>6. QED
  BY <1>4, <1>5

\* A collection is listed: the requests on their way hold the links they had.
LEMMA ListLinks ==
    ASSUME LinkInv, ListSnapshot \/ ListBlind
    PROVE  ListsKept' /\ \A c \in Clients : LinkOK(req[c])'
<1>1. UNCHANGED <<resource, bus, tree, req>>
  BY DEF ListSnapshot, ListBlind
<1>2. /\ R' = R /\ Present' = Present /\ Promisable' = Promisable
      /\ \A id : Tries(id)' = Tries(id) /\ Listed(id)' = Listed(id) /\ Denoted(id)' = Denoted(id)
  BY <1>1, SameResource, SameLinks
<1>3. ListsKept'
  <2>1. CASE ListSnapshot
    BY <1>1, <1>2, <2>1 DEF ListSnapshot, Placeholders, Promisable, LinkInv, ListsKept,
                            DirInv, InventoryTypeOK
  <2>2. CASE ListBlind
    BY <1>1, <1>2, <2>2 DEF ListBlind, Promisable, LinkInv, ListsKept
  <2>3. QED
    BY <2>1, <2>2
<1>4. \A c \in Clients : LinkOK(req[c])'
  BY <1>1, <1>2 DEF LinkInv, LinkOK, LinkKept, SearchKept, AnswerKept, Target, Upset
<1>5. QED
  BY <1>3, <1>4

LEMMA LinkInit == Init => LinkInv
<1> SUFFICES ASSUME Init PROVE LinkInv
  OBVIOUS
<1>1. DirInv
  BY DirInit
<1>2. ListsKept
  BY DEF Init, ListsKept
<1>3. \A c \in Clients : LinkOK(req[c])
  BY DEF Init, Idle, LinkOK
<1>4. QED
  BY <1>1, <1>2, <1>3 DEF LinkInv

LEMMA LinkStep == LinkInv /\ [Next]_vars => LinkInv'
<1> SUFFICES ASSUME LinkInv, [Next]_vars PROVE LinkInv'
  OBVIOUS
<1>1. DirInv /\ DirInv'
  BY DirStep DEF LinkInv
<1>2. CASE \E o \in R.objects : Appear(o) \/ Vanish(o)
  BY <1>1, <1>2, AppearLinks, VanishLinks DEF LinkInv
<1>3. CASE ListSnapshot \/ ListBlind
  BY <1>1, <1>3, ListLinks DEF LinkInv
<1>4. ASSUME NEW c \in Clients,
             \/ \E id \in R.ids : GetMember(c, id)
             \/ LookBlind(c) \/ LookFinds(c) \/ LookMisses(c) \/ LookFails(c)
             \/ Read(c) \/ Answer(c)
      PROVE  LinkInv'
  <2>1. \E p \in Request : Becomes(c, p) /\ LinkOK(p)
    <3>1. CASE Answer(c)
      BY <1>1, <3>1, AnswerIs DEF LinkOK
    <3>2. QED
      BY <1>4, <3>1, GetMemberLinks, BlindLinks, FindsLinks, MissesLinks, FailsLinks, ReadLinks
  <2>2. QED
    BY <1>1, <2>1, LinkRequestStep
<1>5. CASE UNCHANGED vars
  <2>1. /\ UNCHANGED <<resource, bus, tree, listed, promised, req>>
        /\ R' = R /\ Present' = Present /\ Promisable' = Promisable
        /\ \A id : Tries(id)' = Tries(id) /\ Listed(id)' = Listed(id) /\ Denoted(id)' = Denoted(id)
    BY <1>5, SameResource, SameLinks DEF vars
  <2>2. QED
    BY <1>1, <2>1 DEF LinkInv, ListsKept, LinkOK, LinkKept, SearchKept, AnswerKept, Target, Upset
<1>6. QED
  BY <1>2, <1>3, <1>4, <1>5 DEF Next

\* Links resolve: a client that follows a link of a collection, while no call
\* fails and the id names just what it was listed for, gets the whole member;
\* a link listed for want of objects is answered until one appears.
THEOREM LinkResolvesCorrect == Spec => []LinkResolves
<1>1. LinkInv => LinkResolves
  <2> SUFFICES ASSUME LinkInv, NEW c \in Clients, At(c, "done"), ~ req[c].failed
               PROVE  /\ bus /\ req[c].seen # {} /\ req[c].seen \subseteq req[c].link
                           => req[c].status = 200
                              /\ (Whole(req[c]) \/ Tries(req[c].id) = << >>)
                      /\ req[c].stub => req[c].status = 200
    BY DEF LinkResolves
  <2>1. LinkKept(req[c]) /\ AnswerKept(req[c]) /\ req[c].pc = "done"
    BY DEF LinkInv, LinkOK, At
  <2>2. QED
    BY <2>1 DEF LinkKept, AnswerKept, Upset, Whole
<1>2. QED
  BY <1>1, LinkInit, LinkStep, PTL DEF Spec
=============================================================================
