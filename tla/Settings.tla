------------------------------ MODULE Settings ------------------------------
(***************************************************************************)
(* A client changing settings that live in D-Bus properties, with PATCH or  *)
(* an action's POST.  The handler makes one call for each member of the     *)
(* body it knows, in its own order, logs those that fail and goes on; then  *)
(* it answers with what the GET of the resource reads.  Between its calls   *)
(* daemons and other clients change the same properties.                    *)
(*                                                                          *)
(* A form is the record of what a handler writes and reads; a behaviour is  *)
(* about one of the forms, chosen at the start, and one request at a time:  *)
(* the other clients are part of Change.                                    *)
(***************************************************************************)
EXTENDS Naturals, Sequences, FiniteSetsExt

CONSTANTS
    Forms,      \* the forms, by their names
    MaxItems    \* bound: the members a body has at most

\* To set the property "prop" to "value".
To(prop, value) == [prop |-> prop, value |-> value]

\* The member "item" of a body, of the given kind of JSON: "stored" says what
\* is set for each value it may have; "copies", for which of these the value
\* is first read from another property, and the one in "stored" is used when
\* that fails; "lossy", which are stored as something else.
Member(item, json, stored) ==
    [item |-> item, json |-> json, stored |-> stored,
     copies |-> [v \in DOMAIN stored |-> {}], lossy |-> {}]

\* The member "item" of the answer, as "shown" makes it from the property, or
\* the default if that cannot be read.  One that is compared with what was read
\* of the property "beside" is "alike" when both are the same, or neither read.
Shown(item, prop, shown, default) ==
    [item |-> item, prop |-> prop, shown |-> shown, default |-> default,
     beside |-> {}, alike |-> default]

\* The properties with their values, and those that others set.  The members in
\* the order of their calls, those that are accepted without a call, those a body
\* always has, one it may leave out having a default, and the values that are
\* answered 400.  The calls of the answer, each with the members it shows,
\* whether there is no answer but 404 without them, and whether they may find
\* that there is no such object, which is 404 too.  What is answered without a
\* D-Bus connection, and when a call fails.
Form(props, writes, reads) ==
    [props |-> props, changes |-> props, writes |-> writes, ignored |-> {},
     required |-> {}, rejected |-> {}, reads |-> reads, needed |-> FALSE,
     vanishes |-> FALSE, offline |-> 200, refused |-> 200]

\* What the handlers have in common: no two calls set one property; and a
\* property that is copied is set, if at all, by an earlier call.
Targets(w) == {w.stored[v].prop : v \in DOMAIN w.stored}

WriteFits(f, w) ==
    \A v \in DOMAIN w.stored :
        /\ w.stored[v].prop \in DOMAIN f.props
        /\ w.stored[v].value \in f.props[w.stored[v].prop]
        /\ w.copies[v] \subseteq DOMAIN f.props
        /\ \A source \in w.copies[v] :
              w.copies[v] = {source} /\ f.props[source] \subseteq f.props[w.stored[v].prop]

TargetsApart(f) ==
    \A i, j \in DOMAIN f.writes : i # j =>
        /\ f.writes[i].item # f.writes[j].item
        /\ Targets(f.writes[i]) \cap Targets(f.writes[j]) = {}

CopiesOfEarlier(f) ==
    \A i, j \in DOMAIN f.writes : j >= i =>
        \A v \in DOMAIN f.writes[i].stored : f.writes[i].copies[v] \cap Targets(f.writes[j]) = {}

FormFits(f) ==
    /\ DOMAIN f.writes \subseteq Nat
    /\ Len(f.reads) \in Nat /\ DOMAIN f.reads = 1..Len(f.reads)
    /\ \A p \in DOMAIN f.props : f.props[p] # {} /\ f.changes[p] \subseteq f.props[p]
    /\ \A i \in DOMAIN f.writes : WriteFits(f, f.writes[i])
    /\ TargetsApart(f) /\ CopiesOfEarlier(f)
    /\ \A k \in DOMAIN f.reads : \A r \in f.reads[k] :
          {r.prop} \cup r.beside \subseteq DOMAIN f.props
    /\ {f.offline, f.refused} \subseteq {200, 404, 500, 503}

ASSUME FormAssumption == \A f \in DOMAIN Forms : FormFits(Forms[f])

VARIABLES
    form,       \* the form this behaviour is about
    online,     \* whether the server has a D-Bus connection
    value,      \* of each property
    patch       \* the request

settingsVars == <<form, online, value, patch>>

F == Forms[form]
Writes == {F.writes[i] : i \in DOMAIN F.writes}
Members == Writes \cup F.ignored
\* The calls for a body, by their numbers in the handler's order.
Asked(body) == {i \in DOMAIN F.writes : F.writes[i].item \in DOMAIN body}

\* The request: the calls still to be made, the value copied, how many reads
\* are still to be made, and what the answer's members are made from: each
\* property, as it was read.  As history: the members whose call failed, whether
\* a copy failed, the properties it has set, and those another has set since.
NoPatch == [pc |-> "idle", body |-> << >>, status |-> 0, todo |-> {}, copy |-> "",
            left |-> 0, seen |-> << >>, failed |-> {}, blind |-> FALSE,
            mine |-> {}, touched |-> {}]

\* What a property is read as whose call fails.
Unread == ""

\* JSON null, objects and lists that are not all strings have no D-Bus form.
json_to_zvariant(json) == json \notin {"null", "object", "mixed"}

\* The members of the answer, and what one of them is made from.
AnswerMembers == UNION {F.reads[k] : k \in DOMAIN F.reads}
Sources(r) == {r.prop} \cup r.beside
ReadFor(item) == UNION {Sources(r) : r \in {x \in AnswerMembers : x.item = item}}

Shows(r, read) ==
    IF \E p \in r.beside : read[p] = read[r.prop] THEN r.alike
    ELSE IF read[r.prop] = Unread THEN r.default ELSE r.shown[read[r.prop]]

Concerned(w) ==
    Targets(w) \cup ReadFor(w.item) \cup UNION {w.copies[v] : v \in DOMAIN w.stored}

-----------------------------------------------------------------------------
(* Daemons and other clients.                                              *)

Change(prop, v) ==
    /\ value[prop] # v
    /\ value' = [value EXCEPT ![prop] = v]
    /\ patch' = IF \E w \in Members : w.item \in DOMAIN patch.body /\ prop \in Concerned(w)
                THEN [patch EXCEPT !.touched = @ \cup {prop}] ELSE patch
    /\ UNCHANGED <<form, online>>

-----------------------------------------------------------------------------
(* The handler.                                                            *)

Items == {w.item : w \in Members}
Values == UNION {DOMAIN w.stored : w \in Members}

Bodies ==
    LET members == {g \in SUBSET Items : F.required \subseteq g /\ Cardinality(g) <= MaxItems}
    IN {body \in UNION {[given -> Values] : given \in members} :
           \A w \in Members : w.item \in DOMAIN body => body[w.item] \in DOMAIN w.stored}

\* Mutant: the answer is read before the calls.
OnwardReadsFirst(q) ==
    CASE q.left > 0                 -> [q EXCEPT !.pc = "reading"]
      [] q.left = 0 /\ q.todo # {} -> [q EXCEPT !.pc = "writing"]
      [] OTHER                      -> [q EXCEPT !.pc = "done"]

\* The next thing to do.
Onward(q) ==
    CASE q.todo # {}               -> [q EXCEPT !.pc = "writing"]
      [] q.todo = {} /\ q.left > 0 -> [q EXCEPT !.pc = "reading"]
      [] OTHER                        -> [q EXCEPT !.pc = "done"]

Rejected(body) == \E i \in DOMAIN body : body[i] \in F.rejected

Accept(body) ==
    /\ patch.pc = "idle" /\ ~ Rejected(body)
    /\ patch' = Onward([NoPatch EXCEPT
                           !.body = body,
                           !.status = IF online THEN 200 ELSE F.offline,
                           !.todo = IF online THEN Asked(body) ELSE {},
                           !.left = IF online THEN Len(F.reads) ELSE 0])
    /\ UNCHANGED <<form, online, value>>

Reject(body) ==
    /\ patch.pc = "idle" /\ Rejected(body)
    /\ patch' = [NoPatch EXCEPT !.pc = "done", !.body = body, !.status = 400]
    /\ UNCHANGED <<form, online, value>>

\* Mutant: the calls are made in the reverse order.
LastCall == Max(patch.todo)

NextCall == Min(patch.todo)

Call == F.writes[NextCall]
Chosen(w) == patch.body[w.item]
Copying(w) == w.copies[Chosen(w)] # {}

\* Before a call whose value is copied: the property it is copied from.
CopyProperty ==
    /\ patch.pc = "writing" /\ Copying(Call)
    /\ \E source \in Call.copies[Chosen(Call)], ok \in BOOLEAN :
          patch' = [patch EXCEPT
                       !.pc = "copied", !.blind = @ \/ ~ ok,
                       !.copy = IF ok THEN value[source] ELSE Call.stored[Chosen(Call)].value]
    /\ UNCHANGED <<form, online, value>>

Ready == patch.pc = "copied" \/ (patch.pc = "writing" /\ ~ Copying(Call))

Property == Call.stored[Chosen(Call)].prop
Sent == IF patch.pc = "copied" THEN patch.copy ELSE Call.stored[Chosen(Call)].value

\* The call is made and its property set.
Set == value' = [value EXCEPT ![Property] = Sent]
Made(q) == [q EXCEPT !.todo = @ \ {NextCall}, !.mine = @ \cup {Property}, !.touched = @ \ {Property}]
Failed(q) == [q EXCEPT !.failed = @ \cup {Call.item}, !.status = F.refused]

SetProperty ==
    /\ Ready /\ json_to_zvariant(Call.json)
    /\ Set
    /\ patch' = Onward(Made(patch))
    /\ UNCHANGED <<form, online>>

\* Mutant: the first call that fails is the last.
SetPropertyFailsEnds ==
    /\ Ready /\ json_to_zvariant(Call.json)
    /\ Set \/ UNCHANGED value
    /\ patch' = Onward([Made(Failed(patch)) EXCEPT !.todo = {}])
    /\ UNCHANGED <<form, online>>

\* The call is made and answered with an error, or not answered: the property
\* may be set or not.
SetPropertyFails ==
    /\ Ready /\ json_to_zvariant(Call.json)
    /\ Set \/ UNCHANGED value
    /\ patch' = Onward(Made(Failed(patch)))
    /\ UNCHANGED <<form, online>>

\* The call is not made.
SetPropertyRefused ==
    /\ Ready /\ ~ json_to_zvariant(Call.json)
    /\ patch' = Onward([Failed(patch) EXCEPT !.todo = @ \ {NextCall}])
    /\ UNCHANGED <<form, online, value>>

\* The next read of the answer; what no member of the body needs is not kept.
GetProperty ==
    LET read == {r.prop : r \in F.reads[Len(F.reads) - patch.left + 1]}
                   \cap UNION {ReadFor(item) : item \in DOMAIN patch.body}
    IN
    /\ patch.pc = "reading"
    /\ \E ok \in BOOLEAN :
          patch' = Onward([patch EXCEPT
              !.left = @ - 1,
              !.status = IF ok \/ ~ F.needed THEN @ ELSE 404,
              !.seen = [p \in DOMAIN @ \cup read |->
                           IF p \notin read THEN @[p] ELSE IF ok THEN value[p] ELSE Unread]])
    /\ UNCHANGED <<form, online, value>>

\* The answer's first call says that there is no such object.
Vanished ==
    /\ patch.pc = "reading" /\ F.vanishes /\ patch.left = Len(F.reads)
    /\ patch' = [patch EXCEPT !.pc = "done", !.status = 404, !.left = 0]
    /\ UNCHANGED <<form, online, value>>

Return ==
    /\ patch.pc = "done"
    /\ patch' = NoPatch
    /\ UNCHANGED <<form, online, value>>

-----------------------------------------------------------------------------
SettingsInit ==
    /\ form \in DOMAIN Forms
    /\ online \in BOOLEAN
    /\ value = [prop \in DOMAIN F.props |-> CHOOSE v \in F.props[prop] : TRUE]
    /\ patch = NoPatch

SettingsNext ==
    \/ \E prop \in DOMAIN F.props : \E v \in F.changes[prop] : Change(prop, v)
    \/ patch.pc = "idle" /\ \E body \in Bodies : Accept(body) \/ Reject(body)
    \/ CopyProperty \/ SetProperty \/ SetPropertyFails \/ SetPropertyRefused
    \/ GetProperty \/ Vanished \/ Return

SettingsSpec == SettingsInit /\ [][SettingsNext]_settingsVars

-----------------------------------------------------------------------------
(* Properties.                                                             *)

\* Type invariant.
SettingsTypeOK ==
    /\ form \in DOMAIN Forms /\ online \in BOOLEAN
    /\ DOMAIN value = DOMAIN F.props
    /\ \A prop \in DOMAIN value : value[prop] \in F.props[prop]
    /\ patch.pc \in {"idle", "writing", "copied", "reading", "done"}
    /\ patch.status \in {0, 200, 400, 404, 500, 503}
    /\ DOMAIN patch.body \subseteq Items /\ DOMAIN patch.seen \subseteq DOMAIN F.props
    /\ patch.failed \subseteq DOMAIN patch.body
    /\ patch.mine \cup patch.touched \subseteq DOMAIN F.props

Finished == patch.pc = "done" /\ online

\* The calls of the request that did their work, and whose work nobody undid.
Effective ==
    {w \in Writes :
        /\ w.item \in DOMAIN patch.body \ patch.failed
        /\ w.stored[Chosen(w)].prop \notin patch.touched}

\* One member that fails stops no other: when the handler is done, every
\* property of the body whose own call did not fail is as the body asks,
\* unless somebody else changed it since.  Properties of other members are
\* left alone, and a request answered 400 has set none.  Where a failed call is
\* an error, an answer without one means that every call was made.
EveryMemberTried ==
    Finished =>
        /\ patch.status = 400 => patch.mine = {}
        /\ patch.status = 200 /\ F.refused # 200 => patch.failed = {}
        /\ patch.mine \subseteq {w.stored[Chosen(w)].prop :
                                    w \in {x \in Writes : x.item \in DOMAIN patch.body}}
        /\ patch.status # 400 =>
              \A w \in Effective :
                 ~ Copying(w) => value[w.stored[Chosen(w)].prop] = w.stored[Chosen(w)].value

\* A boot override for the next boot is for the target of the same request:
\* the copy is made after the target is set.
OnceIsForTarget ==
    Finished /\ patch.status # 400 /\ ~ patch.blind =>
        \A w \in Effective :
            \A source \in w.copies[Chosen(w)] :
                source \notin patch.touched => value[w.stored[Chosen(w)].prop] = value[source]

\* The members of the body that the answer shows: those of which everything
\* they are made from could be read.
Answered ==
    {r \in AnswerMembers :
        /\ r.item \in DOMAIN patch.body
        /\ \A p \in Sources(r) : p \in DOMAIN patch.seen /\ patch.seen[p] # Unread}

\* The answer is read after the last call, not before or between them: each
\* member shows what GET makes of the properties as they are now, whether the
\* call for it was made or failed, unless somebody else has set one since.
AnswerFromStored ==
    Finished =>
        \A r \in Answered :
            Sources(r) \cap patch.touched = {} => Shows(r, patch.seen) = Shows(r, value)

\* systems.rs:435, "Return updated system resource": a member that was set, and
\* by nobody else since, is answered as it was given.
AnswerAsWritten ==
    Finished /\ ~ patch.blind =>
        \A w \in Effective, r \in Answered :
            /\ r.item = w.item /\ Chosen(w) \notin w.lossy
            /\ Sources(r) \cap patch.touched = {}
            => Shows(r, patch.seen) = Chosen(w)
=============================================================================
