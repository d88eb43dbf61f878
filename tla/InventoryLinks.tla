--------------------------- MODULE InventoryLinks ---------------------------
(***************************************************************************)
(* The resources whose collection and member handler agree: what the one   *)
(* lists, unless astray, the other finds or answers anyway.                *)
(***************************************************************************)
EXTENDS Inventory

\* An object listed under an id is at one of the places the member handler
\* looks at, and the later properties are read from it; what is listed without
\* an object is answered without one.
LinksAgree(r) ==
    \A id \in r.ids :
        LET objects == {o \in r.list.from \ r.list.astray : r.list.id[o] = id}
            tries == r.member.tries[id]
            unfound == r.member.missing \cup r.member.empty
        IN
        /\ tries # << >> => objects \subseteq UNION {tries[i] : i \in DOMAIN tries}
        /\ tries = << >> /\ (objects # {} \/ id \in r.list.none \cup r.list.failed)
              => id \in r.member.missing
        /\ r.member.built[id] # {} => objects \subseteq r.member.built[id]
        /\ id \in r.list.none \cup r.list.failed => id \in unfound
        /\ id \in r.list.noBus => id \in r.member.noBus

ASSUME LinkAssumption == \A r \in DOMAIN Resources : LinksAgree(Resources[r])
=============================================================================
