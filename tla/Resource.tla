------------------------------ MODULE Resource ------------------------------
(***************************************************************************)
(* What the handlers of a Redfish collection and of its members have in    *)
(* common.  A collection handler takes one snapshot of a daemon's objects  *)
(* (GetManagedObjects) and lists the ids of those it recognises.  A member *)
(* handler looks for an object of the id it was asked for, by a snapshot   *)
(* or by a property of the object at a path it builds, answers 404 when    *)
(* there is none, and may read more properties afterwards, each with a     *)
(* default.  A resource is the record of the decisions of its handlers;    *)
(* the texts of their answers are left out.                                *)
(***************************************************************************)
EXTENDS Naturals, Sequences, FiniteSets

CONSTANTS
    Names,      \* the last elements of the paths of a kind of object
    Nested,     \* the names there are one level further down, too
    Others      \* the names of objects of another kind next to them

Obj(kind, path) == [kind |-> kind, path |-> path]
Leaf(o) == o.path[Len(o.path)]
Below(kind, root, names) == {Obj(kind, Append(root, n)) : n \in names}

Of(kind, objects) == {o \in objects : o.kind = kind}

\* Those that are not directly below a path.
Deeper(root, objects) == {o \in objects : Len(o.path) > Len(root) + 1}

System == <<"inventory", "system">>

\* Objects of a kind below a path, some deeper than others, and objects of
\* another kind between them.
Mixed(kind, root, names) ==
    Below(kind, root, names) \cup Below(kind, Append(root, "board"), Nested)
        \cup Below("Item", root, Others)

\* A collection of the objects in "from", by the last element of the path.
\*   noBus, failed: the ids it lists without a D-Bus connection, and when
\*                  the call fails
\*   none, needs:   the ids it lists when it finds none in "from", provided
\*                  there is one in "needs", if "needs" is not empty
\*   astray:        those of "from" that the member handler looks for, or reads,
\*                  at a place where they are not, or does not answer though it
\*                  finds them: their links lead nowhere
ByLeaf(from) ==
    [from |-> from, id |-> [o \in from |-> Leaf(o)],
     noBus |-> {}, failed |-> {}, none |-> {}, needs |-> {}, astray |-> {}]

\* A member handler.
\*   tries:  the objects it looks for, one set for each call it makes
\*   reads:  how many properties it reads afterwards, from the object it has
\*           found, or from the one at a path built from the id, if there is
\*           one in "built"
\*   noBus, failed, missing: the ids it answers with a stub and not with 404
\*           without a connection, when a call fails, when it finds nothing
\*   empty:  the ids it answers with a stub when there is nothing of the kind
Looked(ids, tries) ==
    [tries |-> tries, reads |-> 0, built |-> [id \in ids |-> {}],
     noBus |-> {}, failed |-> {}, missing |-> {}, empty |-> {}]

\* By the last element, in a snapshot.
Scan(ids, objects) ==
    Looked(ids, [id \in ids |-> <<{o \in objects : Leaf(o) = id}>>])

\* By a property of the object at a built path.
Ask(ids, kind, root) ==
    Looked(ids, [id \in ids |-> <<{Obj(kind, Append(root, id))}>>])

\* The handler makes no call, and answers every id.
Unchecked(ids) ==
    [Looked(ids, [id \in ids |-> << >>]) EXCEPT !.noBus = ids, !.missing = ids]

\* The objects that may be there, the ids requests name, the two handlers.
\* The id of the enclosing resource is checked first and a request that gives
\* another is answered 404 at once, which is left out.
Redfish(objects, ids, list, member) ==
    [objects |-> objects, ids |-> ids, list |-> list, member |-> member]

\* Both handlers look for objects of the kind, anywhere in the inventory.
Scanned(kind) ==
    LET objects == Mixed(kind, System, Names)
    IN Redfish(objects, Names, ByLeaf(Of(kind, objects)),
               Scan(Names, Of(kind, objects)))
=============================================================================
