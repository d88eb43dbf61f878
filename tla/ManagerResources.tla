-------------------------- MODULE ManagerResources --------------------------
(* The collections below /redfish/v1/Managers (api/redfish/managers.rs).       *)
EXTENDS Resource

Interfaces == Mixed("EthernetInterface", <<"network">>, Names \cup {"eth0"})

Nics == Of("EthernetInterface", Interfaces)

\* The interfaces, or "eth0" when there is none, the call fails or there is
\* no D-Bus.
InterfacesListed ==
    [ByLeaf(Nics) EXCEPT !.noBus = {"eth0"}, !.failed = {"eth0"}, !.none = {"eth0"},
                         !.astray = Deeper(<<"network">>, Nics)]

\* An interface is refused only when others are known; then it is read, three
\* properties, below network.
EthernetInterfaces ==
    LET ids == Names \cup {"eth0"}
    IN Redfish(Interfaces, ids, InterfacesListed,
               [Scan(ids, Nics) EXCEPT !.reads = 3,
                   !.built = [id \in ids |-> Below("EthernetInterface", <<"network">>, {id})],
                   !.noBus = {"eth0"}, !.failed = ids, !.empty = ids])

\* The BMC's log: the same entries as the system's.
BmcLogEntries ==
    LET root == <<"logging", "entry">>
        objects == Below("Entry", root, Names) \cup Below("Entry", <<"logging">>, Others)
        listed == {o \in objects : SubSeq(o.path, 1, 2) = root}
    IN Redfish(objects, Names, ByLeaf(listed), Ask(Names, "Entry", root))

\* The event log: every entry is listed, but looked for at logging/{id}.
DBusEventLog ==
    LET entries == Below("Entry", <<"logging", "entry">>, Names)
    IN Redfish(entries, Names, ByLeaf(entries),
               Looked(Names, [id \in Names |-> <<entries \cap Below("Entry", <<"logging">>, {id})>>]))

\* The slots of virtual media, at any depth: one exists when its Active can be
\* read directly below VirtualMedia; three properties are read afterwards.
VirtualMedia ==
    LET root == <<"VirtualMedia">>
        slots == Mixed("Process", root, Names)
    IN Redfish(slots, Names,
               [ByLeaf(Of("Process", slots)) EXCEPT !.astray = Deeper(root, slots)],
               [Ask(Names, "Process", root) EXCEPT !.reads = 3])
=============================================================================
