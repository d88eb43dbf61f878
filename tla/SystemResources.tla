--------------------------- MODULE SystemResources ---------------------------
(* The collections below /redfish/v1/Systems (api/redfish/systems.rs).        *)
EXTENDS Resource

\* Systems: "system" is always there; the hypervisor is listed, and
\* answered, when its state can be read.
Hypervisor ==
    LET host == {Obj("Host", <<"state", "hypervisor0">>)}
        ids == {"hypervisor"}
    IN Redfish(host, ids, [ByLeaf(host) EXCEPT !.id = [o \in host |-> "hypervisor"]],
               Looked(ids, [id \in ids |-> <<host>>]))

\* Without D-Bus only "cpu0" is answered; when the call fails, every id.
Processors ==
    LET ids == Names \cup {"cpu0"}
        cpus == Mixed("Cpu", System, ids)
    IN Redfish(cpus, ids, ByLeaf(Of("Cpu", cpus)),
               [Scan(ids, Of("Cpu", cpus)) EXCEPT !.noBus = {"cpu0"}, !.failed = ids])

\* As the processors, with "dimm0".
Memory ==
    LET ids == Names \cup {"dimm0"}
        dimms == Mixed("Dimm", System, ids)
    IN Redfish(dimms, ids, ByLeaf(Of("Dimm", dimms)),
               [Scan(ids, Of("Dimm", dimms)) EXCEPT !.noBus = {"dimm0"}, !.failed = ids])

\* The log's entries, listed when they lie below logging/entry, and read
\* at logging/entry/{id}.
LogEntries ==
    LET root == <<"logging", "entry">>
        objects == Below("Entry", root, Names) \cup Below("Entry", <<"logging">>, Others)
        listed == {o \in objects : SubSeq(o.path, 1, 2) = root}
    IN Redfish(objects, Names, ByLeaf(listed), Ask(Names, "Entry", root))

\* Storage controllers and drives, two kinds of objects.
Controllers == Below("StorageController", System, Names \cup {"0"})
Drives == Mixed("Drive", System, Others)

\* The controllers, or one called "1" when there are only drives.
StorageListed ==
    [ByLeaf(Controllers) EXCEPT !.none = {"1"}, !.needs = Of("Drive", Drives)]

\* "1" is answered even if there is no controller of that name.
Storage ==
    LET ids == Names \cup {"0", "1"}
    IN Redfish(Controllers \cup Drives, ids, StorageListed,
               [Scan(ids, Controllers) EXCEPT
                   !.noBus = {"1"}, !.missing = {"1"}, !.failed = ids])

\* Every controller lists every drive; a drive is looked up by its own name.
StorageDrives ==
    Redfish(Drives, Names, ByLeaf(Of("Drive", Drives)), Scan(Names, Of("Drive", Drives)))

\* A controller is found in one snapshot and its four properties are read
\* afterwards; "0" is answered whatever there is.  A storage resource points
\* to its controllers by no link of its own: the clients build the id.
StorageControllers ==
    LET ids == Names \cup {"0"}
    IN Redfish(Controllers, ids, ByLeaf(Controllers),
               [Scan(ids, Controllers) EXCEPT !.reads = 4,
                   !.noBus = {"0"}, !.missing = {"0"}, !.failed = {"0"}])

\* The interfaces directly below network, their VLANs not.
HostInterfacesListed ==
    LET nics == Mixed("EthernetInterface", <<"network">>, Names)
    IN ByLeaf({o \in Of("EthernetInterface", nics) : Len(o.path) = 2})

\* An interface exists when its MACAddress can be read; its addresses are
\* enumerated afterwards.
HostInterfaces ==
    Redfish(Mixed("EthernetInterface", <<"network">>, Names), Names, HostInterfacesListed,
            [Ask(Names, "EthernetInterface", <<"network">>) EXCEPT !.reads = 1])

NetworkInterfaces == Scanned("NetworkInterface")

PCIeDevices == Scanned("PCIeDevice")

\* The configurations of cpu1: listed by a prefix of the path, which is one of
\* cpu10's too, and read at the path itself.
OperatingConfigs ==
    LET cpu(name) == <<"inventory", "system", "chassis", "motherboard", name>>
        others == Below("OperatingConfig", cpu("cpu10"), Nested)
        configs == Below("OperatingConfig", cpu("cpu1"), Names) \cup others
    IN Redfish(configs \cup Below("Item", cpu("cpu1"), Others), Names,
               [ByLeaf(configs) EXCEPT !.astray = others],
               Ask(Names, "OperatingConfig", cpu("cpu1")))

\* Found in one snapshot; four properties are read from the path found.
FabricAdapters == [Scanned("FabricAdapter") EXCEPT !.member.reads = 4]
=============================================================================
