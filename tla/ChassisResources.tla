-------------------------- MODULE ChassisResources --------------------------
(* The collections below /redfish/v1/Chassis, the cables and the fabrics       *)
(* (api/redfish/chassis.rs, fabrics.rs).                                       *)
EXTENDS Resource

ChassisRoot == <<"inventory", "system", "chassis">>
Chassises ==
    Below("Chassis", ChassisRoot, Names \cup {"chassis"})
        \cup Below("Chassis", Append(System, "board"), Nested)

\* The chassis of the inventory, or "chassis" when there is none, the call
\* fails or there is no D-Bus.
ChassisListed ==
    [ByLeaf(Chassises) EXCEPT
        !.astray = {o \in Chassises : o.path[3] = "board"},
        !.noBus = {"chassis"}, !.failed = {"chassis"}, !.none = {"chassis"}]

\* A chassis is looked up by its name, wherever it is, and then read, four
\* properties, below system/chassis; "chassis" is always answered.
Chassis ==
    LET ids == Names \cup {"chassis"}
    IN Redfish(Chassises, ids, ChassisListed,
               [Scan(ids, Chassises) EXCEPT !.reads = 4,
                   !.built = [id \in ids |-> Below("Chassis", ChassisRoot, {id})],
                   !.noBus = {"chassis"}, !.failed = {"chassis"}, !.missing = {"chassis"}])

\* A sensor's id is the last two elements of its path joined by "_", which
\* does not tell fan/tach_x from fan_tach/x.
SensorId(o) ==
    LET type == o.path[Len(o.path) - 1]
        name == Leaf(o)
    IN IF type = "fan" /\ name = "tach_x" THEN <<"fan_tach", "x">> ELSE <<type, name>>

\* Those whose value is read as a number, and others.
Readable ==
    {Obj("Value", <<"sensors", "fan", "tach_x">>), Obj("Value", <<"sensors", "fan_tach", "x">>)}
        \cup Below("Value", <<"sensors", "temperature">>, Names \ Others)
Sensors == Readable \cup Below("NoNumber", <<"sensors", "temperature">>, Others)

SensorIds == {SensorId(o) : o \in Sensors}

\* The sensors associated with the chassis, whatever their values.
SensorsListed ==
    [ByLeaf(Sensors) EXCEPT !.id = [o \in Sensors |-> SensorId(o)],
                            !.astray = Sensors \ Readable]

\* A sensor of the given id, in a snapshot of the sensor service; one that is
\* found and whose value is not a number is answered 404.
ChassisSensors ==
    Redfish(Sensors, SensorIds, SensorsListed,
            Looked(SensorIds,
                   [id \in SensorIds |-> <<{o \in Readable : SensorId(o) = id}>>]))

\* The thermal metrics point to the temperature sensors that have a reading, by
\* ids they build.
ThermalReadings ==
    LET readings == {o \in Readable : o.path[2] = "temperature"}
    IN [ChassisSensors EXCEPT
           !.list = [ByLeaf(readings) EXCEPT
                        !.id = [o \in readings |-> <<"temperature", Leaf(o)>>]]]

\* The adapters at any depth below the chassis, by their names; each is read, four
\* properties, directly below the chassis, and answered whatever there is.
NetworkAdapters ==
    LET adapters == Mixed("NetworkAdapter", ChassisRoot, Names)
    IN Redfish(adapters, Names,
               [ByLeaf(Of("NetworkAdapter", adapters)) EXCEPT
                   !.astray = Deeper(ChassisRoot, adapters)],
               [Ask(Names, "NetworkAdapter", ChassisRoot) EXCEPT !.reads = 3,
                   !.built = [id \in Names |-> Below("NetworkAdapter", ChassisRoot, {id})],
                   !.noBus = Names, !.failed = Names, !.missing = Names])

\* The drives at any depth below the chassis; each exists when its properties can be read
\* directly below the chassis, and is read four times more.
ChassisDrives ==
    LET drives == Mixed("Drive", ChassisRoot, Names)
    IN Redfish(drives, Names,
               [ByLeaf(Of("Drive", drives)) EXCEPT !.astray = Deeper(ChassisRoot, drives)],
               [Ask(Names, "Drive", ChassisRoot) EXCEPT !.reads = 4])

PowerSupplyListed ==
    ByLeaf(Of("PowerSupply", Mixed("PowerSupply", System, Names)))

PowerSupplies == [Scanned("PowerSupply") EXCEPT !.list = PowerSupplyListed]

\* Fans are the sensors below fan_tach and below fan.  A fan is asked for
\* below the one, then below the other, and answered whatever there is.
Fans ==
    LET tach(id) == Below("Value", <<"sensors", "fan_tach">>, {id})
        fan(id) == Below("Value", <<"sensors", "fan">>, {id})
        fans == (UNION {tach(id) : id \in Names}) \cup UNION {fan(id) : id \in Others}
    IN Redfish(fans, Names, ByLeaf(fans),
               [Looked(Names, [id \in Names |-> <<tach(id), fan(id) \cap fans>>]) EXCEPT
                   !.noBus = Names, !.failed = Names, !.missing = Names])

Cables == Scanned("Cable")

\* Switches lie below fabric/{fabric}/switch, or anywhere else.
Switches ==
    Below("PCIeSwitch", <<"fabric", "f", "switch">>, Names)
        \cup Below("PCIeSwitch", <<"board">>, Others)

\* A fabric for each path of a switch that names one, or "HGX" when the
\* switches lie elsewhere.  Any fabric is answered.
Fabrics ==
    LET inFabric == {o \in Switches : o.path[1] = "fabric"}
        ids == {"f", "HGX"}
        list == [ByLeaf(inFabric) EXCEPT !.id = [o \in inFabric |-> o.path[2]],
                                         !.none = {"HGX"}, !.needs = Switches]
    IN Redfish(Switches, ids, list, Unchecked(ids))

\* Every fabric lists every switch, and any switch is answered.
FabricSwitches ==
    Redfish(Switches, Names, ByLeaf(Switches), Unchecked(Names))
=============================================================================
