----------------------------- MODULE MCRedfish -----------------------------
(* Reading and setting the resources of the host and the BMC: a behaviour   *)
(* is about a collection and its members (Inventory), or about a form       *)
(* (Settings), and the other one rests.                                     *)
EXTENDS SystemResources, ChassisResources, ManagerResources, ServiceResources,
        InventoryLinks, SettingForms

AllResources ==
    [r \in {"Hypervisor", "Processors", "Memory", "LogEntries", "Storage",
            "StorageDrives", "StorageControllers", "HostInterfaces",
            "NetworkInterfaces", "PCIeDevices", "OperatingConfigs",
            "FabricAdapters", "Chassis", "ChassisSensors", "ThermalReadings",
            "NetworkAdapters", "ChassisDrives", "PowerSupplies", "Fans",
            "Cables", "Fabrics", "FabricSwitches", "EthernetInterfaces",
            "BmcLogEntries", "VirtualMedia", "Accounts", "SoftwareInventory",
            "FirmwareInventory"} |->
        CASE r = "Hypervisor" -> Hypervisor
          [] r = "Processors" -> Processors
          [] r = "Memory" -> Memory
          [] r = "LogEntries" -> LogEntries
          [] r = "Storage" -> Storage
          [] r = "StorageDrives" -> StorageDrives
          [] r = "StorageControllers" -> StorageControllers
          [] r = "HostInterfaces" -> HostInterfaces
          [] r = "NetworkInterfaces" -> NetworkInterfaces
          [] r = "PCIeDevices" -> PCIeDevices
          [] r = "OperatingConfigs" -> OperatingConfigs
          [] r = "FabricAdapters" -> FabricAdapters
          [] r = "Chassis" -> Chassis
          [] r = "ChassisSensors" -> ChassisSensors
          [] r = "ThermalReadings" -> ThermalReadings
          [] r = "NetworkAdapters" -> NetworkAdapters
          [] r = "ChassisDrives" -> ChassisDrives
          [] r = "PowerSupplies" -> PowerSupplies
          [] r = "Fans" -> Fans
          [] r = "Cables" -> Cables
          [] r = "Fabrics" -> Fabrics
          [] r = "FabricSwitches" -> FabricSwitches
          [] r = "EthernetInterfaces" -> EthernetInterfaces
          [] r = "BmcLogEntries" -> BmcLogEntries
          [] r = "VirtualMedia" -> VirtualMedia
          [] r = "Accounts" -> Accounts
          [] r = "SoftwareInventory" -> SoftwareInventory
          [] r = "FirmwareInventory" -> FirmwareInventory]

AllForms ==
    [f \in {"NetworkProtocol", "NicSettings", "OtherNicSettings", "SystemSettings",
            "SystemReset", "ManagerReset", "ClearLog", "ClearManagerLog",
            "ResetBios", "IndicatorLED", "AccountPolicy", "UserAccount",
            "RootAccount", "PutProperty", "PutObject"} |->
        CASE f = "NetworkProtocol" -> NetworkProtocol
          [] f = "NicSettings" -> NicSettings
          [] f = "OtherNicSettings" -> OtherNicSettings
          [] f = "SystemSettings" -> SystemSettings
          [] f = "SystemReset" -> SystemReset
          [] f = "ManagerReset" -> ManagerReset
          [] f = "ClearLog" -> ClearLog
          [] f = "ClearManagerLog" -> ClearManagerLog
          [] f = "ResetBios" -> ResetBios
          [] f = "IndicatorLED" -> IndicatorLED
          [] f = "AccountPolicy" -> AccountPolicy
          [] f = "UserAccount" -> UserAccount
          [] f = "RootAccount" -> RootAccount
          [] f = "PutProperty" -> PutProperty
          [] f = "PutObject" -> PutObject]

VARIABLE part   \* which one this behaviour is about

RedfishInit ==
    /\ part \in {"inventory", "settings"}
    /\ Init /\ SettingsInit
    /\ part = "inventory" => form = (CHOOSE f \in DOMAIN Forms : TRUE) /\ online
    /\ part = "settings" => resource = (CHOOSE r \in DOMAIN Resources : TRUE) /\ bus

RedfishNext ==
    \/ part = "inventory" /\ Next /\ UNCHANGED <<part, settingsVars>>
    \/ part = "settings" /\ SettingsNext /\ UNCHANGED <<part, vars>>

RedfishSpec == RedfishInit /\ [][RedfishNext]_<<part, vars, settingsVars>>
=============================================================================
