---------------------------- MODULE SettingForms ----------------------------
(* The handlers that set D-Bus properties (api/redfish/systems.rs,          *)
(* managers.rs, chassis.rs, accounts.rs, and api/dbus_rest.rs).  Of a       *)
(* text or a number two values are told apart, the one a body gives and     *)
(* another.                                                                 *)
EXTENDS Settings

Texts == {"given", "other"}
OnOff == {"true", "false"}
Same(values) == [v \in values |-> v]
SetTo(prop, values) == [v \in values |-> To(prop, v)]

-----------------------------------------------------------------------------
(* Managers/bmc/NetworkProtocol.                                            *)

NetworkProtocolReads ==
    <<{Shown("HostName", "HostName", Same(Texts), "openbmc")},
      {Shown("NTPServers", "NTPServers", Same(Texts), "none")},
      {Shown("IPMI", "ipmi", Same(OnOff), "true")},
      {Shown("SSH", "dropbear", Same(OnOff), "true")}>>

NetworkProtocol ==
    [Form([HostName |-> Texts, NTPServers |-> Texts, dropbear |-> OnOff, ipmi |-> OnOff],
          <<Member("HostName", "string", SetTo("HostName", {"given"})),
            Member("NTPServers", "strings", SetTo("NTPServers", {"given"})),
            Member("SSH", "bool", SetTo("dropbear", OnOff)),
            Member("IPMI", "bool", SetTo("ipmi", OnOff))>>,
          NetworkProtocolReads)
        EXCEPT !.changes = [HostName |-> {"other"}, NTPServers |-> {"other"},
                            dropbear |-> {"true"}, ipmi |-> {"true"}]]

(* Managers/bmc/EthernetInterfaces/{nic_id}.  The static addresses go to    *)
(* the call as a JSON object.  DHCPEnabled is not read back: the answer     *)
(* always says true.  Only eth0 is answered without D-Bus, and none that is *)
(* not among the interfaces, when there are any.                            *)

NicSettings ==
    [Form([DHCPEnabled |-> OnOff, MACAddress |-> Texts, IP |-> Texts],
          <<Member("DHCPEnabled", "bool", SetTo("DHCPEnabled", OnOff)),
            Member("MACAddress", "string", SetTo("MACAddress", {"given"})),
            Member("IPv4StaticAddresses", "object", SetTo("IP", {"given"}))>>,
          <<{Shown("MACAddress", "MACAddress", Same(Texts), "00:00:00:00:00:00")}>>)
        EXCEPT !.vanishes = TRUE]

OtherNicSettings == [NicSettings EXCEPT !.offline = 404]

-----------------------------------------------------------------------------
(* Systems/system: the asset tag and the boot override.                     *)

Boots == {"Network", "Disk", "ExternalMedia", "UEFI", "Default"}

boot_source_to_redfish ==
    [Network |-> "Pxe", Disk |-> "Hdd", ExternalMedia |-> "Cd", UEFI |-> "UefiShell",
     Default |-> "None"]

Unmapped == {"BiosSetup", "UefiTarget"}

redfish_target_to_boot_source ==
    [Pxe |-> "Network", Hdd |-> "Disk", Cd |-> "ExternalMedia", UefiShell |-> "UEFI",
     None |-> "Default", BiosSetup |-> "Default", UefiTarget |-> "Default"]

\* The override is disabled when the next boot has the default, or what every
\* boot has.
one_time_to_enabled == [s \in Boots |-> IF s = "Default" THEN "Disabled" ELSE "Once"]

SystemReads ==
    <<{Shown("BootSourceOverrideTarget", "BootSource", boot_source_to_redfish, "None")},
      {[Shown("BootSourceOverrideEnabled", "OneTime", one_time_to_enabled, "Once") EXCEPT
           !.beside = {"BootSource"}, !.alike = "Disabled"]},
      {Shown("AssetTag", "AssetTag", Same(Texts), "")}>>

BootTarget ==
    [Member("BootSourceOverrideTarget", "string",
           [t \in DOMAIN redfish_target_to_boot_source |->
               To("BootSource", redfish_target_to_boot_source[t])])
        EXCEPT !.lossy = Unmapped]

\* "Once" copies the target to the property of the next boot, or "Default" if
\* it cannot be read.
BootEnabled ==
    [Member("BootSourceOverrideEnabled", "string",
           [e \in {"Once", "Disabled"} |-> To("OneTime", "Default")])
        EXCEPT !.copies["Once"] = {"BootSource"}]

AssetTag == Member("AssetTag", "string", SetTo("AssetTag", {"given"}))

SystemWrites == <<AssetTag, BootTarget, BootEnabled>>

\* Others set the target, too; the host clears the override when it boots.
SystemSettings ==
    [Form([AssetTag |-> Texts, BootSource |-> Boots, OneTime |-> Boots],
          SystemWrites, SystemReads)
        EXCEPT !.changes.BootSource = {"Disk", "Default"}, !.changes.OneTime = {"Default"}]

-----------------------------------------------------------------------------
(* Systems/system ComputerSystem.Reset, Managers/bmc Manager.Reset.  "" is  *)
(* a request without ResetType.                                             *)

HostTransitions ==
    [On |-> "On", ForceOn |-> "On", PushPowerButton |-> "On", GracefulShutdown |-> "Off",
     GracefulRestart |-> "Reboot", ForceRestart |-> "ForceWarmReboot", Nmi |-> "DiagnosticMode"]

Unsupported == {"PowerCycle"}

Action(props, stored) ==
    [Form(props, <<Member("ResetType", "string", stored)>>, << >>) EXCEPT
        !.required = {"ResetType"}, !.rejected = Unsupported]

\* Forcing it off is asked of the chassis, the rest of the host.
SystemReset ==
    LET asked == DOMAIN HostTransitions \cup {"", "ForceOff"} \cup Unsupported
        to(t) == IF t = "ForceOff" THEN To("chassis0", "Off")
                 ELSE To("host0", IF t \in DOMAIN HostTransitions
                                  THEN HostTransitions[t] ELSE "On")
    IN Action([host0 |-> {HostTransitions[t] : t \in DOMAIN HostTransitions},
               chassis0 |-> {"On", "Off"}],
              [t \in asked |-> to(t)])

ManagerReset ==
    LET asked == {"", "GracefulRestart", "ForceRestart"} \cup Unsupported
    IN Action([bmc0 |-> {"None", "Reboot", "HardReboot"}],
              [t \in asked |-> To("bmc0", IF t = "ForceRestart" THEN "HardReboot" ELSE "Reboot")])

\* Calls without a body or an argument: the log is emptied, the BIOS reset.
ActionCall(prop, state, result) ==
    [Form([p \in {prop} |-> {state, result}],
          <<Member("call", "none", [v \in {""} |-> To(prop, result)])>>, << >>)
        EXCEPT !.required = {"call"}]

ClearLog == ActionCall("logging", "entries", "empty")
ClearManagerLog == ActionCall("logging", "entries", "empty")
ResetBios == ActionCall("firmware", "configured", "default")

\* Chassis/chassis: the identify LED.  The answer's IndicatorLED is read from
\* other LEDs.
IndicatorLED ==
    LET asserted(led) == IF led \in {"Blinking", "Lit"} THEN "true" ELSE "false"
    IN Form([front_id |-> OnOff],
            <<Member("IndicatorLED", "bool",
                    [led \in {"Blinking", "Lit", "Off"} |-> To("front_id", asserted(led))])>>,
            << >>)

-----------------------------------------------------------------------------
(* AccountService: the policy.  The lengths are set and not read back: the  *)
(* answer's MinPasswordLength is always 8.                                  *)

AccountPolicy ==
    LET props == {"MaxLoginAttemptBeforeLockout", "AccountUnlockTimeout",
                  "MinPasswordLength", "MaxPasswordLength"}
        number(item, prop) == Member(item, "number", SetTo(prop, {"given"}))
    IN [Form([p \in props |-> Texts],
             <<number("AccountLockoutThreshold", "MaxLoginAttemptBeforeLockout"),
               number("AccountLockoutDuration", "AccountUnlockTimeout"),
               number("MinPasswordLength", "MinPasswordLength"),
               number("MaxPasswordLength", "MaxPasswordLength")>>,
             <<{Shown("AccountLockoutThreshold", "MaxLoginAttemptBeforeLockout", Same(Texts), "5")},
               {Shown("AccountLockoutDuration", "AccountUnlockTimeout", Same(Texts), "30")}>>)
           EXCEPT !.changes = [p \in props |-> {"other"}]]

(* AccountService/Accounts/{account_id}, by one who may configure users; the *)
(* account itself may give its Password alone.  One call reads the answer:   *)
(* without it, root is answered as enabled Administrator, another not at all. *)

openbmc_priv_to_role ==
    [x \in {"priv-admin", "priv-operator", "priv-user", "priv-noaccess"} |->
        CASE x = "priv-admin" -> "Administrator"
          [] x = "priv-operator" -> "Operator"
          [] x = "priv-user" -> "ReadOnly"
          [] x = "priv-noaccess" -> "NoAccess"]

openbmc_group ==
    [Administrator |-> "priv-admin", Operator |-> "priv-operator",
     ReadOnly |-> "priv-user", NoAccess |-> "priv-noaccess", Unknown |-> "priv-user"]

\* A password, which no call sets.
Password == Member("Password", "string", SetTo("Password", {"given"}))

UserAccount ==
    [Form([UserPrivilege |-> DOMAIN openbmc_priv_to_role, UserEnabled |-> OnOff,
           UserPasswordExpiry |-> Texts, Password |-> Texts],
          <<Member("RoleId", "string",
                   [r \in DOMAIN openbmc_group |-> To("UserPrivilege", openbmc_group[r])]),
            Member("Enabled", "bool", SetTo("UserEnabled", OnOff)),
            Member("PasswordExpirationDays", "number", SetTo("UserPasswordExpiry", {"given"}))>>,
          <<{Shown("RoleId", "UserPrivilege", openbmc_priv_to_role, "Administrator"),
             Shown("Enabled", "UserEnabled", Same(OnOff), "true")}>>)
        EXCEPT !.ignored = {Password}, !.rejected = {"Unknown"},
               !.needed = TRUE, !.offline = 404,
               !.changes.UserPrivilege = {"priv-user"}, !.changes.UserEnabled = {"false"},
               !.changes.UserPasswordExpiry = {"other"}, !.changes.Password = {"other"}]

RootAccount == [UserAccount EXCEPT !.needed = FALSE, !.offline = 200]

-----------------------------------------------------------------------------
(* PUT of a property through the D-Bus REST API (api/dbus_rest.rs): one call, *)
(* answered 500 when it fails and 503 when there is no D-Bus.                 *)

PutValue(json) ==
    [Form([property |-> Texts], <<Member("value", json, SetTo("property", {"given"}))>>, << >>)
        EXCEPT !.required = {"value"}, !.offline = 503, !.refused = 500]

PutProperty == PutValue("string")
PutObject == PutValue("object")
=============================================================================
