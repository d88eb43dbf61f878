-------------------------- MODULE ServiceResources --------------------------
(* The accounts below AccountService (api/redfish/accounts.rs) and the         *)
(* software below UpdateService (api/redfish/update_service.rs).               *)
EXTENDS Resource

Users == Below("User", <<"user">>, Names \cup {"root"})

\* ListUsers, or "root" when it fails or there is no D-Bus.
AccountsListed == [ByLeaf(Users) EXCEPT !.noBus = {"root"}, !.failed = {"root"}]

\* An account exists when GetUserInfo answers; "root" is answered anyway.
Accounts ==
    LET ids == Names \cup {"root"}
    IN Redfish(Users, ids, AccountsListed,
               [Ask(ids, "User", <<"user">>) EXCEPT
                   !.noBus = {"root"}, !.failed = {"root"}, !.missing = {"root"}])

\* The versions below software, at any depth.  When the call fails none is
\* listed, and none is found.
Software == Mixed("Version", <<"software">>, Names)
dbus_firmware_members == Of("Version", Software)

\* The firmware: the versions, and what is in memory, where no handler puts
\* anything.  A member is looked for in memory only.
FirmwareInventory ==
    Redfish(Software, Names,
            [ByLeaf(dbus_firmware_members) EXCEPT !.astray = dbus_firmware_members],
            Looked(Names, [id \in Names |-> << >>]))

SoftwareInventory ==
    Redfish(Software, Names, ByLeaf(dbus_firmware_members), Scan(Names, dbus_firmware_members))
=============================================================================
