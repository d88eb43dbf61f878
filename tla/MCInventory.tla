---------------------------- MODULE MCInventory ----------------------------
EXTENDS ManagerResources, Inventory

EventLogOnly == [DBusEventLog |-> DBusEventLog]
=============================================================================
