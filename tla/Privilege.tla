------------------------------ MODULE Privilege ------------------------------
(***************************************************************************)
(* Role-based access control of the Redfish handlers (auth/privilege.rs):  *)
(* the privileges a role grants and the check every mutating handler makes *)
(* on the session the middleware attached to the request.                  *)
(***************************************************************************)

Privileges == {"Login", "ConfigureManager", "ConfigureUsers",
               "ConfigureSelf", "ConfigureComponents"}

Roles == {"Administrator", "Operator", "ReadOnly", "NoAccess"}

\* The privileges a role carries; an unknown role carries none.
privileges_for_role(role) ==
    CASE role = "Administrator" -> Privileges
      [] role = "Operator" -> {"Login", "ConfigureSelf", "ConfigureComponents"}
      [] role = "ReadOnly" -> {"Login", "ConfigureSelf"}
      [] OTHER -> {}

\* check_privilege with a session present: an empty requirement is always
\* met, otherwise one of the required privileges is enough.
check_privilege(role, required) ==
    required # {} => privileges_for_role(role) \cap required # {}

PRIVILEGE_PATCH == {"ConfigureManager"}
PRIVILEGE_ACTION == {"ConfigureComponents"}
PRIVILEGE_DELETE_SESSION == {"ConfigureSelf"}

\* Mutant: who may change an account of one's own may change any.
PRIVILEGE_CONFIGURE_USERS_OR_SELF == {"ConfigureUsers", "ConfigureSelf"}

PRIVILEGE_CONFIGURE_USERS == {"ConfigureUsers"}
=============================================================================
