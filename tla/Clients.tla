------------------------------- MODULE Clients -------------------------------
(***************************************************************************)
(* The API clients of the frontend (src/frontend/src/api): what the list   *)
(* of a type can be asked for, which writes there are and which of them    *)
(* name the version that was read, and which errors a client tells apart.  *)
(* Every other error, and no answer at all, is a message to the user.      *)
(***************************************************************************)
EXTENDS Optimistic

(* Whether deleted rows are asked for, or only whether a filter narrows    *)
(* the list.                                                               *)
DeletedModes == {"exclude", "include", "only"}
PlainFilters == {"all", "narrow"}

(* The writes of a client. *)
Calls(plain, versioned) ==
    {Request(op, FALSE) : op \in plain} \union {Request(op, TRUE) : op \in versioned}
Among(calls, ops) == {c \in calls : c.op \in ops}

(* Networks: created without a version, everything else with one. *)
NetworksList == DeletedModes
NetworksCalls == Calls({"create"}, {"edit", "delete", "restore"})
NetworksErrors == {"conflict"}

(* IP pools. *)
IpPoolsList == DeletedModes
IpPoolsCalls == Calls({"create"}, {"edit", "delete", "restore"})
IpPoolsErrors == {"conflict"}

(* IP addresses: allocated by hand or by the server. *)
IpAddressesList == DeletedModes
IpAddressesCalls == Calls({"manual", "auto"}, {"edit", "release", "restore"})
IpAddressesErrors == {"conflict"}

(* Services. *)
ServicesList == DeletedModes
ServicesCalls == Calls({"create"}, {"edit", "delete", "restore"})
ServicesErrors == {"conflict"}

(* Interfaces. *)
InterfacesList == DeletedModes
InterfacesCalls == Calls({"create"}, {"edit", "delete", "restore"})
InterfacesErrors == {"conflict"}

(* Service endpoints. *)
ServiceEndpointsList == DeletedModes
ServiceEndpointsCalls == Calls({"create"}, {"edit", "delete", "restore"})
ServiceEndpointsErrors == {"conflict"}

(* Accounts: never deleted. *)
AccountsList == PlainFilters
AccountsCalls == Calls({"create"}, {"edit"})
AccountsErrors == {"conflict"}

(* API keys: revoked without a version; already_revoked is told apart. *)
ApiKeysList == PlainFilters
ApiKeysCalls == Calls({"create", "revoke"}, {})
ApiKeysErrors == {"refused"}

(* Resources. *)
ResourcesList == DeletedModes
ResourcesCalls == Calls({"create"}, {"edit", "delete", "restore"})
ResourcesErrors == {"conflict"}

(* Deleted objects of every type: restored by the client of the type. *)
DeletedObjectsList == {"only"}
DeletedObjectsCalls == Calls({}, {"restore"})
DeletedObjectsErrors == {"conflict"}
=============================================================================
