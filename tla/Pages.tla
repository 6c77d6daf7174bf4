-------------------------------- MODULE Pages --------------------------------
(***************************************************************************)
(* What each list page of the frontend offers: the buttons of its toolbar  *)
(* and of its rows, the permission each is shown by, the queries it sends, *)
(* the requests of its forms and dialogs, and the errors after which its   *)
(* dialog offers a reload.  Module ListPage is the control they share.     *)
(***************************************************************************)
EXTENDS Clients

(* softDeletes: a row that is not live is deleted; an account that is not  *)
(* live is only disabled, an API key only revoked.                         *)

------------------------------------------------------------------------------
(* Networks *)
NetworksToolbar == {Button("create", "WRITE", "none"), Button("deleted", "VIEW_DELETED", "none")}
NetworksFilters == NetworksList
NetworksRows ==
    {Button("edit", "WRITE", "live"), Button("delete", "DELETE_OBJECT", "live"),
     Button("restore", "RESTORE", "deleted")}
NetworksForms == Among(NetworksCalls, {"create", "edit"})
NetworksActions == Among(NetworksCalls, {"delete", "restore"})
NetworksDialog == {"conflict"}
Networks ==
    [toolbar |-> NetworksToolbar, filters |-> NetworksFilters, initial |-> {"exclude"},
     paged |-> TRUE, softDeletes |-> TRUE, rows |-> NetworksRows, forms |-> NetworksForms,
     actions |-> NetworksActions, reloadsOn |-> NetworksDialog,
     told |-> NetworksErrors]

------------------------------------------------------------------------------
(* IP pools *)
IpPoolsToolbar == {Button("create", "WRITE", "none"), Button("deleted", "VIEW_DELETED", "none")}
IpPoolsFilters == IpPoolsList
IpPoolsRows ==
    {Button("edit", "WRITE", "live"), Button("delete", "DELETE_OBJECT", "live"),
     Button("restore", "RESTORE", "deleted")}
IpPoolsForms == Among(IpPoolsCalls, {"create", "edit"})
IpPoolsActions == Among(IpPoolsCalls, {"delete", "restore"})
IpPoolsDialog == {"conflict"}
IpPools ==
    [toolbar |-> IpPoolsToolbar, filters |-> IpPoolsFilters, initial |-> {"exclude"},
     paged |-> TRUE, softDeletes |-> TRUE, rows |-> IpPoolsRows, forms |-> IpPoolsForms,
     actions |-> IpPoolsActions, reloadsOn |-> IpPoolsDialog,
     told |-> IpPoolsErrors]

------------------------------------------------------------------------------
(* IP addresses: allocated by hand or by the server, released, restored.   *)
IpAddressesToolbar ==
    {Button("manual", "WRITE", "none"), Button("auto", "WRITE", "none"),
     Button("deleted", "VIEW_DELETED", "none")}
IpAddressesFilters == IpAddressesList
IpAddressesRows ==
    {Button("activity", "READ", "any"), Button("edit", "WRITE", "live"),
     Button("release", "RELEASE_IP", "live"), Button("restore", "RESTORE", "deleted")}
IpAddressesForms == Among(IpAddressesCalls, {"manual", "auto", "edit"})
IpAddressesActions == Among(IpAddressesCalls, {"release", "restore"})
IpAddressesDialog == {"conflict"}
IpAddresses ==
    [toolbar |-> IpAddressesToolbar, filters |-> IpAddressesFilters, initial |-> {"exclude"},
     paged |-> TRUE, softDeletes |-> TRUE, rows |-> IpAddressesRows, forms |-> IpAddressesForms,
     actions |-> IpAddressesActions, reloadsOn |-> IpAddressesDialog,
     told |-> IpAddressesErrors]

------------------------------------------------------------------------------
(* Services; the endpoints of a row replace the page, see ServiceEndpoints. *)
ServicesToolbar == {Button("create", "WRITE", "none"), Button("deleted", "VIEW_DELETED", "none")}
ServicesFilters == ServicesList
ServicesRows ==
    {Button("activity", "READ", "any"), Button("edit", "WRITE", "live"),
     Button("delete", "DELETE_OBJECT", "live"), Button("restore", "RESTORE", "deleted")}
ServicesForms == Among(ServicesCalls, {"create", "edit"})
ServicesActions == Among(ServicesCalls, {"delete", "restore"})
ServicesDialog == {"conflict"}
Services ==
    [toolbar |-> ServicesToolbar, filters |-> ServicesFilters, initial |-> {"exclude"},
     paged |-> TRUE, softDeletes |-> TRUE, rows |-> ServicesRows, forms |-> ServicesForms,
     actions |-> ServicesActions, reloadsOn |-> ServicesDialog,
     told |-> ServicesErrors]

------------------------------------------------------------------------------
(* The interfaces of one Resource: one page of at most 100, whose parent   *)
(* is not deleted (a deleted parent hides create and restore).             *)
InterfacesToolbar == {Button("create", "WRITE", "none"), Button("deleted", "VIEW_DELETED", "none")}
InterfacesFilters == InterfacesList \ {"only"}
InterfacesRows ==
    {Button("edit", "WRITE", "live"), Button("delete", "DELETE_OBJECT", "live"),
     Button("restore", "RESTORE", "deleted")}
InterfacesForms == Among(InterfacesCalls, {"create", "edit"})
InterfacesActions == Among(InterfacesCalls, {"delete", "restore"})
InterfacesDialog == {"conflict"}
Interfaces ==
    [toolbar |-> InterfacesToolbar, filters |-> InterfacesFilters, initial |-> {"exclude"},
     paged |-> FALSE, softDeletes |-> TRUE, rows |-> InterfacesRows, forms |-> InterfacesForms,
     actions |-> InterfacesActions, reloadsOn |-> InterfacesDialog,
     told |-> InterfacesErrors]

------------------------------------------------------------------------------
(* The endpoints of one Service. *)
ServiceEndpointsToolbar ==
    {Button("create", "WRITE", "none"), Button("deleted", "VIEW_DELETED", "none")}
ServiceEndpointsFilters == ServiceEndpointsList \ {"only"}
ServiceEndpointsRows ==
    {Button("activity", "READ", "any"), Button("edit", "WRITE", "live"),
     Button("delete", "DELETE_OBJECT", "live"), Button("restore", "RESTORE", "deleted")}
ServiceEndpointsForms == Among(ServiceEndpointsCalls, {"create", "edit"})
ServiceEndpointsActions == Among(ServiceEndpointsCalls, {"delete", "restore"})
ServiceEndpointsDialog == {"conflict"}
ServiceEndpoints ==
    [toolbar |-> ServiceEndpointsToolbar, filters |-> ServiceEndpointsFilters,
     initial |-> {"exclude"},
     paged |-> FALSE, softDeletes |-> TRUE, rows |-> ServiceEndpointsRows, forms |-> ServiceEndpointsForms,
     actions |-> ServiceEndpointsActions, reloadsOn |-> ServiceEndpointsDialog,
     told |-> ServiceEndpointsErrors]

------------------------------------------------------------------------------
(* Accounts: created and edited, never deleted; shown to USER_ADMIN only.  *)
AccountsToolbar == {Button("create", "USER_ADMIN", "none")}
AccountsFilters == AccountsList
AccountsRows == {Button("edit", "USER_ADMIN", "any")}
AccountsForms == Among(AccountsCalls, {"create", "edit"})
Accounts ==
    [toolbar |-> AccountsToolbar, filters |-> AccountsFilters, initial |-> {"all"},
     paged |-> TRUE, softDeletes |-> FALSE, rows |-> AccountsRows, forms |-> AccountsForms,
     actions |-> {}, reloadsOn |-> {},
     told |-> AccountsErrors]

------------------------------------------------------------------------------
(* API keys: created and revoked, neither with a version; revoking a       *)
(* revoked key is refused, and the refusal offers the reload.              *)
ApiKeysToolbar == {Button("create", "USER_ADMIN", "none")}
ApiKeysFilters == ApiKeysList
ApiKeysRows == {Button("revoke", "USER_ADMIN", "live")}
ApiKeysForms == Among(ApiKeysCalls, {"create"})
ApiKeysActions == Among(ApiKeysCalls, {"revoke"})
ApiKeysDialog == {"refused"}
ApiKeys ==
    [toolbar |-> ApiKeysToolbar, filters |-> ApiKeysFilters, initial |-> {"all"},
     paged |-> TRUE, softDeletes |-> FALSE, rows |-> ApiKeysRows, forms |-> ApiKeysForms,
     actions |-> ApiKeysActions, reloadsOn |-> ApiKeysDialog,
     told |-> ApiKeysErrors]

------------------------------------------------------------------------------
(* Resources: rows can be deleted in place; creation and editing are pages *)
(* of their own.                                                           *)
ResourcesToolbar == {Button("deleted", "VIEW_DELETED", "none")}
ResourcesFilters == ResourcesList
ResourcesRows == {Button("delete", "DELETE_OBJECT", "live")}
ResourcesActions == Among(ResourcesCalls, {"delete"})
ResourcesDialog == {"conflict"}
Resources ==
    [toolbar |-> ResourcesToolbar, filters |-> ResourcesFilters, initial |-> {"exclude"},
     paged |-> TRUE, softDeletes |-> TRUE, rows |-> ResourcesRows, forms |-> {},
     actions |-> ResourcesActions, reloadsOn |-> ResourcesDialog,
     told |-> ResourcesErrors]

------------------------------------------------------------------------------
(* The deleted objects of every type: restored in place.                   *)
DeletedObjectsFilters == DeletedObjectsList
DeletedObjectsRows == {Button("restore", "RESTORE", "deleted")}
DeletedObjectsActions == Among(DeletedObjectsCalls, {"restore"})
DeletedObjectsDialog == {"conflict"}
DeletedObjects ==
    [toolbar |-> {}, filters |-> DeletedObjectsFilters, initial |-> {"only"},
     paged |-> TRUE, softDeletes |-> TRUE, rows |-> DeletedObjectsRows, forms |-> {},
     actions |-> DeletedObjectsActions, reloadsOn |-> DeletedObjectsDialog,
     told |-> DeletedObjectsErrors]

------------------------------------------------------------------------------
(* Pages that only read: clusters, audit records, the dashboard's networks, *)
(* the services of a Resource, the guests of a host.                        *)
ReadOnly(filters, initial, paged, toolbar) ==
    [toolbar |-> toolbar, filters |-> filters, initial |-> initial, paged |-> paged,
     softDeletes |-> TRUE, rows |-> {}, forms |-> {}, actions |-> {}, reloadsOn |-> {},
     told |-> {}]
ClustersToolbar == {Button("deleted", "VIEW_DELETED", "none")}
Clusters == ReadOnly(DeletedModes, {"exclude"}, TRUE, ClustersToolbar)
Audit == ReadOnly(PlainFilters, {"all"}, TRUE, {})
Dashboard == ReadOnly({"exclude"}, {"exclude"}, TRUE, {})
ResourceServices ==
    ReadOnly(ServicesList \ {"only"}, {"exclude"}, FALSE, {Button("deleted", "VIEW_DELETED", "none")})
HostVirtualMachines == ReadOnly({"exclude"}, {"exclude"}, FALSE, {})

(* The sections HomePage, SystemPage and the detail pages mount. *)
Page ==
    [networks |-> Networks, ip_pools |-> IpPools, ip_addresses |-> IpAddresses,
     services |-> Services, interfaces |-> Interfaces, endpoints |-> ServiceEndpoints,
     accounts |-> Accounts, api_keys |-> ApiKeys, resources |-> Resources,
     deleted |-> DeletedObjects, clusters |-> Clusters, audit |-> Audit,
     dashboard |-> Dashboard, resource_services |-> ResourceServices,
     virtual_machines |-> HostVirtualMachines]
=============================================================================
