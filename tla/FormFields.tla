----------------------------- MODULE FormFields -----------------------------
(***************************************************************************)
(* The forms of the web frontend as data: for each the fields with the way *)
(* each is read from its text, the fields a create always carries, those a *)
(* patch may carry, and the inputs each mode renders.  Module Forms is the *)
(* control they share.  The ways a text is read:                           *)
(*   text       trimmed, checked, required                                  *)
(*   verbatim   not blank, sent as typed and trimmed by the server          *)
(*   secret     checked and required, never trimmed                         *)
(*   optional   empty is null, blank is refused, otherwise as text          *)
(*   number     an integer above zero, required                             *)
(*   positive   an integer above zero, or empty for null: unknown is not 0  *)
(*   count      an integer, 0 included, or empty for null                   *)
(*   free       empty is null, anything else is sent as typed               *)
(*   note       as free, but a create omits what is blank                   *)
(*   choice     one of the options, never empty                             *)
(*   reference  the id of another object, required                          *)
(*   link       the id of another object, or empty for null                 *)
(*   json       blank is the empty object, checked                          *)
(***************************************************************************)
(* preset: fields that do not start empty; locks: the inputs are disabled  *)
(* while the request is in flight.                                         *)
Form(read, creates, patches, createInputs, editInputs) ==
    [read |-> read, creates |-> creates, patches |-> patches,
     createInputs |-> createInputs, editInputs |-> editInputs, preset |-> {}, locks |-> TRUE]

------------------------------------------------------------------------------
(* Networks *)
NetworkRead ==
    [cluster |-> "reference", name |-> "text", cidr |-> "text", gateway |-> "optional",
     status |-> "choice", auto_allocate |-> "choice", description |-> "free", metadata |-> "json"]
NetworkCreates == {"cluster", "name", "cidr", "status", "auto_allocate"}
NetworkPatches ==
    {"cluster", "name", "cidr", "gateway", "status", "auto_allocate", "description", "metadata"}
NetworkInputs == DOMAIN NetworkRead
NetworkForm == Form(NetworkRead, NetworkCreates, NetworkPatches, NetworkInputs, NetworkInputs)

------------------------------------------------------------------------------
(* IP pools: the network is chosen once. *)
IpPoolRead ==
    [network |-> "reference", name |-> "text", start_address |-> "text", end_address |-> "text",
     allocation_mode |-> "choice", description |-> "free"]
IpPoolCreates == {"network", "name", "start_address", "end_address", "allocation_mode"}
IpPoolPatches == {"name", "start_address", "end_address", "allocation_mode", "description"}
IpPoolInputs == {"name", "start_address", "end_address", "allocation_mode", "description"}
IpPoolForm ==
    Form(IpPoolRead, IpPoolCreates, IpPoolPatches, IpPoolInputs \union {"network"}, IpPoolInputs)

------------------------------------------------------------------------------
(* IP addresses: one component with three modes. *)
AddressRead ==
    [network |-> "reference", address |-> "text", ip_pool |-> "reference", interface |-> "link",
     description |-> "free"]
Only(read, fields) == [f \in fields |-> read[f]]
ManualCreates == {"network", "address"}
ManualInputs == {"network", "address", "description"}
ManualForm == Form(Only(AddressRead, ManualInputs), ManualCreates, {}, ManualInputs, {})
AutoCreates == {"network", "ip_pool"}
AutoInputs == {"network", "ip_pool", "description"}
AutoForm == Form(Only(AddressRead, AutoInputs), AutoCreates, {}, AutoInputs, {})
AddressPatches == {"interface", "description"}
AddressInputs == {"interface", "description"}
AddressForm == Form(Only(AddressRead, AddressInputs), {}, AddressPatches, {}, AddressInputs)

------------------------------------------------------------------------------
(* Interfaces; the Resource is that of the panel. *)
InterfaceRead ==
    [name |-> "text", interface_type |-> "choice", mac_address |-> "optional",
     speed_mbps |-> "positive", mtu |-> "positive", parent_interface |-> "link",
     enabled |-> "choice", description |-> "free", metadata |-> "json"]
InterfaceCreates == {"name", "interface_type", "enabled"}
InterfacePatches ==
    {"name", "interface_type", "enabled", "mac_address", "speed_mbps", "mtu", "parent_interface",
     "description", "metadata"}
InterfaceInputs == DOMAIN InterfaceRead
InterfaceForm ==
    Form(InterfaceRead, InterfaceCreates, InterfacePatches, InterfaceInputs, InterfaceInputs)

------------------------------------------------------------------------------
(* Services: the Resource is chosen once. *)
ServiceRead ==
    [resource |-> "reference", name |-> "text", status |-> "choice", description |-> "free",
     metadata |-> "json"]
ServiceCreates == {"resource", "name", "status"}
ServicePatches == {"name", "status", "description", "metadata"}
ServiceInputs == {"name", "status", "description", "metadata"}
ServiceForm ==
    Form(ServiceRead, ServiceCreates, ServicePatches, ServiceInputs \union {"resource"}, ServiceInputs)

------------------------------------------------------------------------------
(* Service endpoints: service and address are chosen once; the service     *)
(* starts as that of the panel.                                            *)
EndpointRead ==
    [service |-> "reference", ipAddress |-> "reference", protocol |-> "choice", port |-> "number",
     description |-> "free"]
EndpointCreates == {"service", "ipAddress", "protocol", "port"}
EndpointPatches == {"protocol", "port", "description"}
EndpointInputs == {"protocol", "port", "description"}
EndpointForm ==
    [Form(EndpointRead, EndpointCreates, EndpointPatches,
          EndpointInputs \union {"service", "ipAddress"}, EndpointInputs)
       EXCEPT !.preset = {"service"}]

------------------------------------------------------------------------------
(* Clusters: the code is fixed once created. *)
ClusterRead ==
    [code |-> "verbatim", name |-> "verbatim", status |-> "choice", description |-> "note",
     metadata |-> "json"]
ClusterCreates == {"code", "name", "status"}
ClusterPatches == {"name", "status", "description", "metadata"}
ClusterInputs == {"name", "status", "description", "metadata"}
ClusterForm ==
    Form(ClusterRead, ClusterCreates, ClusterPatches, ClusterInputs \union {"code"}, ClusterInputs)

------------------------------------------------------------------------------
(* Resources: hardware fields for a bare metal one, machine fields for a   *)
(* virtual one; cluster and type are chosen once.                          *)
ResourceRead ==
    [cluster |-> "reference", hostname |-> "verbatim", resource_type |-> "choice",
     role |-> "choice", status |-> "choice", description |-> "note", metadata |-> "json"]
ResourceCreates == {"cluster", "hostname", "resource_type", "role", "status"}
ResourcePatches == {"hostname", "role", "status", "description", "metadata"}
ResourceInputs == {"hostname", "role", "status", "description", "metadata"}
HardwareRead ==
    [manufacturer |-> "optional", model |-> "optional", serial_number |-> "optional",
     cpu_model |-> "optional", cpu_sockets |-> "positive", cpu_cores |-> "positive",
     memory_mb |-> "positive", gpu_model |-> "optional", gpu_count |-> "count",
     hardware_metadata |-> "json"]
HardwareCreates == {}
HardwarePatches ==
    {"manufacturer", "model", "serial_number", "cpu_model", "gpu_model", "cpu_sockets",
     "cpu_cores", "memory_mb", "gpu_count", "hardware_metadata"}
MachineRead ==
    [host_resource_id |-> "reference", vcpu |-> "positive", memory_mb |-> "positive",
     disk_gb |-> "count", hypervisor |-> "optional"]
MachineCreates == {"host_resource_id"}
MachinePatches == {"host_resource_id", "vcpu", "memory_mb", "disk_gb", "hypervisor"}
WithResource(read) ==
    [f \in DOMAIN ResourceRead \union DOMAIN read |->
        IF f \in DOMAIN ResourceRead THEN ResourceRead[f] ELSE read[f]]
ResourceForm(read, creates, patches) ==
    Form(WithResource(read), ResourceCreates \union creates, ResourcePatches \union patches,
         DOMAIN ResourceRead \union DOMAIN read, ResourceInputs \union DOMAIN read)
BareMetalForm == ResourceForm(HardwareRead, HardwareCreates, HardwarePatches)
VirtualMachineForm == ResourceForm(MachineRead, MachineCreates, MachinePatches)

------------------------------------------------------------------------------
(* Accounts, whose inputs stay enabled during the request, and API keys. *)
AccountRead ==
    [username |-> "text", password |-> "secret", role |-> "choice", status |-> "choice"]
AccountInputs == {"username", "password", "role"}
AccountPatches == {"role", "status"}
AccountForm ==
    [Form(AccountRead, AccountInputs, AccountPatches, AccountInputs, {"role", "status"})
       EXCEPT !.locks = FALSE]
ApiKeyRead == [user_id |-> "reference", label |-> "text", validity_days |-> "number"]
ApiKeyCreates == {"user_id", "label", "validity_days"}
ApiKeyForm ==
    [Form(ApiKeyRead, ApiKeyCreates, {}, DOMAIN ApiKeyRead, {}) EXCEPT !.preset = {"validity_days"}]

(* The fields whose values the server writes in a form of its own. *)
Normalised == {"cidr", "hostname", "username"}

Sheet ==
    [network |-> NetworkForm, ip_pool |-> IpPoolForm, manual |-> ManualForm, auto |-> AutoForm,
     address |-> AddressForm, interface |-> InterfaceForm, service |-> ServiceForm,
     endpoint |-> EndpointForm, cluster |-> ClusterForm, bare_metal |-> BareMetalForm,
     virtual_machine |-> VirtualMachineForm, account |-> AccountForm, api_key |-> ApiKeyForm]
=============================================================================
