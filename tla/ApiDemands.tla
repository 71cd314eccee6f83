------------------------------ MODULE ApiDemands ------------------------------
(***************************************************************************)
(* What the decorators of the controllers demand of the caller of each     *)
(* handler, and what the roles permit.  Handlers that demand the same are  *)
(* not told apart.  The workspace permissions of the matrix are left out:  *)
(* no handler asks for one.                                                *)
(***************************************************************************)
OrganizationPermission ==
    {"organization.settings.read", "organization.settings.write",
     "integrations.read", "integrations.write", "webhooks.read", "webhooks.write",
     "oauth_applications.read", "oauth_applications.write",
     "billing.read", "billing.write", "users.read", "users.write",
     "workspaces.read", "workspaces.write", "audit.read"}

VerifiedEmailRequired ==
    {"organization.settings.write", "integrations.write", "webhooks.write",
     "oauth_applications.write", "billing.write", "users.write", "workspaces.write"}

RoleName == {"organization_owner", "organization_admin", "workspace_manager",
             "workspace_operator", "workspace_reviewer", "auditor_readonly"}

AdminPermissions ==
    OrganizationPermission \ {"oauth_applications.read", "oauth_applications.write",
                              "billing.read", "billing.write"}

PermissionsOf(role) ==
    CASE role = "organization_owner" -> OrganizationPermission
      [] role = "organization_admin" -> AdminPermissions
      [] role = "auditor_readonly"   -> {"audit.read", "webhooks.read"}
      [] OTHER -> {}

----------------------------------------------------------------------------
(* Each demand names its guard, and what it asks the guard for: one of some *)
(* permissions, or the kind of row the call is about.                       *)

Signed == [guard |-> "bearer", one |-> {}, kind |-> "none"]
Owner == [guard |-> "owner", one |-> {}, kind |-> "none"]
Policy(permissions) == [guard |-> "policy", one |-> permissions, kind |-> "none"]
Member(kind) == [guard |-> "membership", one |-> {}, kind |-> kind]

AuthController == {Signed, Policy({"organization.settings.read", "billing.read"})}
ApplicationsController == {Signed, Owner}
CommunicationsController == {Policy({"organization.settings.write"})}
UsersController == {Policy({"users.read"}), Policy({"users.write"})}
WorkspacesController == {Policy({"workspaces.read"}), Policy({"workspaces.write"})}
IntegrationsController == {Policy({"integrations.read"}), Policy({"integrations.write"})}
WebhooksController == {Policy({"webhooks.read"}), Policy({"webhooks.write"})}
AuditEventsController == {Policy({"audit.read"})}
ClientsController == {Member("workspace"), Member("client")}
TemplatesController == {Member("workspace"), Member("template")}
RequestsController == {Member("workspace"), Member("request")}
SubmissionsController == {Member("submission")}
ReviewsController == {Member("submissionItem")}
FilesController == {Member("fileContext"), Member("fileId"), Member("storageKey")}
ExportsController == {Member("exportContext"), Member("exportJob")}

Demand ==
    UNION {AuthController, ApplicationsController, CommunicationsController, UsersController,
           WorkspacesController, IntegrationsController, WebhooksController,
           AuditEventsController, ClientsController, TemplatesController, RequestsController,
           SubmissionsController, ReviewsController, FilesController, ExportsController}
=============================================================================
