---------------------------- MODULE Permissions ----------------------------
(* The roles and what each may do (backend/src/config/permissions.ts). *)

ManagePermissions == {"user:manage", "settings:manage"}
ViewPermissions ==
  {"content:view", "link:view", "analytics:view", "report:export", "notification:view"}
EditPermissions ==
  {"content:manage", "link:manage", "drive:browse", "notification:manage"}
AllPermissions ==
  ManagePermissions \cup ViewPermissions \cup EditPermissions
    \cup {"user:view", "audit:view", "settings:view"}

Roles == {"SUPER_ADMIN", "CONTENT_MANAGER", "READ_ONLY"}
RolePermissions ==
  [SUPER_ADMIN |-> AllPermissions,
   CONTENT_MANAGER |-> ViewPermissions \cup EditPermissions,
   READ_ONLY |-> ViewPermissions \cup {"audit:view"}]
============================================================================
