----------------------------- MODULE SystemPages -----------------------------
(***************************************************************************)
(* The pages of system administration: users, departments, roles, tenants, *)
(* dictionaries, parameters, templates, permissions and the audit log.     *)
(* One definition per component, or per part of a page.  Rows that only    *)
(* the platform may write offer their buttons to nobody else: such rows    *)
(* are left out.                                                           *)
(***************************************************************************)
EXTENDS AssetPages

---------------------------------------------------------------------------
\* pages/system/users

InvalidateUsers == {userKeys.all}

\* Editing sends the columns, and the roles in a second request.
UserForm == [create |-> Loose(UserOps.create, InvalidateUsers), edit |-> Loose(UserOps.update, InvalidateUsers)]
AssignRolesModal == Loose(UserOps.assign, InvalidateUsers)
\* These two stay open to show what the server answered.
ResetPasswordModal == Form(UserOps.reset, {}, "stays")
ImportModal == Form(UserOps.import, InvalidateUsers, "stays")
RemoveUser == Held(UserOps.delete, InvalidateUsers)

UserTable == Shows({userKeys.list} \cup useDeptTree \cup useRoleOptions)
UserActions ==
    Part({}, {Always(UserForm.create, "system:user:create"), Always(UserForm.edit, "system:user:update"),
              Always(AssignRolesModal, "system:user:assign-roles"), Always(ResetPasswordModal, "system:user:reset-password"),
              Always(ImportModal, "system:user:import"), Button(RemoveUser, "system:user:delete", {"other"})})

UserScreen == Screen({UserTable, UserActions})

---------------------------------------------------------------------------
\* pages/system/depts

InvalidateDepts == {deptKeys.all}

DeptForm == [create |-> Loose(DeptOps.create, InvalidateDepts), edit |-> Direct(DeptOps.update, InvalidateDepts)]
DeptFormChoices == Shows({userKeys.leaders})
RemoveDept == Held(DeptOps.delete, InvalidateDepts)

DeptTreePane == Part(useDeptTree, {Always(RemoveDept, "system:dept:delete")})
DeptPanel == Part({}, {Always(DeptForm.create, "system:dept:create"), Always(DeptForm.edit, "system:dept:update")})

DeptScreen == Screen({DeptTreePane, DeptPanel, DeptFormChoices})

---------------------------------------------------------------------------
\* pages/system/roles, pages/system/permissions

usePermissionTree == {roleKeys.permissionTree}

\* Users show the names of their roles.
InvalidateRoles == {roleKeys.all, userKeys.all}

RoleForm == [create |-> Loose(RoleOps.create, InvalidateRoles), edit |-> Loose(RoleOps.update, InvalidateRoles)]
PermissionsModal == Loose(RoleOps.grant, InvalidateRoles)
RemoveRole == Held(RoleOps.delete, InvalidateRoles)

RoleTable == Shows({roleKeys.list} \cup usePermissionTree)
\* The dialog says that the server will refuse to delete a built-in role.
RoleActions ==
    Part({}, {Always(RoleForm.create, "system:role:create"), Always(RoleForm.edit, "system:role:update"),
              Always(PermissionsModal, "system:role:assign-perms"),
              Warning(RemoveRole, "system:role:delete", {"builtin", "custom"}, {"builtin"})})
PermissionsPage == Shows(usePermissionTree)

RoleScreen == Screen({RoleTable, RoleActions, PermissionsPage})

---------------------------------------------------------------------------
\* pages/system/tenants

InvalidateTenants == {tenantKeys.all}

TenantCreateForm == Loose(TenantOps.create, InvalidateTenants)
TenantEditForm == Loose(TenantOps.update, InvalidateTenants)
ToggleTenant == [disable |-> Held(TenantOps.disable, InvalidateTenants), enable |-> Held(TenantOps.enable, InvalidateTenants)]
TenantSwitcher == {tenantKeys.options}

TenantTable == Shows({tenantKeys.list} \cup TenantSwitcher)
TenantActions ==
    Part({}, {Always(TenantCreateForm, "system:tenant:create"), Always(TenantEditForm, "system:tenant:update"),
              Button(ToggleTenant.disable, "system:tenant:delete", {"active"}),
              Button(ToggleTenant.enable, "system:tenant:update", {"disabled"})})

TenantScreen == Screen({TenantTable, TenantActions})

---------------------------------------------------------------------------
\* pages/system/dicts

InvalidateDicts == {dictKeys.all}

DictTypeForm == [create |-> Loose(DictOps.create, InvalidateDicts), edit |-> Loose(DictOps.update, InvalidateDicts)]
DictItemForm == Loose(DictOps.saveItem, InvalidateDicts)
RemoveDictType == Held(DictOps.delete, InvalidateDicts)
RemoveDictItem == Held(DictOps.deleteItem, InvalidateDicts)

DictQueries == Shows({dictKeys.list, dictKeys.detail})
\* The dialog says that the server will refuse to delete a system dictionary.
DictTypeActions ==
    Part({}, {Always(DictTypeForm.create, "system:dict:create"), Always(DictTypeForm.edit, "system:dict:update"),
              Warning(RemoveDictType, "system:dict:delete", {"system", "own"}, {"system"})})
DictItemActions ==
    Part({}, {Always(DictItemForm, "system:dict:update"), Always(RemoveDictItem, "system:dict:update")})

DictScreen == Screen({DictQueries, DictTypeActions, DictItemActions})

---------------------------------------------------------------------------
\* pages/system/params, pages/system/templates, pages/system/audit-logs

InvalidateParams == {paramKeys.all}
ParamForm == Loose(ParamOps.set, InvalidateParams)
ResetParam == Held(ParamOps.reset, InvalidateParams)
ParamsPage ==
    Part({paramKeys.list}, {Always(ParamForm, "system:param:update"), Button(ResetParam, "system:param:update", {"tenant"})})
ParamScreen == Screen({ParamsPage})

InvalidateTemplates == {templateKeys.all}
TemplateForm == [create |-> Loose(TemplateOps.create, InvalidateTemplates), edit |-> Loose(TemplateOps.update, InvalidateTemplates)]
ToggleTemplate == Direct(TemplateOps.toggle, InvalidateTemplates)
RemoveTemplate == Held(TemplateOps.delete, InvalidateTemplates)
TemplateTable == Part({templateKeys.list}, {Always(ToggleTemplate, "system:template:update")})
TemplateActions ==
    Part({}, {Always(TemplateForm.create, "system:template:create"), Always(TemplateForm.edit, "system:template:update"),
              Always(RemoveTemplate, "system:template:delete")})
TemplateScreen == Screen({TemplateTable, TemplateActions})

AuditLogsPage == Shows({auditLogKeys.list})
AuditLogDetail == Shows({auditLogKeys.detail})
AuditLogScreen == Screen({AuditLogsPage, AuditLogDetail})

SystemScreens ==
    {UserScreen, DeptScreen, RoleScreen, TenantScreen, DictScreen, ParamScreen, TemplateScreen, AuditLogScreen}

Screens == FleetScreens \cup MoneyScreens \cup AssetScreens \cup SystemScreens
=============================================================================
