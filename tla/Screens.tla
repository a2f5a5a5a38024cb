------------------------------- MODULE Screens -------------------------------
(***************************************************************************)
(* The screens of the web client as far as they touch the query cache:      *)
(* which queries a page shows, what each dialog does to the cache when its  *)
(* form is submitted and when the answer comes, and what the realtime hooks *)
(* do with an event.  QueryCache gives these tables their behaviour.        *)
(***************************************************************************)
EXTENDS ApiClient, FiniteSets, SequencesExt, Functions

(* Queries under keys written by hand: every element of the key is a text.  *)
ByHand(key, query) == [key |-> [i \in DOMAIN key |-> <<key[i]>>],
                       shape |-> query.shape, about |-> query.about]
useNotifications == ByHand(<<"notifications">>, listNotificationsApiV1NotificationsGet)
(* The hook takes the number out of the answer.                             *)
useUnreadNotificationCount ==
    [ByHand(<<"notifications", "unread-count">>,
            getUnreadCountApiV1NotificationsUnreadCountGet) EXCEPT !.shape = "number"]
useOrganizationBilling ==
    ByHand(<<"organizations", "organizationId", "billing">>,
           getOrganizationBillingApiV1OrganizationsOrganizationIdBillingGet)
usePlatformSettings ==
    ByHand(<<"admin", "platform-settings">>, getPlatformSettingsApiV1AdminPlatformSettingsGet)

(* A generated query is kept under <<URL, parameters>>.                     *)
ByUrl(query) == [key |-> << <<"/api/v1">> \o query.url >>, shape |-> query.shape, about |-> query.about]

(* The answers the client keeps.  Three screens list issues or media with   *)
(* parameters of their own, and each of these is a query of its own.        *)
Cached == [
    user          |-> ByUrl(getCurrentUser),
    profile       |-> ByUrl(getMyProfile),
    sessions      |-> ByUrl(listUserSessions),
    notifications |-> useNotifications,
    unread        |-> useUnreadNotificationCount,
    myInvitations |-> ByUrl(listMyInvitations),
    invitation    |-> ByUrl(getInvitationDetails),
    organizations |-> ByUrl(listOrganizations),
    organization  |-> ByUrl(getOrganizationBySlug),
    billing       |-> useOrganizationBilling,
    members       |-> ByUrl(listOrganizationMembers),
    invitations   |-> ByUrl(listOrganizationInvitations),
    projects      |-> ByUrl(listProjects),
    project       |-> ByUrl(getProject),
    crew          |-> ByUrl(listProjectMembers),
    folders       |-> ByUrl(listFolders),
    tree          |-> ByUrl(getFolderTree),
    breadcrumbs   |-> ByUrl(getFolderBreadcrumbs),
    folderMedia   |-> ByUrl(listMedia),
    allMedia      |-> ByUrl(listMedia),
    media         |-> ByUrl(getMedia),
    versions      |-> ByUrl(getMediaVersions),
    links         |-> ByUrl(listShareLinks),
    comments      |-> ByUrl(listMediaComments),
    decisions     |-> ByUrl(listMediaDecisions),
    openIssues    |-> ByUrl(listProjectIssues),
    issues        |-> ByUrl(listProjectIssues),
    issuesSummary |-> ByUrl(getProjectIssuesSummary),
    share         |-> ByUrl(getPublicShareDetails),
    shareStream   |-> ByUrl(getPublicShareStream),
    shareComments |-> ByUrl(listPublicShareComments),
    overview      |-> ByUrl(getOverviewApiV1AdminOverviewGet),
    adminUsers    |-> ByUrl(listUsersApiV1AdminUsersGet),
    adminOrgs     |-> ByUrl(listOrganizationsApiV1AdminOrganizationsGet),
    auditLogs     |-> ByUrl(listAuditLogsApiV1AdminAuditLogsGet),
    settings      |-> usePlatformSettings ]

QueryNames == DOMAIN Cached

(* Query filters.  Nearly all screens look for an element of the key that   *)
(* includes all of a few texts: an identifier and the name of a collection. *)
Including(texts) == {q \in QueryNames :
    \E i \in DOMAIN Cached[q].key : texts \subseteq Range(Cached[q].key[i])}
IncludingAny(texts) == {q \in QueryNames :
    \E i \in DOMAIN Cached[q].key : texts \cap Range(Cached[q].key[i]) # {}}
WithUrl(query)  == {q \in QueryNames : Cached[q].key = ByUrl(query).key}
WithPrefix(key) == {q \in QueryNames : IsPrefix([i \in DOMAIN key |-> <<key[i]>>], Cached[q].key)}
Lists(queries)  == {q \in queries : Cached[q].shape = "items"}

ProjectMedia   == Including({"projectId", "media"})
OneMedia       == Including({"media", "mediaId"})
ProjectFolders == Including({"projectId", "folders"})
FolderTree     == Including({"projectId", "tree"})
OrgMembers     == Including({"organizationId", "members"})
OrgInvitations == Including({"organizationId", "invitations"})
Notifications  == WithPrefix(<<"notifications">>)

-----------------------------------------------------------------------------
(* What a form does.                                                        *)
(*   writes    the server data the call changes                             *)
(*   matches   the queries it snapshots and sets before the call            *)
(*   patches   those of them that then show the change                      *)
(*   spreads   queries whose answer becomes {...answer, field}              *)
(*   throws    queries on whose answer the updater fails, if it is not empty *)
(*   records   those it sets to the record it was opened with, changed,     *)
(*             whatever they are by then                                    *)
(*   undo      what an error does: "snapshot" sets all matches back,        *)
(*             "row" takes the change back (but sets a record back), "none" *)
(*   merges    queries that get the answer of the call                      *)
(*   returns   those of them that become that answer, a whole record        *)
(*   refreshes queries invalidated by success                               *)
(*   cancels   whether fetches of the matches are cancelled first           *)
(*   lives     who hears of the answer: "form", gone with the dialog it     *)
(*             closes, "screen", gone with the page, or "client", always    *)
(*   guarded   the button is disabled while the call is pending             *)
(*   event     what the server publishes in the room of the project         *)

Form(request, event) == [writes |-> request.writes, event |-> event,
    matches |-> {}, patches |-> {}, spreads |-> {}, throws |-> {}, records |-> {}, undo |-> "none",
    merges |-> {}, returns |-> {}, refreshes |-> {}, cancels |-> FALSE,
    lives |-> "screen", guarded |-> TRUE]

(* The common pattern: patch the lists among the matches, and set every     *)
(* match back when the call fails.                                          *)
Optimistic(request, event, matches) ==
    [Form(request, event) EXCEPT !.matches = matches, !.patches = Lists(matches), !.undo = "snapshot"]

(* A form that makes several requests in a row.                             *)
Calls(requests) == [writes |-> UNION {request.writes : request \in requests}]

-----------------------------------------------------------------------------
(* Media assets.                                                            *)

delete_media_dialog == Optimistic(deleteMedia, "media.deleted", ProjectMedia)
move_media_dialog == [Optimistic(moveMedia, "media.moved", ProjectMedia \cup OneMedia)
    EXCEPT !.patches = {"allMedia", "media"}, !.spreads = OneMedia]
edit_media_dialog == [Optimistic(updateMedia, "media.updated", ProjectMedia \cup OneMedia)
    EXCEPT !.patches = Lists(ProjectMedia) \cup {"media"}, !.spreads = OneMedia,
           !.lives = "form"]
stack_confirm_dialog == Optimistic(stackMedia, "none", ProjectMedia)
handleSetPrimary == [Optimistic(setPrimaryVersion, "none", ProjectMedia)
    EXCEPT !.patches = {"versions"}, !.guarded = FALSE]
handleUnstack == [Optimistic(unstackMedia, "none", ProjectMedia)
    EXCEPT !.patches = {"versions"}, !.guarded = FALSE]
handleSaveLabel == [Optimistic(updateVersionLabel, "none", WithUrl(getMediaVersions))
    EXCEPT !.patches = {"versions"}, !.guarded = FALSE]
createLink == [Form(createShareLink, "none")
    EXCEPT !.merges = WithUrl(listShareLinks), !.lives = "client"]
revokeLink == [Optimistic(revokeShareLink, "none", WithUrl(listShareLinks))
    EXCEPT !.patches = {"links"}, !.guarded = FALSE]
retryTranscode == [Form(retryMediaTranscode, "none")
    EXCEPT !.refreshes = WithUrl(listMedia), !.lives = "client", !.guarded = FALSE]
upload_media_dialog == [Form(Calls({presignMediaUpload, completeMediaUpload}), "media.created")
    EXCEPT !.refreshes = IncludingAny({"projectId", "media"}), !.lives = "client"]
resumeUpload == [Form(Calls({initiateMultipartUpload, presignMultipartParts,
                             completeMultipartUpload}), "media.created")
    EXCEPT !.refreshes = WithPrefix(<<"/api/v1/organizations", "organizationId",
                                      "projects", "projectId", "media">>),
           !.lives = "client"]
abortUpload == Form(abortMultipartUpload, "none")
upload_version_dialog == [Form(Calls({presignMediaUpload, completeMediaUpload, stackMedia}), "none")
    EXCEPT !.refreshes = IncludingAny({"projectId", "media", "versions"}), !.lives = "client"]

-----------------------------------------------------------------------------
(* Folders and projects.                                                    *)

create_folder_dialog == [Optimistic(createFolder, "folder.created", ProjectFolders)
    EXCEPT !.patches = {"folders", "tree"}, !.merges = {"folders", "tree"}]
rename_folder_dialog == [Optimistic(renameFolder, "folder.updated", ProjectFolders)
    EXCEPT !.patches = {"folders", "tree"}, !.merges = {"folders", "tree"}, !.lives = "form"]
move_folder_dialog == [Optimistic(moveFolder, "folder.moved", ProjectFolders)
    EXCEPT !.patches = {"tree"}, !.lives = "form"]
delete_folder_dialog == [Optimistic(deleteFolder, "folder.deleted", ProjectFolders)
    EXCEPT !.patches = {"folders", "tree"}]
create_project_dialog == [Form(createProject, "none")
    EXCEPT !.merges = WithUrl(listProjects), !.lives = "client"]
edit_project_dialog == [Optimistic(updateProject, "project.updated",
                                   WithUrl(listProjects) \cup WithUrl(getProject))
    EXCEPT !.patches = {"projects", "project"}, !.records = WithUrl(getProject), !.undo = "row",
           !.merges = {"projects", "project"}, !.returns = {"project"}, !.lives = "client"]
delete_project_dialog == Optimistic(deleteProject, "project.deleted", WithUrl(listProjects))
addMember == [Optimistic(addProjectMember, "project.members_updated", WithUrl(listProjectMembers))
    EXCEPT !.merges = {"crew"}]
changeMemberRole ==
    Optimistic(updateProjectMemberRole, "project.members_updated", WithUrl(listProjectMembers))
removeCrewMember ==
    Optimistic(removeProjectMember, "project.members_updated", WithUrl(listProjectMembers))

-----------------------------------------------------------------------------
(* Review.                                                                  *)

handleCreateComment == [Form(createComment, "comment.created")
    EXCEPT !.merges = WithUrl(listMediaComments), !.lives = "client"]
handleResolveToggle == [Optimistic(updateComment, "comment.updated", WithUrl(listMediaComments))
    EXCEPT !.patches = {"comments"}, !.merges = {"comments"}, !.lives = "client",
           !.guarded = FALSE]
handleDeleteComment == [Optimistic(deleteComment, "comment.deleted", WithUrl(listMediaComments))
    EXCEPT !.patches = {"comments"}, !.lives = "client", !.guarded = FALSE]
handleConfirmDecision == [Optimistic(createMediaDecision, "decision.updated", WithUrl(listMedia))
    EXCEPT !.undo = "row", !.lives = "client"]
resolveAll == [Optimistic(updateComment, "comment.updated", WithUrl(listMediaComments))
    EXCEPT !.patches = {"comments"}, !.undo = "none", !.lives = "client"]
handleStatusChange == [Optimistic(createMediaDecision, "decision.updated", WithUrl(listMedia))
    EXCEPT !.lives = "client", !.guarded = FALSE]
resolveIssues == [Optimistic(updateComment, "comment.updated", WithUrl(listProjectIssues))
    EXCEPT !.undo = "none", !.lives = "client"]
handleToggleStatus == [Optimistic(updateComment, "comment.updated", WithUrl(listProjectIssues))
    EXCEPT !.lives = "client", !.guarded = FALSE]

verifyPassphrase == [Form(verifyPublicSharePassphrase, "none")
    EXCEPT !.refreshes = WithUrl(getPublicShareDetails), !.lives = "client"]
guestComment == [Optimistic(createPublicGuestComment, "comment.created", WithUrl(listPublicShareComments))
    EXCEPT !.patches = {"shareComments"}, !.merges = {"shareComments"}, !.guarded = FALSE]
guestDecision == [Optimistic(createPublicGuestDecision, "decision.updated",
                             WithUrl(getPublicShareDetails))
    EXCEPT !.patches = {"share"}]

-----------------------------------------------------------------------------
(* Organizations.                                                           *)

create_organization_dialog == [Form(createOrganization, "none")
    EXCEPT !.writes = {"org"}, !.merges = WithUrl(listOrganizations), !.lives = "client"]
edit_organization_dialog == [Optimistic(updateOrganization, "organization.updated",
                                        WithUrl(listOrganizations))
    EXCEPT !.merges = {"organizations"}, !.lives = "form"]
delete_organization_dialog == [Optimistic(deleteOrganization, "organization.deleted",
                                          WithUrl(listOrganizations)) EXCEPT !.lives = "form"]
leave_organization_dialog == [Optimistic(leaveOrganization, "organization.members_updated",
                                         WithUrl(listOrganizations)) EXCEPT !.lives = "form"]
change_role_dialog == [Optimistic(updateMemberRole, "organization.members_updated", OrgMembers)
    EXCEPT !.lives = "form"]
remove_member_dialog == [Optimistic(removeMember, "organization.members_updated", OrgMembers)
    EXCEPT !.lives = "form"]
invite_member_dialog == [Form(inviteMember, "none")
    EXCEPT !.refreshes = WithUrl(listOrganizationMembers) \cup WithUrl(listOrganizationInvitations),
           !.lives = "client"]
handleRevoke == [Optimistic(revokeInvitation, "none", OrgInvitations) EXCEPT !.guarded = FALSE]
handleAccept == [Form(acceptMyInvitation, "organization.members_updated")
    EXCEPT !.refreshes = WithUrl(listMyInvitations) \cup WithUrl(listOrganizations),
           !.lives = "client"]
handleDecline == [Optimistic(declineMyInvitation, "none", WithUrl(listMyInvitations))
    EXCEPT !.guarded = FALSE]
acceptByLink == Form(acceptInvitation, "organization.members_updated")
(* The plan.  Checkout and the portal leave the site.                       *)
triggerMockWebhook == mockWebhookApiV1WebhooksMockPost
cancelSubscription == cancelSubscriptionApiV1OrganizationsOrganizationIdBillingCancelPost
resumeSubscription == resumeSubscriptionApiV1OrganizationsOrganizationIdBillingResumePost
renewSubscription  == renewSubscriptionApiV1OrganizationsOrganizationIdBillingRenewPost
updatePlatformSettings == updatePlatformSettingsApiV1AdminPlatformSettingsPatch

ChangesPlan(request) == [Form(request, "none")
    EXCEPT !.refreshes = WithPrefix(<<"organizations", "organizationId", "billing">>)
                             \cup WithPrefix(<<"organization">>), !.lives = "client"]
useCancelSubscription == ChangesPlan(cancelSubscription)
useResumeSubscription == ChangesPlan(resumeSubscription)
useRenewSubscription  == ChangesPlan(renewSubscription)
useTriggerMockUpgrade == ChangesPlan(triggerMockWebhook)

-----------------------------------------------------------------------------
(* The account and the platform.                                            *)

onboardingProfile == [Form(updateMyProfile, "none")
    EXCEPT !.refreshes = WithUrl(getMyProfile), !.lives = "client"]
onboardingOrganization == [Form(createOrganization, "none")
    EXCEPT !.refreshes = WithUrl(getCurrentUser), !.lives = "client"]
profile_form == [Optimistic(updateMyProfile, "none", WithUrl(getMyProfile))
    EXCEPT !.patches = {"profile"}, !.merges = {"profile"}, !.returns = {"profile"},
           !.cancels = TRUE, !.lives = "client"]
avatar_uploader == [Form(uploadMyAvatar, "none")
    EXCEPT !.merges = WithUrl(getMyProfile), !.lives = "client"]
set_password_form == [Form(setPassword, "none")
    EXCEPT !.refreshes = WithUrl(getCurrentUser), !.lives = "client"]
change_password_form == [Form(changePassword, "none") EXCEPT !.lives = "client"]
sessions_manager == [Optimistic(revokeUserSession, "session.revoked", WithUrl(listUserSessions))
    EXCEPT !.cancels = TRUE, !.lives = "client"]
useMarkNotificationRead ==
    [Optimistic(markAsReadApiV1NotificationsNotificationIdReadPatch, "none", Notifications)
     EXCEPT !.patches = Notifications, !.throws = {"unread"}, !.merges = {"notifications"},
            !.cancels = TRUE, !.lives = "client", !.guarded = FALSE]
useMarkAllNotificationsRead ==
    [Optimistic(markAllAsReadApiV1NotificationsMarkAllReadPost, "none", Notifications)
     EXCEPT !.patches = Notifications, !.throws = {"unread"}, !.cancels = TRUE, !.lives = "client"]
AdminList(request, query) == [Optimistic(request, "none", WithUrl(query))
    EXCEPT !.patches = WithUrl(query), !.merges = WithUrl(query), !.cancels = TRUE,
           !.lives = "client", !.guarded = FALSE]
useUpdateUserRole ==
    AdminList(updateUserRoleApiV1AdminUsersUserIdRolePatch, listUsersApiV1AdminUsersGet)
useUpdateUserStatus ==
    AdminList(updateUserStatusApiV1AdminUsersUserIdStatusPatch, listUsersApiV1AdminUsersGet)
useUpdateOrgQuota ==
    AdminList(updateOrganizationQuotaApiV1AdminOrganizationsOrganizationIdQuotaPatch,
              listOrganizationsApiV1AdminOrganizationsGet)
(* The server notifies somebody; a worker finishes, or gives up, an asset.  *)
transcode == Form([writes |-> {"media", "version"}], "media.transcoded")
notify == Form([writes |-> {"note"}], "notification.created")
useUpdatePlatformSettings == [Form(updatePlatformSettings, "none")
    EXCEPT !.refreshes = WithPrefix(<<"admin", "platform-settings">>)
                             \cup WithPrefix(<<"organizations">>), !.lives = "client"]

-----------------------------------------------------------------------------
(* Realtime hooks.  An event patches the lists among the queries it sets    *)
(* (a created row is also put into lists of something else: strays), or it  *)
(* invalidates.                                                             *)

Deaf == [sets |-> {}, patches |-> {}, strays |-> {}, refreshes |-> {}, ends |-> FALSE]
Sets(queries, patches) == [Deaf EXCEPT !.sets = queries, !.patches = patches]
Refreshes(queries)     == [Deaf EXCEPT !.refreshes = queries]

MediaLists == {"folderMedia", "allMedia"}

ingestMediaCreated == [Sets(ProjectMedia, MediaLists)
    EXCEPT !.strays = Lists(ProjectMedia) \ MediaLists]
ingestMediaUpdated    == Sets(ProjectMedia, MediaLists)
ingestMediaMoved      == Sets(ProjectMedia, {"allMedia"})
ingestMediaDeleted    == Sets(ProjectMedia, MediaLists)
ingestMediaTranscoded == Sets(ProjectMedia, MediaLists)
ingestDecisionUpdated == Sets(ProjectMedia, MediaLists)
ingestFolderCreated   == Sets(ProjectFolders, {"folders", "tree"})
ingestFolderUpdated   == Sets(ProjectFolders, {"folders", "tree"})
ingestFolderMoved     == Sets(ProjectFolders, {"tree"})
ingestFolderDeleted   == Sets(ProjectFolders, {"folders", "tree"})
invalidateProjectFolderQuery ==
    Refreshes(IncludingAny({"projectId", "folders", "media", "projects"}))
invalidateProjectMembersQuery ==
    Refreshes(IncludingAny({"projectId", "members", "organizationId"}))
invalidateMediaOrDecisions == Refreshes(IncludingAny({"media", "decisions"}))

useRealtimeProject(event) ==
    CASE event = "media.created"    -> ingestMediaCreated
      [] event = "media.updated"    -> ingestMediaUpdated
      [] event = "media.moved"      -> ingestMediaMoved
      [] event = "media.deleted"    -> ingestMediaDeleted
      [] event = "media.transcoded" -> ingestMediaTranscoded
      [] event = "decision.updated" -> ingestDecisionUpdated
      [] event = "folder.created"   -> ingestFolderCreated
      [] event = "folder.updated"   -> ingestFolderUpdated
      [] event = "folder.moved"     -> ingestFolderMoved
      [] event = "folder.deleted"   -> ingestFolderDeleted
      [] event \in {"project.updated", "project.deleted"} -> invalidateProjectFolderQuery
      [] event = "project.members_updated" -> invalidateProjectMembersQuery
      [] event = "notification.created" -> Refreshes(Notifications)
      [] OTHER -> Deaf

useRealtimeMedia(event) ==
    CASE event \in {"comment.created", "comment.updated", "comment.deleted"} ->
             Sets(WithUrl(listMediaComments), {"comments"})
      [] event = "decision.updated" -> invalidateMediaOrDecisions
      [] event = "notification.created" -> Refreshes(Notifications)
      [] OTHER -> Deaf

useRealtimeUser(event) ==
    CASE event = "session.revoked" -> [Deaf EXCEPT !.ends = TRUE]
      [] event = "notification.created" -> Refreshes(Notifications)
      [] event = "organization.members_updated" ->
             Refreshes(IncludingAny({"organizations", "members"}))
      [] OTHER -> Deaf

(* The rooms the server publishes an event in.                              *)
PublishedIn(event) ==
    CASE event \in {"comment.created", "comment.updated", "comment.deleted"} -> {"media"}
      [] event \in {"decision.updated", "media.deleted"} -> {"project", "media"}
      [] event \in {"project.updated", "project.deleted"} -> {"project", "org"}
      [] event \in {"organization.updated", "organization.deleted",
                    "organization.members_updated"} -> {"org"}
      [] event \in {"session.revoked", "notification.created"} -> {"user"}
      [] event = "none" -> {}
      [] OTHER -> {"project"}

(* What the hooks of the joined rooms do with an event.  No page joins the  *)
(* rooms of a project and of an asset at the same time.                     *)

Hears(rooms, event) ==
    LET joined == rooms \cap PublishedIn(event)
    IN  CASE "project" \in joined -> useRealtimeProject(event)
          [] "media" \in joined   -> useRealtimeMedia(event)
          [] "user" \in joined    -> useRealtimeUser(event)
          [] OTHER                -> Deaf

-----------------------------------------------------------------------------
(* Pages and the dialogs with queries of their own that open over them.  A  *)
(* page is described by the queries it shows, the forms on it, the room its *)
(* socket joins and where the user may go from it.  Every page of the       *)
(* application also shows the shell around it.                              *)

Shell    == {"user", "profile", "myInvitations", "unread"}
OrgShell == Shell \cup {"organization", "projects"}

Page(name, queries, forms, rooms, next) ==
    [page |-> name, queries |-> queries, forms |-> forms, rooms |-> rooms, next |-> next]
Over(page, queries, forms) == [page EXCEPT !.queries = @ \cup queries, !.forms = forms,
                                           !.next = {page.page}]

ProjectPage == Page("ProjectPage",
    OrgShell \cup {"project", "folders", "folderMedia", "breadcrumbs"},
    {"delete_media_dialog", "edit_media_dialog", "stack_confirm_dialog", "upload_media_dialog",
     "resumeUpload", "abortUpload", "retryTranscode", "create_folder_dialog",
     "rename_folder_dialog", "delete_folder_dialog", "edit_project_dialog"},
    {"user", "project"}, {"MoveDialog", "VersionStackDialog", "MembersDialog", "NotificationPopover",
                "MediaViewerModal", "KanbanPage", "IssuesPage", "ReviewPage", "ProjectsPage"})
MoveDialog == Over(ProjectPage, {"tree"}, {"move_media_dialog", "move_folder_dialog"})
VersionStackDialog ==
    Over(ProjectPage, {"versions"}, {"handleSetPrimary", "handleUnstack", "handleSaveLabel"})
MembersDialog == Over(ProjectPage, {"members", "crew"},
                      {"addMember", "changeMemberRole", "removeCrewMember"})
MediaViewerModal == Over(ProjectPage, {"media"}, {})
NotificationPopover == Over(ProjectPage, {"notifications"},
                            {"useMarkNotificationRead", "useMarkAllNotificationsRead"})
KanbanPage == Page("KanbanPage", OrgShell \cup {"project", "allMedia", "openIssues"},
    {"handleStatusChange", "resolveIssues", "delete_media_dialog", "edit_media_dialog",
     "upload_media_dialog"},
    {"user", "project"}, {"ProjectPage", "IssuesPage", "ReviewPage"})
IssuesPage == Page("IssuesPage",
    OrgShell \cup {"project", "issuesSummary", "allMedia", "issues"},
    {"handleToggleStatus"}, {"user", "project"}, {"ProjectPage", "KanbanPage", "ReviewPage"})
ReviewPage == Page("ReviewPage",
    OrgShell \cup {"media", "project", "comments", "versions", "members", "billing", "decisions"},
    {"handleCreateComment", "handleResolveToggle", "handleDeleteComment",
     "handleConfirmDecision", "resolveAll", "upload_version_dialog"},
    {"user", "media"}, {"ShareDialog", "ProjectPage", "KanbanPage"})
ShareDialog == Over(ReviewPage, {"links"}, {"createLink", "revokeLink"})
GuestPage == Page("GuestPage", {"share", "shareStream", "shareComments"},
    {"verifyPassphrase", "guestComment", "guestDecision"}, {}, {})
ProjectsPage == Page("ProjectsPage", OrgShell,
    {"create_project_dialog", "edit_project_dialog", "delete_project_dialog"},
    {"user"}, {"ProjectPage", "MembersPage", "BillingPage", "GlobalDashboard"})
GlobalDashboard == Page("GlobalDashboard", Shell \cup {"organizations"},
    {"create_organization_dialog", "edit_organization_dialog", "delete_organization_dialog",
     "leave_organization_dialog"},
    {"user"}, {"ProjectsPage", "UserInvitationsPage", "ProfilePage", "AdminPage"})
MembersPage == Page("MembersPage", OrgShell \cup {"members", "invitations"},
    {"invite_member_dialog", "change_role_dialog", "remove_member_dialog", "handleRevoke"},
    {"user"}, {"ProjectsPage", "BillingPage"})
BillingPage == Page("BillingPage", OrgShell \cup {"billing", "organizations"},
    {"useCancelSubscription", "useResumeSubscription", "useRenewSubscription"},
    {"user"}, {"UpgradeModal", "ProjectsPage", "MembersPage"})
UpgradeModal == Over(BillingPage, {}, {"useTriggerMockUpgrade"})
UserInvitationsPage == Page("UserInvitationsPage", Shell, {"handleAccept", "handleDecline"},
                            {"user"}, {"GlobalDashboard"})
InvitationPage == Page("InvitationPage", {"user", "invitation"}, {"acceptByLink"},
                       {}, {"GlobalDashboard"})
ProfilePage == Page("ProfilePage", Shell \cup {"sessions"},
    {"profile_form", "avatar_uploader", "set_password_form", "change_password_form",
     "sessions_manager"}, {"user"}, {"GlobalDashboard"})
OnboardingPage == Page("OnboardingPage", {"user", "profile"},
    {"onboardingProfile", "onboardingOrganization"}, {}, {"GlobalDashboard"})
(* The tabs of the console are one page, which shows all lists at any tab;  *)
(* the settings are a card of the overview.                                 *)
AdminScreen == Page("AdminPage", Shell \cup {"overview", "adminUsers", "adminOrgs", "auditLogs"},
    {}, {"user"}, {"AdminPage", "UsersTab", "OrganizationsTab", "GlobalDashboard"})
AdminPage == [AdminScreen EXCEPT !.queries = @ \cup {"settings"},
                                 !.forms = {"useUpdatePlatformSettings"}]
UsersTab == [AdminScreen EXCEPT !.forms = {"useUpdateUserRole", "useUpdateUserStatus"}]
OrganizationsTab == [AdminScreen EXCEPT !.forms = {"useUpdateOrgQuota"}]

LoginPage == Page("LoginPage", {}, {}, {}, {"GlobalDashboard"})

(* The forms and the pages by name.                                         *)
FormTable == [
    delete_media_dialog |-> delete_media_dialog, move_media_dialog |-> move_media_dialog,
    edit_media_dialog |-> edit_media_dialog, stack_confirm_dialog |-> stack_confirm_dialog,
    handleSetPrimary |-> handleSetPrimary, handleUnstack |-> handleUnstack,
    handleSaveLabel |-> handleSaveLabel, createLink |-> createLink, revokeLink |-> revokeLink,
    retryTranscode |-> retryTranscode, upload_media_dialog |-> upload_media_dialog,
    resumeUpload |-> resumeUpload, abortUpload |-> abortUpload,
    upload_version_dialog |-> upload_version_dialog,
    create_folder_dialog |-> create_folder_dialog, rename_folder_dialog |-> rename_folder_dialog,
    move_folder_dialog |-> move_folder_dialog, delete_folder_dialog |-> delete_folder_dialog,
    create_project_dialog |-> create_project_dialog, edit_project_dialog |-> edit_project_dialog,
    delete_project_dialog |-> delete_project_dialog, addMember |-> addMember,
    changeMemberRole |-> changeMemberRole, removeCrewMember |-> removeCrewMember,
    handleCreateComment |-> handleCreateComment, handleResolveToggle |-> handleResolveToggle,
    handleDeleteComment |-> handleDeleteComment, handleConfirmDecision |-> handleConfirmDecision,
    resolveAll |-> resolveAll, handleStatusChange |-> handleStatusChange,
    resolveIssues |-> resolveIssues, handleToggleStatus |-> handleToggleStatus,
    verifyPassphrase |-> verifyPassphrase, guestComment |-> guestComment,
    guestDecision |-> guestDecision, create_organization_dialog |-> create_organization_dialog,
    edit_organization_dialog |-> edit_organization_dialog,
    delete_organization_dialog |-> delete_organization_dialog,
    leave_organization_dialog |-> leave_organization_dialog,
    change_role_dialog |-> change_role_dialog, remove_member_dialog |-> remove_member_dialog,
    invite_member_dialog |-> invite_member_dialog, handleRevoke |-> handleRevoke,
    handleAccept |-> handleAccept, handleDecline |-> handleDecline, acceptByLink |-> acceptByLink,
    useCancelSubscription |-> useCancelSubscription,
    useResumeSubscription |-> useResumeSubscription, useRenewSubscription |-> useRenewSubscription,
    useTriggerMockUpgrade |-> useTriggerMockUpgrade, onboardingProfile |-> onboardingProfile,
    onboardingOrganization |-> onboardingOrganization, profile_form |-> profile_form,
    avatar_uploader |-> avatar_uploader, set_password_form |-> set_password_form,
    change_password_form |-> change_password_form, sessions_manager |-> sessions_manager,
    useMarkNotificationRead |-> useMarkNotificationRead,
    useMarkAllNotificationsRead |-> useMarkAllNotificationsRead,
    useUpdateUserRole |-> useUpdateUserRole, useUpdateUserStatus |-> useUpdateUserStatus,
    useUpdateOrgQuota |-> useUpdateOrgQuota,
    useUpdatePlatformSettings |-> useUpdatePlatformSettings, notify |-> notify,
    transcode |-> transcode ]

PageTable == [
    ProjectPage |-> ProjectPage, MoveDialog |-> MoveDialog,
    VersionStackDialog |-> VersionStackDialog, MembersDialog |-> MembersDialog,
    NotificationPopover |-> NotificationPopover, MediaViewerModal |-> MediaViewerModal,
    KanbanPage |-> KanbanPage, IssuesPage |-> IssuesPage, ReviewPage |-> ReviewPage, ShareDialog |-> ShareDialog,
    GuestPage |-> GuestPage, ProjectsPage |-> ProjectsPage, GlobalDashboard |-> GlobalDashboard,
    MembersPage |-> MembersPage, BillingPage |-> BillingPage,
    UserInvitationsPage |-> UserInvitationsPage, InvitationPage |-> InvitationPage,
    ProfilePage |-> ProfilePage, OnboardingPage |-> OnboardingPage, AdminPage |-> AdminPage,
    UsersTab |-> UsersTab, OrganizationsTab |-> OrganizationsTab, UpgradeModal |-> UpgradeModal,
    LoginPage |-> LoginPage ]

=============================================================================
