------------------------------ MODULE ApiClient ------------------------------
(***************************************************************************)
(* The generated client of the REST API, as far as the web client's cache   *)
(* depends on it.  A generated query hook caches its answer under the key   *)
(* <<URL, parameters>>; a generated mutation hook caches nothing.  What the *)
(* screens do with the cache goes by the segments of the URL, so a URL is   *)
(* the sequence of its segments after /api/v1, every identifier standing    *)
(* for itself: one organization, one project, one folder, one asset.        *)
(*                                                                         *)
(* A query also carries the shape of its answer (a page with "items", a     *)
(* plain "array", "one" record or a "number") and the kinds of server data  *)
(* in it; a mutation carries the kinds of data it changes.                  *)
(***************************************************************************)
EXTENDS Sequences

Query(url, shape, about) == [url |-> url, shape |-> shape, about |-> about]
Mutation(url, writes)    == [url |-> url, writes |-> writes]

Org     == <<"organizations", "organizationId">>
Project == Org \o <<"projects", "projectId">>
Folder  == Project \o <<"folders", "folderId">>
Media   == Project \o <<"media", "mediaId">>
Share   == <<"public", "shares", "token">>

-----------------------------------------------------------------------------
(* Sign-in, the account and its sessions.                                   *)

register == Mutation(<<"auth", "register">>, {"account"})
verifyEmail == Mutation(<<"auth", "verify-email">>, {"account"})
resendVerification == Mutation(<<"auth", "resend-verification">>, {"account"})
login == Mutation(<<"auth", "login">>, {"session"})
refreshToken == Mutation(<<"auth", "refresh">>, {"session"})
logout == Mutation(<<"auth", "logout">>, {"session"})
forgotPassword == Mutation(<<"auth", "forgot-password">>, {"account"})
resetPassword == Mutation(<<"auth", "reset-password">>, {"account", "session"})
setPassword == Mutation(<<"auth", "set-password">>, {"user"})
changePassword == Mutation(<<"users", "me", "change-password">>, {"session"})
getCurrentUser == Query(<<"auth", "me">>, "one", {"user"})
listUserSessions == Query(<<"users", "me", "sessions">>, "items", {"session"})
revokeUserSession ==
    Mutation(<<"users", "me", "sessions", "sessionId">>, {"session"})
getMyProfile == Query(<<"profiles", "me">>, "one", {"profile"})
updateMyProfile == Mutation(<<"profiles", "me">>, {"profile"})
uploadMyAvatar == Mutation(<<"profiles", "me", "avatar">>, {"profile"})

-----------------------------------------------------------------------------
(* Organizations, their members and invitations.                            *)

listOrganizations == Query(<<"organizations">>, "items", {"org"})
getOrganizationBySlug ==
    Query(<<"organizations", "by-slug", "slug">>, "one", {"org"})
createOrganization == Mutation(<<"organizations">>, {"org", "user"})
updateOrganization == Mutation(Org, {"org"})
deleteOrganization == Mutation(Org, {"org"})
leaveOrganization == Mutation(Org \o <<"leave">>, {"org"})
listOrganizationMembers == Query(Org \o <<"members">>, "items", {"member"})
updateMemberRole == Mutation(Org \o <<"members", "userId">>, {"member"})
removeMember == Mutation(Org \o <<"members", "userId">>, {"member"})
listOrganizationInvitations ==
    Query(Org \o <<"invitations">>, "items", {"invitation"})
inviteMember == Mutation(Org \o <<"invitations">>, {"invitation"})
revokeInvitation ==
    Mutation(Org \o <<"invitations", "invitationId">>, {"invitation"})
listMyInvitations == Query(<<"invitations", "me">>, "items", {"received"})
acceptMyInvitation ==
    Mutation(<<"invitations", "me", "invitationId", "accept">>,
        {"received", "org"})
declineMyInvitation ==
    Mutation(<<"invitations", "me", "invitationId", "decline">>, {"received"})
getInvitationDetails == Query(<<"invitations", "token">>, "one", {"received"})
acceptInvitation ==
    Mutation(<<"invitations", "token", "accept">>, {"received", "org"})

-----------------------------------------------------------------------------
(* Projects, their members and folders.                                     *)

listProjects == Query(Org \o <<"projects">>, "items", {"project"})
getProject == Query(Project, "one", {"project"})
createProject == Mutation(Org \o <<"projects">>, {"project"})
updateProject == Mutation(Project, {"project"})
deleteProject == Mutation(Project, {"project"})
listProjectMembers == Query(Project \o <<"members">>, "items", {"crew"})
addProjectMember == Mutation(Project \o <<"members">>, {"crew"})
updateProjectMemberRole ==
    Mutation(Project \o <<"members", "userId">>, {"crew"})
removeProjectMember == Mutation(Project \o <<"members", "userId">>, {"crew"})
listFolders == Query(Project \o <<"folders">>, "items", {"folder"})
getFolderTree == Query(Project \o <<"folders", "tree">>, "array", {"folder"})
getFolderBreadcrumbs == Query(Folder \o <<"breadcrumbs">>, "array", {"folder"})
createFolder == Mutation(Project \o <<"folders">>, {"folder"})
renameFolder == Mutation(Folder, {"folder"})
moveFolder == Mutation(Folder \o <<"move">>, {"folder"})
deleteFolder == Mutation(Folder, {"folder", "media", "version", "comment"})

-----------------------------------------------------------------------------
(* Media assets, their versions and share links.                            *)

listMedia == Query(Project \o <<"media">>, "items", {"media"})
getMedia == Query(Media, "one", {"media"})
updateMedia == Mutation(Media, {"media", "version"})
deleteMedia == Mutation(Media, {"media", "version", "comment"})
moveMedia == Mutation(Media \o <<"move">>, {"media", "version"})
retryMediaTranscode == Mutation(Media \o <<"retry-transcode">>, {"media"})
presignMediaUpload ==
    Mutation(Project \o <<"media", "presign-upload">>, {"media"})
initiateMultipartUpload ==
    Mutation(Project \o <<"media", "multipart", "initiate">>, {"media"})
presignMultipartParts ==
    Mutation(Media \o <<"multipart", "presign-parts">>, {})
abortMultipartUpload ==
    Mutation(Media \o <<"multipart", "abort">>, {"media"})
completeMediaUpload == Mutation(Media \o <<"complete">>, {"media"})
completeMultipartUpload ==
    Mutation(Media \o <<"multipart", "complete">>, {"media"})
getMediaVersions == Query(Media \o <<"versions">>, "array", {"version"})
stackMedia == Mutation(Media \o <<"stack">>, {"media", "version"})
unstackMedia == Mutation(Media \o <<"unstack">>, {"media", "version"})
setPrimaryVersion == Mutation(Media \o <<"set-primary">>, {"media", "version"})
updateVersionLabel ==
    Mutation(Media \o <<"version-label">>, {"media", "version"})
listShareLinks == Query(Media \o <<"share-links">>, "array", {"link"})
createShareLink == Mutation(Media \o <<"share-links">>, {"link"})
revokeShareLink ==
    Mutation(Media \o <<"share-links", "shareLinkId">>, {"link"})

-----------------------------------------------------------------------------
(* Review: comments, issues and decisions.                                  *)

listMediaComments == Query(Media \o <<"comments">>, "array", {"comment"})
createComment == Mutation(Media \o <<"comments">>, {"comment"})
updateComment == Mutation(Media \o <<"comments", "commentId">>, {"comment"})
deleteComment == Mutation(Media \o <<"comments", "commentId">>, {"comment"})
listProjectIssues == Query(Project \o <<"issues">>, "items", {"comment"})
getProjectIssuesSummary ==
    Query(Project \o <<"issues", "summary">>, "one", {"comment"})
listMediaDecisions == Query(Media \o <<"decisions">>, "items", {"decision"})
createMediaDecision ==
    Mutation(Media \o <<"decisions">>, {"decision", "media", "version"})

-----------------------------------------------------------------------------
(* Guests of a share link.                                                  *)

getPublicShareDetails == Query(Share, "one", {"access", "decision"})
getPublicShareStream == Query(Share \o <<"stream">>, "one", {"media"})
listPublicShareComments == Query(Share \o <<"comments">>, "array", {"comment"})
verifyPublicSharePassphrase == Mutation(Share \o <<"verify">>, {"access"})
createPublicGuestComment == Mutation(Share \o <<"comments">>, {"comment"})
createPublicGuestDecision ==
    Mutation(Share \o <<"decisions">>, {"decision", "media", "version"})

-----------------------------------------------------------------------------
(* The console of the platform.                                             *)

getOverviewApiV1AdminOverviewGet ==
    Query(<<"admin", "overview">>, "one", {"metrics"})
listUsersApiV1AdminUsersGet == Query(<<"admin", "users">>, "array", {"user"})
listOrganizationsApiV1AdminOrganizationsGet ==
    Query(<<"admin", "organizations">>, "array", {"org"})
listAuditLogsApiV1AdminAuditLogsGet ==
    Query(<<"admin", "audit-logs">>, "items", {"audit"})
updateUserRoleApiV1AdminUsersUserIdRolePatch ==
    Mutation(<<"admin", "users", "userId", "role">>, {"user", "audit"})
updateUserStatusApiV1AdminUsersUserIdStatusPatch ==
    Mutation(<<"admin", "users", "userId", "status">>, {"user", "audit"})
updateOrganizationQuotaApiV1AdminOrganizationsOrganizationIdQuotaPatch ==
    Mutation(<<"admin", "organizations", "organizationId", "quota">>,
        {"org", "audit"})
-----------------------------------------------------------------------------
(* Billing, the settings of the platform and notifications.  The web client *)
(* makes these requests by hand, under keys of its own.                     *)

getOrganizationBillingApiV1OrganizationsOrganizationIdBillingGet ==
    Query(Org \o <<"billing">>, "one", {"plan"})
cancelSubscriptionApiV1OrganizationsOrganizationIdBillingCancelPost ==
    Mutation(Org \o <<"billing", "cancel">>, {"plan", "org"})
resumeSubscriptionApiV1OrganizationsOrganizationIdBillingResumePost ==
    Mutation(Org \o <<"billing", "resume">>, {"plan", "org"})
renewSubscriptionApiV1OrganizationsOrganizationIdBillingRenewPost ==
    Mutation(Org \o <<"billing", "renew">>, {"plan", "org"})
mockWebhookApiV1WebhooksMockPost ==
    Mutation(<<"webhooks", "mock">>, {"plan", "org"})
getPlatformSettingsApiV1AdminPlatformSettingsGet ==
    Query(<<"admin", "platform-settings">>, "one", {"settings"})
updatePlatformSettingsApiV1AdminPlatformSettingsPatch ==
    Mutation(<<"admin", "platform-settings">>, {"settings"})
listNotificationsApiV1NotificationsGet ==
    Query(<<"notifications">>, "items", {"note"})
getUnreadCountApiV1NotificationsUnreadCountGet ==
    Query(<<"notifications", "unread-count">>, "one", {"note"})
markAsReadApiV1NotificationsNotificationIdReadPatch ==
    Mutation(<<"notifications", "notificationId", "read">>, {"note"})
markAllAsReadApiV1NotificationsMarkAllReadPost ==
    Mutation(<<"notifications", "mark-all-read">>, {"note"})
=============================================================================
