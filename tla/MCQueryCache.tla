----------------------------- MODULE MCQueryCache -----------------------------
(* The query cache under the screens of the web client, for TLC.            *)
EXTENDS QueryCache, Screens

(* The tables, each worked out once.                                        *)
MCAbout  == LET about == [q \in QueryNames |-> Cached[q].about] IN about
MCDoes   == LET forms == FormTable IN forms
MCAt     == LET pages == PageTable IN pages
MCArrays == {q \in QueryNames : Cached[q].shape = "array"}
MCForms  == DOMAIN FormTable
MCPlaces == DOMAIN PageTable
Reactions == [rooms \in SUBSET {"user", "project", "media"},
              event \in {FormTable[f].event : f \in MCForms} |-> Hears(rooms, event)]
MCReacts(rooms, event) == LET hooks == Reactions IN hooks[rooms, event]
MCUnsignalled == {"notifications", "unread", "billing", "settings"}

MediaForms == {"delete_media_dialog", "edit_media_dialog", "upload_media_dialog",
               "retryTranscode", "handleStatusChange"}
Issues == {"openIssues", "issues"}

(* What each form is meant to keep true without help from anybody.  What is *)
(* not named is not promised: the README lists the gaps.                    *)
MCKeeps(f) ==
    CASE f \in MediaForms -> {"folderMedia", "allMedia"}
      [] f = "stack_confirm_dialog" -> {"folderMedia", "allMedia"}
      [] f = "move_media_dialog" -> {"allMedia", "media"}
      [] f \in {"handleSetPrimary", "handleUnstack", "handleSaveLabel"} -> {"versions"}
      [] f = "upload_version_dialog" -> {"folderMedia", "allMedia", "media", "versions"}
      [] f \in {"createLink", "revokeLink"} -> {"links"}
      [] f \in {"create_folder_dialog", "rename_folder_dialog", "delete_folder_dialog"} ->
             {"folders", "tree"}
      [] f = "move_folder_dialog" -> {"tree"}
      [] f \in {"create_project_dialog", "delete_project_dialog"} -> {"projects"}
      [] f = "edit_project_dialog" -> {"projects", "project"}
      [] f \in {"addMember", "changeMemberRole", "removeCrewMember"} -> {"crew"}
      [] f \in {"handleCreateComment", "handleResolveToggle", "handleDeleteComment",
                "resolveAll"} -> {"comments"}
      [] f \in {"handleToggleStatus", "resolveIssues"} -> Issues
      [] f \in {"verifyPassphrase", "guestDecision"} -> {"share"}
      [] f = "guestComment" -> {"shareComments"}
      [] f \in {"create_organization_dialog", "edit_organization_dialog",
                "delete_organization_dialog", "leave_organization_dialog"} -> {"organizations"}
      [] f \in {"change_role_dialog", "remove_member_dialog"} -> {"members"}
      [] f \in {"invite_member_dialog", "handleRevoke"} -> {"invitations"}
      [] f = "handleAccept" -> {"myInvitations", "organizations"}
      [] f = "handleDecline" -> {"myInvitations"}
      [] f \in {"useCancelSubscription", "useResumeSubscription", "useRenewSubscription",
                "useTriggerMockUpgrade"} -> {"billing"}
      [] f \in {"onboardingProfile", "profile_form", "avatar_uploader"} -> {"profile"}
      [] f \in {"onboardingOrganization", "set_password_form"} -> {"user"}
      [] f = "sessions_manager" -> {"sessions"}
      [] f \in {"useMarkNotificationRead", "useMarkAllNotificationsRead"} ->
             {"notifications", "unread"}
      [] f \in {"useUpdateUserRole", "useUpdateUserStatus"} -> {"adminUsers"}
      [] f = "useUpdateOrgQuota" -> {"adminOrgs"}
      [] f = "useUpdatePlatformSettings" -> {"settings"}
      [] OTHER -> {}

(* What other people see of it at once.                                     *)
MCTold(rooms, event) ==
    CASE "project" \in rooms /\ event \in {"media.created", "media.updated", "media.deleted",
                                          "media.transcoded", "decision.updated"} -> {"folderMedia", "allMedia"}
      [] "project" \in rooms /\ event = "media.moved" -> {"allMedia"}
      [] "project" \in rooms /\ event \in {"folder.created", "folder.updated", "folder.deleted"} ->
             {"folders", "tree"}
      [] "project" \in rooms /\ event = "folder.moved" -> {"tree"}
      [] "project" \in rooms /\ event \in {"project.updated", "project.deleted"} ->
             {"project", "projects"}
      [] "project" \in rooms /\ event = "project.members_updated" -> {"crew"}
      [] "media" \in rooms /\ event \in {"comment.created", "comment.updated",
                                        "comment.deleted"} -> {"comments"}
      [] "media" \in rooms /\ event = "decision.updated" -> {"media", "versions", "decisions"}
      [] "user" \in rooms /\ event = "notification.created" -> {"notifications", "unread"}
      [] OTHER -> {}

(* Dialogs that close before the answer comes, and loops that do not look   *)
(* at their answers.                                                        *)
MCForgetful == {"edit_media_dialog", "rename_folder_dialog", "move_folder_dialog",
                "edit_organization_dialog", "delete_organization_dialog",
                "leave_organization_dialog", "change_role_dialog", "remove_member_dialog",
                "resolveAll", "resolveIssues"}

(* One change with a navigation or a repeated query and an outage around    *)
(* it, or with two navigations, there and back; or two changes alone.       *)
MCBounds == {[calls |-> 1, moves |-> 1, polls |-> 0, outages |-> 1],
             [calls |-> 1, moves |-> 2, polls |-> 0, outages |-> 0],
             [calls |-> 1, moves |-> 0, polls |-> 1, outages |-> 1],
             [calls |-> 2, moves |-> 0, polls |-> 0, outages |-> 0]}
=============================================================================
