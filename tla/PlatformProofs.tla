----------------------------- MODULE PlatformProofs -----------------------------
(****************************************************************************)
(* The properties of the platform's components, as TLC checks them there:   *)
(* what ImageJobsProofs, ListsProofs and ServicesProofs show of a component *)
(* holds of the platform while it follows that component.  A component has  *)
(* one name in Platform and one in those modules; both are instances of the *)
(* same module with the same constants, which the lemmas called Follows     *)
(* spell out.                                                               *)
(****************************************************************************)
EXTENDS Platform, ImageJobsProofs

\* None is a model value: neither a number, nor the slug of an organization,
\* nor the sync state of a sheet.
PlatformSetup ==
    None \notin Nat \cup {"a"} \X Nat
                   \cup [last : Nat, total : Nat, status : {"syncing", "success", "failed"}]

\* A step of the platform keeps the component it follows and is a step, or a
\* stutter, of that component.
LEMMA StepFollowsFocus ==
    ASSUME [PlatformNext]_platformVars
    PROVE  /\ focus' = focus
           /\ focus = "images" => [Next]_imageJobVars
           /\ focus = "two_pages" => [TwoPages!Next]_(TwoPages!catalogVars)
           /\ focus = "two_refreshes" => [TwoRefreshes!Next]_(TwoRefreshes!catalogVars)
           /\ focus = "watchlists" => [Lists!Next]_(Lists!watchlistVars)
           /\ focus = "notifications" => [Notices!Next]_(Notices!notificationVars)
           /\ focus = "two_admins" => [TwoAdmins!Next]_(TwoAdmins!organizationVars)
           /\ focus = "newcomers" => [Newcomers!Next]_(Newcomers!organizationVars)
           /\ focus = "clones" => [Clones!Next]_(Clones!voiceVars)
           /\ focus = "speech" => [Speech!Next]_(Speech!voiceVars)
           /\ focus = "sheets" => [Sheets!Next]_(Sheets!vars)
           /\ focus = "workers" => [TwoWorkers!Next]_(TwoWorkers!vars)
           /\ focus = "channels" => [TwoChannels!Next]_(TwoChannels!interviewVars)
           /\ focus = "streams" => [TwoStreams!Next]_(TwoStreams!interviewVars)
<1> USE DEF PlatformNext, ImagesStep, Interview, SheetsStep, Conversing, SkillsStep, Backtesting,
            Listing, Watching, Notifying, Organizing, Voicing, platformVars
<1>1. focus' = focus
  OBVIOUS
<1>2. focus = "images" => [Next]_imageJobVars
  BY DEF imagesOnly, imageJobVars, imageVars
<1>3. focus = "two_pages" => [TwoPages!Next]_(TwoPages!catalogVars)
  BY DEF listVars, catalogVars, TwoPages!catalogVars
<1>4. focus = "two_refreshes" => [TwoRefreshes!Next]_(TwoRefreshes!catalogVars)
  BY DEF listVars, catalogVars, TwoRefreshes!catalogVars
<1>5. focus = "watchlists" => [Lists!Next]_(Lists!watchlistVars)
  BY DEF listVars, watchlistVars, Lists!watchlistVars
<1>6. focus = "notifications" => [Notices!Next]_(Notices!notificationVars)
  BY DEF listVars, notificationVars, Notices!notificationVars
<1>7. focus = "two_admins" => [TwoAdmins!Next]_(TwoAdmins!organizationVars)
  BY DEF listVars, organizationVars, TwoAdmins!organizationVars
<1>8. focus = "newcomers" => [Newcomers!Next]_(Newcomers!organizationVars)
  BY DEF listVars, organizationVars, Newcomers!organizationVars
<1>9. focus = "clones" => [Clones!Next]_(Clones!voiceVars)
  BY DEF listVars, voiceVars, Clones!voiceVars
<1>10. focus = "speech" => [Speech!Next]_(Speech!voiceVars)
  BY DEF listVars, voiceVars, Speech!voiceVars
<1>11. focus = "sheets" => [Sheets!Next]_(Sheets!vars)
  BY DEF sheetVars, Sheets!vars
<1>12. focus = "workers" => [TwoWorkers!Next]_(TwoWorkers!vars)
  BY DEF sheetVars, TwoWorkers!vars
<1>13. focus = "channels" => [TwoChannels!Next]_(TwoChannels!interviewVars)
  BY DEF interviewVars, TwoChannels!interviewVars, TwoChannels!turnVars
<1>14. focus = "streams" => [TwoStreams!Next]_(TwoStreams!interviewVars)
  BY DEF interviewVars, TwoStreams!interviewVars, TwoStreams!turnVars
<1> QED
  BY <1>1, <1>2, <1>3, <1>4, <1>5, <1>6, <1>7, <1>8, <1>9, <1>10, <1>11, <1>12, <1>13, <1>14

\* At the start the component followed starts.
LEMMA InitFollowsFocus ==
    ASSUME PlatformInit
    PROVE  /\ Init
           /\ focus = "two_pages" => TwoPages!Init
           /\ focus = "two_refreshes" => TwoRefreshes!Init
           /\ focus = "watchlists" => Lists!Init
           /\ focus = "notifications" => Notices!Init
           /\ focus = "two_admins" => TwoAdmins!Init
           /\ focus = "newcomers" => Newcomers!Init
           /\ focus = "clones" => Clones!Init
           /\ focus = "speech" => Speech!Init
           /\ focus = "sheets" => Sheets!Init
           /\ focus = "workers" => TwoWorkers!Init
           /\ focus = "channels" => TwoChannels!Init
           /\ focus = "streams" => TwoStreams!Init
<1>1. Clones!Init => Speech!Init
  BY DEF Clones!Init, Speech!Init, Clones!Idle, Speech!Idle
<1> QED
  BY <1>1 DEF PlatformInit

-----------------------------------------------------------------------------
\* The components that keep lists, and voices, with each of their two bounds.
One == INSTANCE ListsProofs WITH
    Requests <- SkillRequests, StockSymbols <- {1, 2}, PageSize <- 1,
    Readers <- {Listener}, Refreshers <- {CHOOSE w \in Workers : TRUE}, MaxRefreshes <- 2,
    MaxPageReads <- 2, MaxCatalogFaults <- 1,
    Owners <- {Owner}, ListNames <- {"a", "b"}, ListSymbols <- {1}, MaxLists <- 2,
    MaxListRequests <- 4, MaxListFaults <- 1,
    Keys <- {"completed"}, Creators <- Workers, Clients <- {Listener}, MaxCreations <- 3,
    MaxClientReads <- 2, MaxNoticeFaults <- 1,
    OrgNames <- {"a"}, Emails <- 1 .. 3, Founders <- <<1, 2, 3>>, MaxAccounts <- 3,
    MaxOrganizations <- 2, MaxOrgRequests <- 2, MaxOrgFaults <- 0,
    VoiceIds <- {1}, SystemVoices <- {}, Users <- {1}, Admins <- {}, MaxChunks <- 1,
    MaxVoiceRequests <- 4, MaxVoiceFaults <- 0

LEMMA TwoPagesFollows ==
    /\ TwoPages!Init => One!Catalog!Init
    /\ [TwoPages!Next]_(TwoPages!catalogVars)
       => [One!Catalog!Next]_(One!Catalog!catalogVars)
    /\ One!Catalog!CacheFollowsCatalogue /\ One!Catalog!OneSnapshot
       => TwoPages!CacheFollowsCatalogue /\ TwoPages!OneSnapshot
<1>1. TwoPages!Init => One!Catalog!Init
  BY DEF TwoPages!Cardinality, One!Catalog!Cardinality, TwoPages!Init,
         One!Catalog!Init, TwoPages!NoRead, One!Catalog!NoRead, TwoPages!NoRefresh,
         One!Catalog!NoRefresh, TwoPages!Pages, One!Catalog!Pages
<1>2. [TwoPages!Next]_(TwoPages!catalogVars)
       => [One!Catalog!Next]_(One!Catalog!catalogVars)
  BY ZenonT(60) DEF TwoPages!Active, One!Catalog!Active, TwoPages!Cached,
     One!Catalog!Cached,
         TwoPages!Cardinality, One!Catalog!Cardinality, TwoPages!Count,
         One!Catalog!Count, TwoPages!ExpirePage, One!Catalog!ExpirePage,
         TwoPages!Fault, One!Catalog!Fault, TwoPages!Fetch, One!Catalog!Fetch,
         TwoPages!Find, One!Catalog!Find, TwoPages!GetPage, One!Catalog!GetPage,
         TwoPages!IsInjective, One!Catalog!IsInjective, TwoPages!Keys,
         One!Catalog!Keys, TwoPages!Next, One!Catalog!Next, TwoPages!NoRead,
         One!Catalog!NoRead, TwoPages!NoRefresh, One!Catalog!NoRefresh,
         TwoPages!PageOf, One!Catalog!PageOf, TwoPages!Pages, One!Catalog!Pages,
         TwoPages!ReadSnapshot, One!Catalog!ReadSnapshot, TwoPages!ReadStep,
         One!Catalog!ReadStep, TwoPages!RefreshFails, One!Catalog!RefreshFails,
         TwoPages!RefreshStep, One!Catalog!RefreshStep, TwoPages!Replace,
         One!Catalog!Replace, TwoPages!Response, One!Catalog!Response, TwoPages!Scan,
         One!Catalog!Scan, TwoPages!SetPage, One!Catalog!SetPage, TwoPages!SetToSeq,
         One!Catalog!SetToSeq, TwoPages!SetToSortSeq, One!Catalog!SetToSortSeq,
         TwoPages!Unlink, One!Catalog!Unlink, TwoPages!catalogVars,
         One!Catalog!catalogVars
<1>3. One!Catalog!CacheFollowsCatalogue /\ One!Catalog!OneSnapshot
      => TwoPages!CacheFollowsCatalogue /\ TwoPages!OneSnapshot
  BY ZenonT(60) DEF TwoPages!Active, One!Catalog!Active, TwoPages!CacheFollowsCatalogue,
         One!Catalog!CacheFollowsCatalogue, TwoPages!Cached, One!Catalog!Cached,
         TwoPages!Cardinality, One!Catalog!Cardinality, TwoPages!Current,
         One!Catalog!Current, TwoPages!IsInjective, One!Catalog!IsInjective,
         TwoPages!OneSnapshot, One!Catalog!OneSnapshot, TwoPages!PageOf,
         One!Catalog!PageOf, TwoPages!Pages, One!Catalog!Pages, TwoPages!Response,
         One!Catalog!Response, TwoPages!SetToSeq, One!Catalog!SetToSeq,
         TwoPages!SetToSortSeq, One!Catalog!SetToSortSeq
<1> QED
  BY <1>1, <1>2, <1>3

LEMMA ListsFollows ==
    /\ Lists!Init => One!Lists!Init
    /\ [Lists!Next]_(Lists!watchlistVars) => [One!Lists!Next]_(One!Lists!watchlistVars)
    /\ One!Lists!OrphansAreRaces /\ One!Lists!ListsAreSets
       => Lists!OrphansAreRaces /\ Lists!ListsAreSets
<1>1. Lists!Init => One!Lists!Init
  BY DEF Lists!Idle, One!Lists!Idle, Lists!Init, One!Lists!Init
<1>2. [Lists!Next]_(Lists!watchlistVars) => [One!Lists!Next]_(One!Lists!watchlistVars)
  BY ZenonT(60) DEF Lists!AddItem, One!Lists!AddItem, Lists!At, One!Lists!At, Lists!Begin,
         One!Lists!Begin, Lists!CheckDuplicate, One!Lists!CheckDuplicate,
         Lists!CheckName, One!Lists!CheckName, Lists!CheckSymbol,
         One!Lists!CheckSymbol, Lists!CreateList, One!Lists!CreateList,
         Lists!DeleteItems, One!Lists!DeleteItems, Lists!DeleteList,
         One!Lists!DeleteList, Lists!Done, One!Lists!Done, Lists!Fault,
         One!Lists!Fault, Lists!Goto, One!Lists!Goto, Lists!HasDuplicateName,
         One!Lists!HasDuplicateName, Lists!HasDuplicateSymbol,
         One!Lists!HasDuplicateSymbol, Lists!Idle, One!Lists!Idle, Lists!Kinds,
         One!Lists!Kinds, Lists!Next, One!Lists!Next, Lists!Owned, One!Lists!Owned,
         Lists!RefreshCatalogue, One!Lists!RefreshCatalogue, Lists!RemoveItem,
         One!Lists!RemoveItem, Lists!RenameList, One!Lists!RenameList,
         Lists!RequestFails, One!Lists!RequestFails, Lists!watchlistVars,
         One!Lists!watchlistVars
<1>3. One!Lists!OrphansAreRaces /\ One!Lists!ListsAreSets
      => Lists!OrphansAreRaces /\ Lists!ListsAreSets
  BY DEF Lists!ListsAreSets, One!Lists!ListsAreSets, Lists!OrphansAreRaces,
         One!Lists!OrphansAreRaces
<1> QED
  BY <1>1, <1>2, <1>3

LEMMA NoticesFollows ==
    /\ Notices!Init => One!Notices!Init
    /\ [Notices!Next]_(Notices!notificationVars)
       => [One!Notices!Next]_(One!Notices!notificationVars)
    /\ One!Notices!OnePerKey /\ One!Notices!AnnouncedOnce
       => Notices!OnePerKey /\ Notices!AnnouncedOnce
<1>1. Notices!Init => One!Notices!Init
  BY DEF Notices!Init, One!Notices!Init, Notices!NoCreation, One!Notices!NoCreation,
         Notices!NoRequest, One!Notices!NoRequest
<1>2. [Notices!Next]_(Notices!notificationVars)
       => [One!Notices!Next]_(One!Notices!notificationVars)
  BY ZenonT(60) DEF Notices!BeginCreation, One!Notices!BeginCreation, Notices!CreationFails,
         One!Notices!CreationFails, Notices!EmitCreated, One!Notices!EmitCreated,
         Notices!Fault, One!Notices!Fault, Notices!FindByDedupeKey,
         One!Notices!FindByDedupeKey, Notices!FindUnread, One!Notices!FindUnread,
         Notices!Ids, One!Notices!Ids, Notices!Insert, One!Notices!Insert,
         Notices!MarkAllAsRead, One!Notices!MarkAllAsRead, Notices!MarkAsRead,
         One!Notices!MarkAsRead, Notices!Next, One!Notices!Next, Notices!NoCreation,
         One!Notices!NoCreation, Notices!NoRequest, One!Notices!NoRequest,
         Notices!notificationVars, One!Notices!notificationVars
<1>3. One!Notices!OnePerKey /\ One!Notices!AnnouncedOnce
      => Notices!OnePerKey /\ Notices!AnnouncedOnce
  BY DEF Notices!AnnouncedOnce, One!Notices!AnnouncedOnce, Notices!Ids,
         One!Notices!Ids, Notices!IsInjective, One!Notices!IsInjective,
         Notices!OnePerKey, One!Notices!OnePerKey, Notices!ToSet, One!Notices!ToSet
<1> QED
  BY <1>1, <1>2, <1>3

LEMMA TwoAdminsFollows ==
    /\ TwoAdmins!Init => One!Orgs!Init
    /\ [TwoAdmins!Next]_(TwoAdmins!organizationVars)
       => [One!Orgs!Next]_(One!Orgs!organizationVars)
    /\ One!Orgs!AdminRemains /\ One!Orgs!MembersAreSets /\ One!Orgs!AccountsAreDistinct
       => TwoAdmins!AdminRemains /\ TwoAdmins!MembersAreSets /\ TwoAdmins!AccountsAreDistinct
<1>1. TwoAdmins!Init => One!Orgs!Init
  BY DEF TwoAdmins!Account, One!Orgs!Account, TwoAdmins!Idle, One!Orgs!Idle,
         TwoAdmins!Init, One!Orgs!Init, TwoAdmins!Row, One!Orgs!Row
<1>2. TwoAdmins!Next => One!Orgs!Next
  <2>1. ASSUME NEW u PROVE TwoAdmins!CallsOf(u) = One!Orgs!CallsOf(u)
    BY DEF TwoAdmins!AddCall, One!Orgs!AddCall, TwoAdmins!Call, One!Orgs!Call,
           TwoAdmins!CallsOf, One!Orgs!CallsOf, TwoAdmins!CreateOrgCall,
           One!Orgs!CreateOrgCall, TwoAdmins!CreateUserCall, One!Orgs!CreateUserCall,
           TwoAdmins!DeactivateCall, One!Orgs!DeactivateCall, TwoAdmins!Idle,
           One!Orgs!Idle, TwoAdmins!RemoveCall, One!Orgs!RemoveCall,
           TwoAdmins!RenameOrgCall, One!Orgs!RenameOrgCall, TwoAdmins!RoleCall,
           One!Orgs!RoleCall, TwoAdmins!Roles, One!Orgs!Roles, TwoAdmins!SwitchOrgCall,
           One!Orgs!SwitchOrgCall
  <2>2. TwoAdmins!Calls = One!Orgs!Calls
    BY <2>1 DEF TwoAdmins!Calls, One!Orgs!Calls, TwoAdmins!Idle, One!Orgs!Idle
  <2>3. ASSUME NEW r
        PROVE  TwoAdmins!Begin(r) => One!Orgs!Begin(r)
    BY <2>2, ZenonT(60) DEF TwoAdmins!At, One!Orgs!At, TwoAdmins!Begin, One!Orgs!Begin,
           TwoAdmins!Creates, One!Orgs!Creates
  <2>4. ASSUME NEW r
        PROVE  /\ TwoAdmins!CountUsers(r) => One!Orgs!CountUsers(r)
               /\ TwoAdmins!CheckEmail(r) => One!Orgs!CheckEmail(r)
               /\ TwoAdmins!CheckAgain(r) => One!Orgs!CheckAgain(r)
               /\ TwoAdmins!FindUser(r) => One!Orgs!FindUser(r)
               /\ TwoAdmins!CheckTarget(r) => One!Orgs!CheckTarget(r)
    BY ZenonT(60) DEF TwoAdmins!At, One!Orgs!At, TwoAdmins!CheckAgain, One!Orgs!CheckAgain,
           TwoAdmins!CheckEmail, One!Orgs!CheckEmail, TwoAdmins!CheckTarget,
           One!Orgs!CheckTarget, TwoAdmins!CountUsers, One!Orgs!CountUsers,
           TwoAdmins!Done, One!Orgs!Done, TwoAdmins!FindUser, One!Orgs!FindUser,
           TwoAdmins!Goto, One!Orgs!Goto, TwoAdmins!Idle, One!Orgs!Idle,
           TwoAdmins!Member, One!Orgs!Member, TwoAdmins!Open, One!Orgs!Open
  <2>5. ASSUME NEW r
        PROVE  /\ TwoAdmins!CheckOrganization(r) => One!Orgs!CheckOrganization(r)
               /\ TwoAdmins!CheckActor(r) => One!Orgs!CheckActor(r)
    BY DEF TwoAdmins!At, One!Orgs!At, TwoAdmins!CheckActor, One!Orgs!CheckActor,
           TwoAdmins!CheckOrganization, One!Orgs!CheckOrganization, TwoAdmins!Done,
           One!Orgs!Done, TwoAdmins!Goto, One!Orgs!Goto, TwoAdmins!Idle, One!Orgs!Idle,
           TwoAdmins!IsAdmin, One!Orgs!IsAdmin, TwoAdmins!Member, One!Orgs!Member,
           TwoAdmins!OnSelf, One!Orgs!OnSelf, TwoAdmins!Open, One!Orgs!Open,
           TwoAdmins!Permitted, One!Orgs!Permitted
  <2>6. ASSUME NEW r
        PROVE  /\ TwoAdmins!InsertUser(r) => One!Orgs!InsertUser(r)
               /\ TwoAdmins!DeactivateUser(r) => One!Orgs!DeactivateUser(r)
    BY DEF TwoAdmins!Account, One!Orgs!Account, TwoAdmins!At, One!Orgs!At,
           TwoAdmins!DeactivateUser, One!Orgs!DeactivateUser, TwoAdmins!Done,
           One!Orgs!Done, TwoAdmins!Excuse, One!Orgs!Excuse, TwoAdmins!Governors,
           One!Orgs!Governors, TwoAdmins!Idle, One!Orgs!Idle, TwoAdmins!InsertUser,
           One!Orgs!InsertUser, TwoAdmins!Reasons, One!Orgs!Reasons
  <2>7. ASSUME NEW r
        PROVE  /\ TwoAdmins!AddMember(r) => One!Orgs!AddMember(r)
               /\ TwoAdmins!RemoveMember(r) => One!Orgs!RemoveMember(r)
               /\ TwoAdmins!ChangeRole(r) => One!Orgs!ChangeRole(r)
    BY DEF TwoAdmins!AddMember, One!Orgs!AddMember, TwoAdmins!At, One!Orgs!At,
           TwoAdmins!ChangeRole, One!Orgs!ChangeRole, TwoAdmins!Done, One!Orgs!Done,
           TwoAdmins!Excuse, One!Orgs!Excuse, TwoAdmins!Governors, One!Orgs!Governors,
           TwoAdmins!HasRow, One!Orgs!HasRow, TwoAdmins!Idle, One!Orgs!Idle,
           TwoAdmins!Member, One!Orgs!Member, TwoAdmins!Reasons, One!Orgs!Reasons,
           TwoAdmins!RemoveMember, One!Orgs!RemoveMember, TwoAdmins!Row, One!Orgs!Row
  <2>8. ASSUME NEW r
        PROVE  /\ TwoAdmins!TrySlug(r) => One!Orgs!TrySlug(r)
               /\ TwoAdmins!CreateOrganization(r) => One!Orgs!CreateOrganization(r)
               /\ TwoAdmins!UpdateOrganization(r) => One!Orgs!UpdateOrganization(r)
    BY DEF TwoAdmins!At, One!Orgs!At, TwoAdmins!CreateOrganization,
           One!Orgs!CreateOrganization, TwoAdmins!Done, One!Orgs!Done,
           TwoAdmins!Excuse, One!Orgs!Excuse, TwoAdmins!Goto, One!Orgs!Goto,
           TwoAdmins!Governors, One!Orgs!Governors, TwoAdmins!Idle, One!Orgs!Idle,
           TwoAdmins!Taken, One!Orgs!Taken, TwoAdmins!TrySlug, One!Orgs!TrySlug,
           TwoAdmins!UpdateOrganization, One!Orgs!UpdateOrganization
  <2>9. ASSUME NEW r
        PROVE  TwoAdmins!RequestFails(r) => One!Orgs!RequestFails(r)
    BY DEF TwoAdmins!At, One!Orgs!At, TwoAdmins!Done, One!Orgs!Done, TwoAdmins!Fault,
           One!Orgs!Fault, TwoAdmins!Idle, One!Orgs!Idle, TwoAdmins!RequestFails,
           One!Orgs!RequestFails
  <2> QED
    BY <2>3, <2>4, <2>5, <2>6, <2>7, <2>8, <2>9
       DEF TwoAdmins!Next, One!Orgs!Next
<1>3. [TwoAdmins!Next]_(TwoAdmins!organizationVars)
       => [One!Orgs!Next]_(One!Orgs!organizationVars)
  BY <1>2 DEF TwoAdmins!organizationVars, One!Orgs!organizationVars
<1>4. One!Orgs!AdminRemains /\ One!Orgs!MembersAreSets /\ One!Orgs!AccountsAreDistinct
      => TwoAdmins!AdminRemains /\ TwoAdmins!MembersAreSets /\ TwoAdmins!AccountsAreDistinct
  BY DEF TwoAdmins!AccountsAreDistinct, One!Orgs!AccountsAreDistinct,
         TwoAdmins!AdminRemains, One!Orgs!AdminRemains, TwoAdmins!Governors,
         One!Orgs!Governors, TwoAdmins!MayEnter, One!Orgs!MayEnter, TwoAdmins!Member,
         One!Orgs!Member, TwoAdmins!MembersAreSets, One!Orgs!MembersAreSets,
         TwoAdmins!MembersOf, One!Orgs!MembersOf, TwoAdmins!Open, One!Orgs!Open,
         TwoAdmins!OrganizationsOf, One!Orgs!OrganizationsOf
<1> QED
  BY <1>1, <1>2, <1>3, <1>4

LEMMA ClonesFollows ==
    /\ Clones!Init => One!Voicing!Init
    /\ [Clones!Next]_(Clones!voiceVars) => [One!Voicing!Next]_(One!Voicing!voiceVars)
    /\ One!Voicing!RowsHaveTheirFiles /\ One!Voicing!NoFileForgotten
       /\ One!Voicing!StreamsTellTheirOutcome
       => Clones!RowsHaveTheirFiles /\ Clones!NoFileForgotten
          /\ Clones!StreamsTellTheirOutcome
<1>1. Clones!Init => One!Voicing!Init
  BY DEF Clones!Idle, One!Voicing!Idle, Clones!Init, One!Voicing!Init
<1>2. [Clones!Next]_(Clones!voiceVars) => [One!Voicing!Next]_(One!Voicing!voiceVars)
  BY ZenonT(60) DEF Clones!At, One!Voicing!At, Clones!BeginClone, One!Voicing!BeginClone,
         Clones!BeginDelete, One!Voicing!BeginDelete, Clones!BeginSpeech,
         One!Voicing!BeginSpeech, Clones!CanAccess, One!Voicing!CanAccess,
         Clones!Cleanup, One!Voicing!Cleanup, Clones!Done, One!Voicing!Done,
         Clones!EmitCompleted, One!Voicing!EmitCompleted, Clones!EmitStarted,
         One!Voicing!EmitStarted, Clones!EndSpeech, One!Voicing!EndSpeech,
         Clones!Fault, One!Voicing!Fault, Clones!Found, One!Voicing!Found, Clones!Goto,
         One!Voicing!Goto, Clones!Idle, One!Voicing!Idle, Clones!Insert,
         One!Voicing!Insert, Clones!Listed, One!Voicing!Listed, Clones!Next,
         One!Voicing!Next, Clones!Provide, One!Voicing!Provide, Clones!Raise,
         One!Voicing!Raise, Clones!Receive, One!Voicing!Receive, Clones!RemoveAsset,
         One!Voicing!RemoveAsset, Clones!RequestFails, One!Voicing!RequestFails,
         Clones!SoftDelete, One!Voicing!SoftDelete, Clones!SpeakChunk,
         One!Voicing!SpeakChunk, Clones!Speaks, One!Voicing!Speaks, Clones!Tell,
         One!Voicing!Tell, Clones!Unclone, One!Voicing!Unclone, Clones!Upload,
         One!Voicing!Upload, Clones!ValidateVoiceAccess,
         One!Voicing!ValidateVoiceAccess, Clones!voiceVars, One!Voicing!voiceVars
<1>3. One!Voicing!RowsHaveTheirFiles /\ One!Voicing!NoFileForgotten
      /\ One!Voicing!StreamsTellTheirOutcome
      => Clones!RowsHaveTheirFiles /\ Clones!NoFileForgotten /\ Clones!StreamsTellTheirOutcome
  BY DEF Clones!NoFileForgotten, One!Voicing!NoFileForgotten,
         Clones!RowsHaveTheirFiles, One!Voicing!RowsHaveTheirFiles,
         Clones!StreamsTellTheirOutcome, One!Voicing!StreamsTellTheirOutcome
<1> QED
  BY <1>1, <1>2, <1>3

Other == INSTANCE ListsProofs WITH
    Requests <- SkillRequests, StockSymbols <- {1}, PageSize <- 1,
    Readers <- {Listener}, Refreshers <- Workers, MaxRefreshes <- 2,
    MaxPageReads <- 2, MaxCatalogFaults <- 0,
    Owners <- {Owner}, ListNames <- {"a", "b"}, ListSymbols <- {1}, MaxLists <- 2,
    MaxListRequests <- 4, MaxListFaults <- 1,
    Keys <- {"completed"}, Creators <- Workers, Clients <- {Listener}, MaxCreations <- 3,
    MaxClientReads <- 2, MaxNoticeFaults <- 1,
    OrgNames <- {"a"}, Emails <- 1 .. 2, Founders <- <<>>, MaxAccounts <- 3,
    MaxOrganizations <- 2, MaxOrgRequests <- 4, MaxOrgFaults <- 1,
    VoiceIds <- {1}, SystemVoices <- {2}, Users <- {1, 2}, Admins <- {}, MaxChunks <- 2,
    MaxVoiceRequests <- 2, MaxVoiceFaults <- 1

LEMMA TwoRefreshesFollows ==
    /\ TwoRefreshes!Init => Other!Catalog!Init
    /\ [TwoRefreshes!Next]_(TwoRefreshes!catalogVars)
       => [Other!Catalog!Next]_(Other!Catalog!catalogVars)
    /\ Other!Catalog!CacheFollowsCatalogue /\ Other!Catalog!OneSnapshot
       => TwoRefreshes!CacheFollowsCatalogue /\ TwoRefreshes!OneSnapshot
<1>1. TwoRefreshes!Init => Other!Catalog!Init
  BY DEF TwoRefreshes!Cardinality, Other!Catalog!Cardinality, TwoRefreshes!Init,
         Other!Catalog!Init, TwoRefreshes!NoRead, Other!Catalog!NoRead,
         TwoRefreshes!NoRefresh, Other!Catalog!NoRefresh, TwoRefreshes!Pages,
         Other!Catalog!Pages
<1>2. [TwoRefreshes!Next]_(TwoRefreshes!catalogVars)
       => [Other!Catalog!Next]_(Other!Catalog!catalogVars)
  BY ZenonT(60) DEF TwoRefreshes!Active, Other!Catalog!Active, TwoRefreshes!Cached,
         Other!Catalog!Cached, TwoRefreshes!Cardinality, Other!Catalog!Cardinality,
         TwoRefreshes!Count, Other!Catalog!Count, TwoRefreshes!ExpirePage,
         Other!Catalog!ExpirePage, TwoRefreshes!Fault, Other!Catalog!Fault,
         TwoRefreshes!Fetch, Other!Catalog!Fetch, TwoRefreshes!Find,
         Other!Catalog!Find, TwoRefreshes!GetPage, Other!Catalog!GetPage,
         TwoRefreshes!IsInjective, Other!Catalog!IsInjective, TwoRefreshes!Keys,
         Other!Catalog!Keys, TwoRefreshes!Next, Other!Catalog!Next,
         TwoRefreshes!NoRead, Other!Catalog!NoRead, TwoRefreshes!NoRefresh,
         Other!Catalog!NoRefresh, TwoRefreshes!PageOf, Other!Catalog!PageOf,
         TwoRefreshes!Pages, Other!Catalog!Pages, TwoRefreshes!ReadSnapshot,
         Other!Catalog!ReadSnapshot, TwoRefreshes!ReadStep, Other!Catalog!ReadStep,
         TwoRefreshes!RefreshFails, Other!Catalog!RefreshFails,
         TwoRefreshes!RefreshStep, Other!Catalog!RefreshStep, TwoRefreshes!Replace,
         Other!Catalog!Replace, TwoRefreshes!Response, Other!Catalog!Response,
         TwoRefreshes!Scan, Other!Catalog!Scan, TwoRefreshes!SetPage,
         Other!Catalog!SetPage, TwoRefreshes!SetToSeq, Other!Catalog!SetToSeq,
         TwoRefreshes!SetToSortSeq, Other!Catalog!SetToSortSeq, TwoRefreshes!Unlink,
         Other!Catalog!Unlink, TwoRefreshes!catalogVars, Other!Catalog!catalogVars
<1>3. Other!Catalog!CacheFollowsCatalogue /\ Other!Catalog!OneSnapshot
      => TwoRefreshes!CacheFollowsCatalogue /\ TwoRefreshes!OneSnapshot
  BY ZenonT(60) DEF TwoRefreshes!Active, Other!Catalog!Active,
     TwoRefreshes!CacheFollowsCatalogue,
         Other!Catalog!CacheFollowsCatalogue, TwoRefreshes!Cached,
         Other!Catalog!Cached, TwoRefreshes!Cardinality, Other!Catalog!Cardinality,
         TwoRefreshes!Current, Other!Catalog!Current, TwoRefreshes!IsInjective,
         Other!Catalog!IsInjective, TwoRefreshes!OneSnapshot,
         Other!Catalog!OneSnapshot, TwoRefreshes!PageOf, Other!Catalog!PageOf,
         TwoRefreshes!Pages, Other!Catalog!Pages, TwoRefreshes!Response,
         Other!Catalog!Response, TwoRefreshes!SetToSeq, Other!Catalog!SetToSeq,
         TwoRefreshes!SetToSortSeq, Other!Catalog!SetToSortSeq
<1> QED
  BY <1>1, <1>2, <1>3

LEMMA NewcomersFollows ==
    /\ Newcomers!Init => Other!Orgs!Init
    /\ [Newcomers!Next]_(Newcomers!organizationVars)
       => [Other!Orgs!Next]_(Other!Orgs!organizationVars)
    /\ Other!Orgs!AdminRemains /\ Other!Orgs!MembersAreSets /\ Other!Orgs!AccountsAreDistinct
       => Newcomers!AdminRemains /\ Newcomers!MembersAreSets /\ Newcomers!AccountsAreDistinct
<1>1. Newcomers!Init => Other!Orgs!Init
  BY DEF Newcomers!Account, Other!Orgs!Account, Newcomers!Idle, Other!Orgs!Idle,
         Newcomers!Init, Other!Orgs!Init, Newcomers!Row, Other!Orgs!Row
<1>2. Newcomers!Next => Other!Orgs!Next
  <2>1. ASSUME NEW u PROVE Newcomers!CallsOf(u) = Other!Orgs!CallsOf(u)
    BY DEF Newcomers!AddCall, Other!Orgs!AddCall, Newcomers!Call, Other!Orgs!Call,
           Newcomers!CallsOf, Other!Orgs!CallsOf, Newcomers!CreateOrgCall,
           Other!Orgs!CreateOrgCall, Newcomers!CreateUserCall,
           Other!Orgs!CreateUserCall, Newcomers!DeactivateCall,
           Other!Orgs!DeactivateCall, Newcomers!Idle, Other!Orgs!Idle,
           Newcomers!RemoveCall, Other!Orgs!RemoveCall, Newcomers!RenameOrgCall,
           Other!Orgs!RenameOrgCall, Newcomers!RoleCall, Other!Orgs!RoleCall,
           Newcomers!Roles, Other!Orgs!Roles, Newcomers!SwitchOrgCall,
           Other!Orgs!SwitchOrgCall
  <2>2. Newcomers!Calls = Other!Orgs!Calls
    BY <2>1 DEF Newcomers!Calls, Other!Orgs!Calls, Newcomers!Idle, Other!Orgs!Idle
  <2>3. ASSUME NEW r
        PROVE  Newcomers!Begin(r) => Other!Orgs!Begin(r)
    BY <2>2, ZenonT(60) DEF Newcomers!At, Other!Orgs!At, Newcomers!Begin, Other!Orgs!Begin,
           Newcomers!Creates, Other!Orgs!Creates
  <2>4. ASSUME NEW r
        PROVE  /\ Newcomers!CountUsers(r) => Other!Orgs!CountUsers(r)
               /\ Newcomers!CheckEmail(r) => Other!Orgs!CheckEmail(r)
               /\ Newcomers!CheckAgain(r) => Other!Orgs!CheckAgain(r)
               /\ Newcomers!FindUser(r) => Other!Orgs!FindUser(r)
               /\ Newcomers!CheckTarget(r) => Other!Orgs!CheckTarget(r)
    BY ZenonT(60) DEF Newcomers!At, Other!Orgs!At, Newcomers!CheckAgain,
       Other!Orgs!CheckAgain,
           Newcomers!CheckEmail, Other!Orgs!CheckEmail, Newcomers!CheckTarget,
           Other!Orgs!CheckTarget, Newcomers!CountUsers, Other!Orgs!CountUsers,
           Newcomers!Done, Other!Orgs!Done, Newcomers!FindUser, Other!Orgs!FindUser,
           Newcomers!Goto, Other!Orgs!Goto, Newcomers!Idle, Other!Orgs!Idle,
           Newcomers!Member, Other!Orgs!Member, Newcomers!Open, Other!Orgs!Open
  <2>5. ASSUME NEW r
        PROVE  /\ Newcomers!CheckOrganization(r) => Other!Orgs!CheckOrganization(r)
               /\ Newcomers!CheckActor(r) => Other!Orgs!CheckActor(r)
    BY DEF Newcomers!At, Other!Orgs!At, Newcomers!CheckActor, Other!Orgs!CheckActor,
           Newcomers!CheckOrganization, Other!Orgs!CheckOrganization, Newcomers!Done,
           Other!Orgs!Done, Newcomers!Goto, Other!Orgs!Goto, Newcomers!Idle,
           Other!Orgs!Idle, Newcomers!IsAdmin, Other!Orgs!IsAdmin, Newcomers!Member,
           Other!Orgs!Member, Newcomers!OnSelf, Other!Orgs!OnSelf, Newcomers!Open,
           Other!Orgs!Open, Newcomers!Permitted, Other!Orgs!Permitted
  <2>6. ASSUME NEW r
        PROVE  /\ Newcomers!InsertUser(r) => Other!Orgs!InsertUser(r)
               /\ Newcomers!DeactivateUser(r) => Other!Orgs!DeactivateUser(r)
    BY DEF Newcomers!Account, Other!Orgs!Account, Newcomers!At, Other!Orgs!At,
           Newcomers!DeactivateUser, Other!Orgs!DeactivateUser, Newcomers!Done,
           Other!Orgs!Done, Newcomers!Excuse, Other!Orgs!Excuse, Newcomers!Governors,
           Other!Orgs!Governors, Newcomers!Idle, Other!Orgs!Idle, Newcomers!InsertUser,
           Other!Orgs!InsertUser, Newcomers!Reasons, Other!Orgs!Reasons
  <2>7. ASSUME NEW r
        PROVE  /\ Newcomers!AddMember(r) => Other!Orgs!AddMember(r)
               /\ Newcomers!RemoveMember(r) => Other!Orgs!RemoveMember(r)
               /\ Newcomers!ChangeRole(r) => Other!Orgs!ChangeRole(r)
    BY DEF Newcomers!AddMember, Other!Orgs!AddMember, Newcomers!At, Other!Orgs!At,
           Newcomers!ChangeRole, Other!Orgs!ChangeRole, Newcomers!Done,
           Other!Orgs!Done, Newcomers!Excuse, Other!Orgs!Excuse, Newcomers!Governors,
           Other!Orgs!Governors, Newcomers!HasRow, Other!Orgs!HasRow, Newcomers!Idle,
           Other!Orgs!Idle, Newcomers!Member, Other!Orgs!Member, Newcomers!Reasons,
           Other!Orgs!Reasons, Newcomers!RemoveMember, Other!Orgs!RemoveMember,
           Newcomers!Row, Other!Orgs!Row
  <2>8. ASSUME NEW r
        PROVE  /\ Newcomers!TrySlug(r) => Other!Orgs!TrySlug(r)
               /\ Newcomers!CreateOrganization(r) => Other!Orgs!CreateOrganization(r)
               /\ Newcomers!UpdateOrganization(r) => Other!Orgs!UpdateOrganization(r)
    BY DEF Newcomers!At, Other!Orgs!At, Newcomers!CreateOrganization,
           Other!Orgs!CreateOrganization, Newcomers!Done, Other!Orgs!Done,
           Newcomers!Excuse, Other!Orgs!Excuse, Newcomers!Goto, Other!Orgs!Goto,
           Newcomers!Governors, Other!Orgs!Governors, Newcomers!Idle, Other!Orgs!Idle,
           Newcomers!Taken, Other!Orgs!Taken, Newcomers!TrySlug, Other!Orgs!TrySlug,
           Newcomers!UpdateOrganization, Other!Orgs!UpdateOrganization
  <2>9. ASSUME NEW r
        PROVE  Newcomers!RequestFails(r) => Other!Orgs!RequestFails(r)
    BY DEF Newcomers!At, Other!Orgs!At, Newcomers!Done, Other!Orgs!Done,
           Newcomers!Fault, Other!Orgs!Fault, Newcomers!Idle, Other!Orgs!Idle,
           Newcomers!RequestFails, Other!Orgs!RequestFails
  <2> QED
    BY <2>3, <2>4, <2>5, <2>6, <2>7, <2>8, <2>9
       DEF Newcomers!Next, Other!Orgs!Next
<1>3. [Newcomers!Next]_(Newcomers!organizationVars)
       => [Other!Orgs!Next]_(Other!Orgs!organizationVars)
  BY <1>2 DEF Newcomers!organizationVars, Other!Orgs!organizationVars
<1>4. Other!Orgs!AdminRemains /\ Other!Orgs!MembersAreSets /\ Other!Orgs!AccountsAreDistinct
      => Newcomers!AdminRemains /\ Newcomers!MembersAreSets /\ Newcomers!AccountsAreDistinct
  BY DEF Newcomers!AccountsAreDistinct, Other!Orgs!AccountsAreDistinct,
         Newcomers!AdminRemains, Other!Orgs!AdminRemains, Newcomers!Governors,
         Other!Orgs!Governors, Newcomers!MayEnter, Other!Orgs!MayEnter,
         Newcomers!Member, Other!Orgs!Member, Newcomers!MembersAreSets,
         Other!Orgs!MembersAreSets, Newcomers!MembersOf, Other!Orgs!MembersOf,
         Newcomers!Open, Other!Orgs!Open, Newcomers!OrganizationsOf,
         Other!Orgs!OrganizationsOf
<1> QED
  BY <1>1, <1>2, <1>3, <1>4

LEMMA SpeechFollows ==
    /\ Speech!Init => Other!Voicing!Init
    /\ [Speech!Next]_(Speech!voiceVars) => [Other!Voicing!Next]_(Other!Voicing!voiceVars)
    /\ Other!Voicing!RowsHaveTheirFiles /\ Other!Voicing!NoFileForgotten
       /\ Other!Voicing!StreamsTellTheirOutcome
       => Speech!RowsHaveTheirFiles /\ Speech!NoFileForgotten
          /\ Speech!StreamsTellTheirOutcome
<1>1. Speech!Init => Other!Voicing!Init
  BY DEF Speech!Idle, Other!Voicing!Idle, Speech!Init, Other!Voicing!Init
<1>2. [Speech!Next]_(Speech!voiceVars) => [Other!Voicing!Next]_(Other!Voicing!voiceVars)
  BY ZenonT(60) DEF Speech!At, Other!Voicing!At, Speech!BeginClone,
     Other!Voicing!BeginClone,
         Speech!BeginDelete, Other!Voicing!BeginDelete, Speech!BeginSpeech,
         Other!Voicing!BeginSpeech, Speech!CanAccess, Other!Voicing!CanAccess,
         Speech!Cleanup, Other!Voicing!Cleanup, Speech!Done, Other!Voicing!Done,
         Speech!EmitCompleted, Other!Voicing!EmitCompleted, Speech!EmitStarted,
         Other!Voicing!EmitStarted, Speech!EndSpeech, Other!Voicing!EndSpeech,
         Speech!Fault, Other!Voicing!Fault, Speech!Found, Other!Voicing!Found,
         Speech!Goto, Other!Voicing!Goto, Speech!Idle, Other!Voicing!Idle,
         Speech!Insert, Other!Voicing!Insert, Speech!Listed, Other!Voicing!Listed,
         Speech!Next, Other!Voicing!Next, Speech!Provide, Other!Voicing!Provide,
         Speech!Raise, Other!Voicing!Raise, Speech!Receive, Other!Voicing!Receive,
         Speech!RemoveAsset, Other!Voicing!RemoveAsset, Speech!RequestFails,
         Other!Voicing!RequestFails, Speech!SoftDelete, Other!Voicing!SoftDelete,
         Speech!SpeakChunk, Other!Voicing!SpeakChunk, Speech!Speaks,
         Other!Voicing!Speaks, Speech!Tell, Other!Voicing!Tell, Speech!Unclone,
         Other!Voicing!Unclone, Speech!Upload, Other!Voicing!Upload,
         Speech!ValidateVoiceAccess, Other!Voicing!ValidateVoiceAccess,
         Speech!voiceVars, Other!Voicing!voiceVars
<1>3. Other!Voicing!RowsHaveTheirFiles /\ Other!Voicing!NoFileForgotten
      /\ Other!Voicing!StreamsTellTheirOutcome
      => Speech!RowsHaveTheirFiles /\ Speech!NoFileForgotten /\ Speech!StreamsTellTheirOutcome
  BY DEF Speech!NoFileForgotten, Other!Voicing!NoFileForgotten,
         Speech!RowsHaveTheirFiles, Other!Voicing!RowsHaveTheirFiles,
         Speech!StreamsTellTheirOutcome, Other!Voicing!StreamsTellTheirOutcome
<1> QED
  BY <1>1, <1>2, <1>3

\* The constants of the instances are what the invariants ask for.
LEMMA ListsFit ==
    ASSUME PlatformSetup
    PROVE  /\ One!OrgsSetup /\ Other!OrgsSetup
           /\ One!VoicesSetup /\ Other!VoicesSetup
<1>1. One!OrgsSetup
  BY DEF PlatformSetup, One!OrgsSetup, One!Slugs
<1>2. Other!OrgsSetup
  BY DEF PlatformSetup, Other!OrgsSetup, Other!Slugs
<1>3. One!VoicesSetup /\ Other!VoicesSetup
  BY DEF PlatformSetup, One!VoicesSetup, Other!VoicesSetup
<1> QED
  BY <1>1, <1>2, <1>3

-----------------------------------------------------------------------------
\* Images, lists and voices: the invariant of the component that is followed.
ImagesKept == focus = "images" => IInv /\ LiveJobsTracked /\ LibraryFits
CatalogueKept ==
    /\ focus = "two_pages" => One!CatalogSound
    /\ focus = "two_refreshes" => Other!CatalogSound
WatchlistsKept == focus = "watchlists" => One!ListsSound
NoticesKept == focus = "notifications" => One!NoticesSound
OrganizationsKept ==
    /\ focus = "two_admins" => One!OrgsSound
    /\ focus = "newcomers" => Other!OrgsSound
VoicesKept ==
    /\ focus = "clones" => One!VoicesSound
    /\ focus = "speech" => Other!VoicesSound
ListsInvariant ==
    ImagesKept /\ CatalogueKept /\ WatchlistsKept /\ NoticesKept /\ OrganizationsKept /\ VoicesKept

LEMMA ListsStart == PlatformSetup /\ PlatformInit => ListsInvariant
<1> SUFFICES ASSUME PlatformSetup, PlatformInit PROVE ListsInvariant
  OBVIOUS
<1>1. ImagesKept
  BY InitFollowsFocus, InitInvariant, InitTracked, InitLibrary DEF ImagesKept
<1>2. CatalogueKept
  BY InitFollowsFocus, TwoPagesFollows, One!CatalogSoundInit, TwoRefreshesFollows,
     Other!CatalogSoundInit
     DEF CatalogueKept
<1>3. WatchlistsKept
  BY InitFollowsFocus, ListsFollows, One!ListsSoundInit
     DEF WatchlistsKept
<1>4. NoticesKept
  BY InitFollowsFocus, NoticesFollows, One!NoticesSoundInit
     DEF NoticesKept
<1>5. OrganizationsKept
  BY InitFollowsFocus, TwoAdminsFollows, One!OrgsSoundInit, NewcomersFollows,
     Other!OrgsSoundInit, ListsFit
     DEF OrganizationsKept
<1>6. VoicesKept
  BY InitFollowsFocus, ClonesFollows, One!VoicesSoundInit, SpeechFollows,
     Other!VoicesSoundInit, ListsFit
     DEF VoicesKept
<1> QED
  BY <1>1, <1>2, <1>3, <1>4, <1>5, <1>6 DEF ListsInvariant

LEMMA ListsContinue ==
    PlatformSetup /\ ListsInvariant /\ [PlatformNext]_platformVars => ListsInvariant'
<1> SUFFICES ASSUME PlatformSetup, ListsInvariant, [PlatformNext]_platformVars
             PROVE  ListsInvariant'
  OBVIOUS
<1>1. ImagesKept'
  BY StepFollowsFocus, NextInvariant, NextTracks, NextLibrary DEF ListsInvariant, ImagesKept
<1>2. CatalogueKept'
  BY StepFollowsFocus, TwoPagesFollows, One!CatalogSoundStep, TwoRefreshesFollows,
     Other!CatalogSoundStep
     DEF ListsInvariant, CatalogueKept
<1>3. WatchlistsKept'
  BY StepFollowsFocus, ListsFollows, One!ListsSoundStep
     DEF ListsInvariant, WatchlistsKept
<1>4. NoticesKept'
  BY StepFollowsFocus, NoticesFollows, One!NoticesSoundStep
     DEF ListsInvariant, NoticesKept
<1>5. OrganizationsKept'
  BY StepFollowsFocus, TwoAdminsFollows, One!OrgsSoundStep, NewcomersFollows,
     Other!OrgsSoundStep, ListsFit
     DEF ListsInvariant, OrganizationsKept
<1>6. VoicesKept'
  BY StepFollowsFocus, ClonesFollows, One!VoicesSoundStep, SpeechFollows,
     Other!VoicesSoundStep, ListsFit
     DEF ListsInvariant, VoicesKept
<1> QED
  BY <1>1, <1>2, <1>3, <1>4, <1>5, <1>6 DEF ListsInvariant

LEMMA ListsAreTold == PlatformSetup /\ ListsInvariant => ListsConsistent
<1> SUFFICES ASSUME PlatformSetup, ListsInvariant PROVE ListsConsistent
  OBVIOUS
<1>1. focus = "two_pages" => TwoPages!CacheFollowsCatalogue /\ TwoPages!OneSnapshot
  BY TwoPagesFollows, One!CatalogSoundTells DEF ListsInvariant, CatalogueKept
<1>2. focus = "two_refreshes" => TwoRefreshes!CacheFollowsCatalogue /\ TwoRefreshes!OneSnapshot
  BY TwoRefreshesFollows, Other!CatalogSoundTells DEF ListsInvariant, CatalogueKept
<1>3. focus = "watchlists" => Lists!OrphansAreRaces /\ Lists!ListsAreSets
  BY ListsFollows, One!ListsSoundTells DEF ListsInvariant, WatchlistsKept
<1>4. focus = "notifications" => Notices!OnePerKey /\ Notices!AnnouncedOnce
  BY NoticesFollows, One!NoticesSoundTells DEF ListsInvariant, NoticesKept
<1>5. focus = "two_admins" => TwoAdmins!AdminRemains /\ TwoAdmins!MembersAreSets
                          /\ TwoAdmins!AccountsAreDistinct
  BY TwoAdminsFollows, One!OrgsSoundTells, ListsFit DEF ListsInvariant, OrganizationsKept
<1>6. focus = "newcomers" => Newcomers!AdminRemains /\ Newcomers!MembersAreSets
                          /\ Newcomers!AccountsAreDistinct
  BY NewcomersFollows, Other!OrgsSoundTells, ListsFit DEF ListsInvariant, OrganizationsKept
<1> QED
  BY <1>1, <1>2, <1>3, <1>4, <1>5, <1>6 DEF ListsConsistent

LEMMA FilesAreTold == PlatformSetup /\ ListsInvariant => StoredFilesKept
<1> SUFFICES ASSUME PlatformSetup, ListsInvariant PROVE StoredFilesKept
  OBVIOUS
<1>1. focus = "images" => LiveJobIsTracked /\ NoBrokenImage
  BY TrackedTells, LibraryTells DEF ListsInvariant, ImagesKept
<1>2. focus = "clones" => Clones!RowsHaveTheirFiles /\ Clones!NoFileForgotten
                          /\ Clones!StreamsTellTheirOutcome
  BY ClonesFollows, One!VoicesSoundTells, ListsFit DEF ListsInvariant, VoicesKept
<1>3. focus = "speech" => Speech!RowsHaveTheirFiles /\ Speech!NoFileForgotten
                          /\ Speech!StreamsTellTheirOutcome
  BY SpeechFollows, Other!VoicesSoundTells, ListsFit DEF ListsInvariant, VoicesKept
<1> QED
  BY <1>1, <1>2, <1>3 DEF StoredFilesKept

\* Whatever requests overlap, the lists behind a check and a write stay as
\* ListsConsistent says: in the catalogue, watchlists, notifications and
\* organizations of the platform.
THEOREM ListsStayConsistent ==
    ASSUME PlatformSetup
    PROVE  PlatformSpec => []ListsConsistent
<1> USE PlatformSetup
<1> QED
  BY ListsStart, ListsContinue, ListsAreTold, PTL DEF PlatformSpec

\* Whatever fails and however requests interleave, pictures and voices that are
\* listed have their files, no other voice's file is forgotten, and no live
\* image job is out of sight.
THEOREM FilesStayKept ==
    ASSUME PlatformSetup
    PROVE  PlatformSpec => []StoredFilesKept
<1> USE PlatformSetup
<1> QED
  BY ListsStart, ListsContinue, FilesAreTold, PTL DEF PlatformSpec

-----------------------------------------------------------------------------
\* Sheet sync and the interview, with each of their two bounds.
OneSync == INSTANCE ServicesProofs WITH
    SyncWorkers <- {CHOOSE w \in Workers : TRUE}, SheetUsers <- Users, SheetOwner <- Owner,
    DataStart <- 2, MaxRetries <- 1, MaxRows <- 3, MaxSyncs <- 1, MaxSyncFaults <- 1,
    MaxStreams <- 1, Channels <- {0, 1}, Interviewer <- 0, MaxRecent <- 1, SaveAttempts <- 1,
    MaxEvents <- 4, MaxTalkFaults <- 0

LEMMA SheetsFollows ==
    /\ Sheets!Init => OneSync!Sync!Init
    /\ [Sheets!Next]_(Sheets!vars) => [OneSync!Sync!Next]_(OneSync!Sync!vars)
    /\ OneSync!Sync!NoRowSkipped /\ OneSync!Sync!TotalCountsRows
       /\ OneSync!Sync!CacheCoversWatermark
       => Sheets!NoRowSkipped /\ Sheets!TotalCountsRows /\ Sheets!CacheCoversWatermark
<1>1. Sheets!Init => OneSync!Sync!Init
  BY DEF Sheets!Idle, OneSync!Sync!Idle, Sheets!Init, OneSync!Sync!Init, Sheets!Rows,
         OneSync!Sync!Rows
<1>2. [Sheets!Next]_(Sheets!vars) => [OneSync!Sync!Next]_(OneSync!Sync!vars)
  BY ZenonT(60) DEF Sheets!AppendRow, OneSync!Sync!AppendRow, Sheets!Ask, OneSync!Sync!Ask,
         Sheets!At, OneSync!Sync!At, Sheets!BeginDelete, OneSync!Sync!BeginDelete,
         Sheets!CacheAnalytics, OneSync!Sync!CacheAnalytics, Sheets!ComputeAnalytics,
         OneSync!Sync!ComputeAnalytics, Sheets!Crash, OneSync!Sync!Crash,
         Sheets!CreateConnection, OneSync!Sync!CreateConnection,
         Sheets!DeleteConnection, OneSync!Sync!DeleteConnection, Sheets!DeleteData,
         OneSync!Sync!DeleteData, Sheets!DeleteState, OneSync!Sync!DeleteState,
         Sheets!Dequeue, OneSync!Sync!Dequeue, Sheets!Enqueue, OneSync!Sync!Enqueue,
         Sheets!EnqueueAll, OneSync!Sync!EnqueueAll, Sheets!Exists,
         OneSync!Sync!Exists, Sheets!ExpireCache, OneSync!Sync!ExpireCache,
         Sheets!Fault, OneSync!Sync!Fault, Sheets!FetchRows, OneSync!Sync!FetchRows,
         Sheets!FillRow, OneSync!Sync!FillRow, Sheets!FindConnection,
         OneSync!Sync!FindConnection, Sheets!Goto, OneSync!Sync!Goto,
         Sheets!HandleFailedTask, OneSync!Sync!HandleFailedTask, Sheets!Idle,
         OneSync!Sync!Idle, Sheets!Invalidate, OneSync!Sync!Invalidate,
         Sheets!MarkSyncing, OneSync!Sync!MarkSyncing, Sheets!Next, OneSync!Sync!Next,
         Sheets!NoFault, OneSync!Sync!NoFault, Sheets!Owned, OneSync!Sync!Owned,
         Sheets!ReadState, OneSync!Sync!ReadState, Sheets!Release,
         OneSync!Sync!Release, Sheets!Request, OneSync!Sync!Request, Sheets!Rows,
         OneSync!Sync!Rows, Sheets!StartRow, OneSync!Sync!StartRow, Sheets!StoreRow,
         OneSync!Sync!StoreRow, Sheets!StoredRows, OneSync!Sync!StoredRows,
         Sheets!SyncStatus, OneSync!Sync!SyncStatus, Sheets!Syncing,
         OneSync!Sync!Syncing, Sheets!TriggerSync, OneSync!Sync!TriggerSync,
         Sheets!UpdateConnection, OneSync!Sync!UpdateConnection, Sheets!Work,
         OneSync!Sync!Work, Sheets!WriteFailed, OneSync!Sync!WriteFailed,
         Sheets!WriteState, OneSync!Sync!WriteState, Sheets!WriteSuccess,
         OneSync!Sync!WriteSuccess, Sheets!vars, OneSync!Sync!vars
<1>3. OneSync!Sync!NoRowSkipped /\ OneSync!Sync!TotalCountsRows
      /\ OneSync!Sync!CacheCoversWatermark
      => Sheets!NoRowSkipped /\ Sheets!TotalCountsRows /\ Sheets!CacheCoversWatermark
  BY DEF Sheets!At, OneSync!Sync!At, Sheets!CacheCoversWatermark,
         OneSync!Sync!CacheCoversWatermark, Sheets!Cardinality,
         OneSync!Sync!Cardinality, Sheets!NoRowSkipped, OneSync!Sync!NoRowSkipped,
         Sheets!Rows, OneSync!Sync!Rows, Sheets!StoredRows, OneSync!Sync!StoredRows,
         Sheets!TotalCountsRows, OneSync!Sync!TotalCountsRows
<1> QED
  BY <1>1, <1>2, <1>3

LEMMA TwoChannelsFollows ==
    /\ TwoChannels!Init => OneSync!Talk!Init
    /\ [TwoChannels!Next]_(TwoChannels!interviewVars)
       => [OneSync!Talk!Next]_(OneSync!Talk!interviewVars)
    /\ OneSync!Talk!PendingTurnIsQuiet /\ OneSync!Talk!TurnsKept
          /\ OneSync!Talk!DeferredBelongsToSession
       => TwoChannels!PendingTurnIsQuiet /\ TwoChannels!TurnsKept
          /\ TwoChannels!DeferredBelongsToSession
<1>1. TwoChannels!Init => OneSync!Talk!Init
  BY DEF TwoChannels!Idle, OneSync!Talk!Idle, TwoChannels!Init, OneSync!Talk!Init,
         TwoChannels!NewSession, OneSync!Talk!NewSession, TwoChannels!Streams,
         OneSync!Talk!Streams, TwoChannels!Tasks, OneSync!Talk!Tasks
<1>2. TwoChannels!Next => OneSync!Talk!Next
  <2>1. \A S, e : TwoChannels!Heard(S, e) = OneSync!Talk!Heard(S, e)
    BY DEF TwoChannels!Discarded, OneSync!Talk!Discarded, TwoChannels!Heard,
           OneSync!Talk!Heard, TwoChannels!HeardActivity, OneSync!Talk!HeardActivity,
           TwoChannels!HeardClose, OneSync!Talk!HeardClose, TwoChannels!HeardEnd,
           OneSync!Talk!HeardEnd, TwoChannels!HeardFinal, OneSync!Talk!HeardFinal
  <2>2. \A s, S : /\ TwoChannels!CloseDue(S) = OneSync!Talk!CloseDue(S)
                  /\ TwoChannels!DueTurns(s, S) = OneSync!Talk!DueTurns(s, S)
    BY DEF TwoChannels!Cardinality, OneSync!Talk!Cardinality, TwoChannels!CloseDue,
           OneSync!Talk!CloseDue, TwoChannels!DueChannels, OneSync!Talk!DueChannels,
           TwoChannels!DueTurns, OneSync!Talk!DueTurns
  <2>3. ASSUME NEW s, NEW es PROVE TwoChannels!Consumed(s, es) = OneSync!Talk!Consumed(s, es)
    <3> DEFINE First == [sess |-> session[s], closed |-> <<>>]
               Due(acc, S) == [sess |-> OneSync!Talk!CloseDue(S),
                               closed |-> acc.closed \o OneSync!Talk!DueTurns(s, S)]
               Then(acc, e) == Due(acc, OneSync!Talk!Heard(acc.sess, e))
               Folds(iter) == iter = [D \in SUBSET DOMAIN es |->
                    IF D = {} THEN First
                    ELSE Then(iter[D \ {OneSync!Talk!Max(D)}], es[OneSync!Talk!Max(D)])]
               Due2(acc, S) == [sess |-> TwoChannels!CloseDue(S),
                               closed |-> acc.closed \o TwoChannels!DueTurns(s, S)]
               Then2(acc, e) == Due2(acc, TwoChannels!Heard(acc.sess, e))
               Folds2(iter) == iter = [D \in SUBSET DOMAIN es |->
                    IF D = {} THEN First
                    ELSE Then2(iter[D \ {TwoChannels!Max(D)}], es[TwoChannels!Max(D)])]
    <3>1. OneSync!Talk!Consumed(s, es) = (CHOOSE iter : Folds(iter))[DOMAIN es]
      BY DEF OneSync!Talk!Consumed, OneSync!Talk!FoldLeft, OneSync!Talk!MapThenFoldSet
    <3>2. TwoChannels!Consumed(s, es) = (CHOOSE iter : Folds2(iter))[DOMAIN es]
      BY DEF TwoChannels!Consumed, TwoChannels!FoldLeft, TwoChannels!MapThenFoldSet
    <3>3. \A acc, e : Then2(acc, e) = Then(acc, e)
      BY <2>1, <2>2, ZenonT(60)
    <3>4. \A D : TwoChannels!Max(D) = OneSync!Talk!Max(D)
      BY DEF TwoChannels!Max, OneSync!Talk!Max
    <3>5. ASSUME NEW iter PROVE Folds2(iter) <=> Folds(iter)
      <4> HIDE DEF Then, Then2, First
      <4> QED
        BY <3>3, <3>4
    <3> HIDE DEF Folds, Folds2
    <3>6. (CHOOSE iter : Folds2(iter)) = (CHOOSE iter : Folds(iter))
      BY <3>5, ZenonT(60)
    <3> QED
      BY <3>1, <3>2, <3>6, ZenonT(60)
  <2>4. \A t, r, es : TwoChannels!Apply(t, r, es) <=> OneSync!Talk!Apply(t, r, es)
    BY SMTT(30) DEF TwoChannels!Apply, OneSync!Talk!Apply
  <2>5. ASSUME NEW t
        PROVE  /\ TwoChannels!Start(t) => OneSync!Talk!Start(t)
               /\ TwoChannels!PushAudio(t) => OneSync!Talk!PushAudio(t)
               /\ TwoChannels!SendAudio(t) => OneSync!Talk!SendAudio(t)
               /\ TwoChannels!Finalize(t) => OneSync!Talk!Finalize(t)
               /\ TwoChannels!Stop(t) => OneSync!Talk!Stop(t)
               /\ TwoChannels!Disconnect(t) => OneSync!Talk!Disconnect(t)
    BY DEF TwoChannels!Active, OneSync!Talk!Active, TwoChannels!At, OneSync!Talk!At,
           TwoChannels!Begin, OneSync!Talk!Begin, TwoChannels!Cardinality,
           OneSync!Talk!Cardinality, TwoChannels!Disconnect, OneSync!Talk!Disconnect,
           TwoChannels!End, OneSync!Talk!End, TwoChannels!Finalize,
           OneSync!Talk!Finalize, TwoChannels!Goto, OneSync!Talk!Goto,
           TwoChannels!Idle, OneSync!Talk!Idle, TwoChannels!Live, OneSync!Talk!Live,
           TwoChannels!NewSession, OneSync!Talk!NewSession, TwoChannels!PushAudio,
           OneSync!Talk!PushAudio, TwoChannels!Request, OneSync!Talk!Request,
           TwoChannels!Running, OneSync!Talk!Running, TwoChannels!SendAudio,
           OneSync!Talk!SendAudio, TwoChannels!Start, OneSync!Talk!Start,
           TwoChannels!Stop, OneSync!Talk!Stop, TwoChannels!Streams,
           OneSync!Talk!Streams, TwoChannels!Tasks, OneSync!Talk!Tasks,
           TwoChannels!turnVars, OneSync!Talk!turnVars
  <2>6. ASSUME NEW t
        PROVE  /\ TwoChannels!Opened(t) => OneSync!Talk!Opened(t)
               /\ TwoChannels!OpenFails(t) => OneSync!Talk!OpenFails(t)
               /\ TwoChannels!Sent(t) => OneSync!Talk!Sent(t)
               /\ TwoChannels!SendFails(t) => OneSync!Talk!SendFails(t)
    BY DEF TwoChannels!At, OneSync!Talk!At, TwoChannels!End, OneSync!Talk!End,
           TwoChannels!Fault, OneSync!Talk!Fault, TwoChannels!Goto, OneSync!Talk!Goto,
           TwoChannels!Idle, OneSync!Talk!Idle, TwoChannels!OpenFails,
           OneSync!Talk!OpenFails, TwoChannels!Opened, OneSync!Talk!Opened,
           TwoChannels!RemoveSession, OneSync!Talk!RemoveSession, TwoChannels!Running,
           OneSync!Talk!Running, TwoChannels!SendFails, OneSync!Talk!SendFails,
           TwoChannels!Sent, OneSync!Talk!Sent, TwoChannels!Tasks, OneSync!Talk!Tasks,
           TwoChannels!turnVars, OneSync!Talk!turnVars
  <2>7. ASSUME NEW t
        PROVE  /\ TwoChannels!Closed(t) => OneSync!Talk!Closed(t)
               /\ TwoChannels!FailSession(t) => OneSync!Talk!FailSession(t)
               /\ TwoChannels!CloseFinalized(t) => OneSync!Talk!CloseFinalized(t)
    BY DEF TwoChannels!At, OneSync!Talk!At, TwoChannels!CloseEvent,
           OneSync!Talk!CloseEvent, TwoChannels!CloseFinalized,
           OneSync!Talk!CloseFinalized, TwoChannels!CloseLink, OneSync!Talk!CloseLink,
           TwoChannels!Closed, OneSync!Talk!Closed, TwoChannels!Discarded,
           OneSync!Talk!Discarded, TwoChannels!FailSession, OneSync!Talk!FailSession,
           TwoChannels!Goto, OneSync!Talk!Goto, TwoChannels!RemoveSession,
           OneSync!Talk!RemoveSession, TwoChannels!Running, OneSync!Talk!Running,
           TwoChannels!Tasks, OneSync!Talk!Tasks, TwoChannels!turnVars,
           OneSync!Talk!turnVars
  <2>8. ASSUME NEW t
        PROVE  /\ TwoChannels!Collect(t) => OneSync!Talk!Collect(t)
               /\ TwoChannels!EventComes(t) => OneSync!Talk!EventComes(t)
               /\ TwoChannels!WaitTimesOut(t) => OneSync!Talk!WaitTimesOut(t)
    BY <2>2, <2>3, <2>4 DEF TwoChannels!Active, OneSync!Talk!Active, TwoChannels!At,
       OneSync!Talk!At,
           TwoChannels!Collect, OneSync!Talk!Collect, TwoChannels!DueResult,
           OneSync!Talk!DueResult, TwoChannels!EventComes, OneSync!Talk!EventComes,
           TwoChannels!Fault, OneSync!Talk!Fault, TwoChannels!Goto, OneSync!Talk!Goto,
           TwoChannels!Running, OneSync!Talk!Running, TwoChannels!Tasks,
           OneSync!Talk!Tasks, TwoChannels!WaitTimesOut, OneSync!Talk!WaitTimesOut,
           TwoChannels!Waits, OneSync!Talk!Waits
  <2>9. ASSUME NEW t
        PROVE  /\ TwoChannels!StoreTurn(t) => OneSync!Talk!StoreTurn(t)
               /\ TwoChannels!StoreFails(t) => OneSync!Talk!StoreFails(t)
    BY DEF TwoChannels!Active, OneSync!Talk!Active, TwoChannels!AfterAppend,
           OneSync!Talk!AfterAppend, TwoChannels!At, OneSync!Talk!At,
           TwoChannels!Fault, OneSync!Talk!Fault, TwoChannels!Running,
           OneSync!Talk!Running, TwoChannels!StoreFails, OneSync!Talk!StoreFails,
           TwoChannels!StoreTurn, OneSync!Talk!StoreTurn, TwoChannels!Tasks,
           OneSync!Talk!Tasks
  <2>10. ASSUME NEW t, TwoChannels!DrainFinalized(t) PROVE OneSync!Talk!DrainFinalized(t)
    BY <2>10, <2>3, ZenonT(60) DEF TwoChannels!At, OneSync!Talk!At, TwoChannels!CloseEvent,
           OneSync!Talk!CloseEvent, TwoChannels!DrainFinalized,
           OneSync!Talk!DrainFinalized, TwoChannels!Goto, OneSync!Talk!Goto,
           TwoChannels!Running, OneSync!Talk!Running, TwoChannels!Tasks,
           OneSync!Talk!Tasks, TwoChannels!ToSet, OneSync!Talk!ToSet
  <2>11. ASSUME NEW t, TwoChannels!Finish(t) PROVE OneSync!Talk!Finish(t)
    BY <2>11, ZenonT(60) DEF TwoChannels!Active, OneSync!Talk!Active, TwoChannels!At,
       OneSync!Talk!At,
           TwoChannels!Finish, OneSync!Talk!Finish, TwoChannels!Idle,
           OneSync!Talk!Idle, TwoChannels!RemoveSession, OneSync!Talk!RemoveSession,
           TwoChannels!Running, OneSync!Talk!Running, TwoChannels!Tasks,
           OneSync!Talk!Tasks, TwoChannels!ToSet, OneSync!Talk!ToSet
  <2>12. /\ TwoChannels!Listen => OneSync!Talk!Listen
         /\ TwoChannels!Reap => OneSync!Talk!Reap
    BY ZenonT(60) DEF TwoChannels!Active, OneSync!Talk!Active, TwoChannels!At,
       OneSync!Talk!At,
           TwoChannels!Begin, OneSync!Talk!Begin, TwoChannels!Fault,
           OneSync!Talk!Fault, TwoChannels!Idle, OneSync!Talk!Idle, TwoChannels!Listen,
           OneSync!Talk!Listen, TwoChannels!Reap, OneSync!Talk!Reap,
           TwoChannels!RemoveSession, OneSync!Talk!RemoveSession, TwoChannels!Running,
           OneSync!Talk!Running, TwoChannels!Tasks, OneSync!Talk!Tasks,
           TwoChannels!turnVars, OneSync!Talk!turnVars
  <2>13. ASSUME NEW t, NEW s, NEW c
        PROVE  /\ TwoChannels!Produce(t) => OneSync!Talk!Produce(t)
               /\ TwoChannels!ProviderCloses(t) => OneSync!Talk!ProviderCloses(t)
               /\ TwoChannels!GraceElapses(s, c) => OneSync!Talk!GraceElapses(s, c)
               /\ TwoChannels!AnswerEnds(t) => OneSync!Talk!AnswerEnds(t)
               /\ TwoChannels!SaveTurn(t) => OneSync!Talk!SaveTurn(t)
               /\ TwoChannels!SaveFails(t) => OneSync!Talk!SaveFails(t)
    BY ZenonT(60) DEF TwoChannels!AnswerEnds, OneSync!Talk!AnswerEnds,
       TwoChannels!ChannelKinds,
           OneSync!Talk!ChannelKinds, TwoChannels!CloseEvent, OneSync!Talk!CloseEvent,
           TwoChannels!Fault, OneSync!Talk!Fault, TwoChannels!GraceElapses,
           OneSync!Talk!GraceElapses, TwoChannels!Produce, OneSync!Talk!Produce,
           TwoChannels!ProviderCloses, OneSync!Talk!ProviderCloses,
           TwoChannels!Running, OneSync!Talk!Running, TwoChannels!SaveFails,
           OneSync!Talk!SaveFails, TwoChannels!SaveTurn, OneSync!Talk!SaveTurn,
           TwoChannels!Tasks, OneSync!Talk!Tasks, TwoChannels!Watched,
           OneSync!Talk!Watched, TwoChannels!turnVars, OneSync!Talk!turnVars
  <2>14. ASSUME NEW t PROVE TwoChannels!Coroutine(t) => OneSync!Talk!Coroutine(t)
    BY <2>5, <2>6, <2>7, <2>8, <2>9, <2>10, <2>11 DEF TwoChannels!Coroutine,
       OneSync!Talk!Coroutine
  <2> QED
    BY <2>12, <2>13, <2>14
       DEF TwoChannels!Next, OneSync!Talk!Next, TwoChannels!Tasks, OneSync!Talk!Tasks,
           TwoChannels!Streams, OneSync!Talk!Streams
<1>3. [TwoChannels!Next]_(TwoChannels!interviewVars)
       => [OneSync!Talk!Next]_(OneSync!Talk!interviewVars)
  BY <1>2 DEF TwoChannels!interviewVars, OneSync!Talk!interviewVars, TwoChannels!turnVars,
         OneSync!Talk!turnVars
<1>4. OneSync!Talk!PendingTurnIsQuiet /\ OneSync!Talk!TurnsKept
         /\ OneSync!Talk!DeferredBelongsToSession
      => TwoChannels!PendingTurnIsQuiet /\ TwoChannels!TurnsKept
         /\ TwoChannels!DeferredBelongsToSession
  BY ZenonT(60)
     DEF TwoChannels!DeferredBelongsToSession, OneSync!Talk!DeferredBelongsToSession,
         TwoChannels!Distinct, OneSync!Talk!Distinct, TwoChannels!PendingTurnIsQuiet,
         OneSync!Talk!PendingTurnIsQuiet, TwoChannels!Streams, OneSync!Talk!Streams,
         TwoChannels!Tasks, OneSync!Talk!Tasks, TwoChannels!ToSet, OneSync!Talk!ToSet,
         TwoChannels!TurnsKept, OneSync!Talk!TurnsKept
<1> QED
  BY <1>1, <1>3, <1>4

TwoSyncs == INSTANCE ServicesProofs WITH
    SyncWorkers <- Workers, SheetUsers <- Users, SheetOwner <- Owner,
    DataStart <- 2, MaxRetries <- 0, MaxRows <- 2, MaxSyncs <- 2, MaxSyncFaults <- 0,
    MaxStreams <- 2, Channels <- {0}, Interviewer <- 0, MaxRecent <- 1, SaveAttempts <- 1,
    MaxEvents <- 2, MaxTalkFaults <- 1

LEMMA TwoWorkersFollows ==
    /\ TwoWorkers!Init => TwoSyncs!Sync!Init
    /\ [TwoWorkers!Next]_(TwoWorkers!vars) => [TwoSyncs!Sync!Next]_(TwoSyncs!Sync!vars)
    /\ TwoSyncs!Sync!NoRowSkipped /\ TwoSyncs!Sync!TotalCountsRows
       /\ TwoSyncs!Sync!CacheCoversWatermark
       => TwoWorkers!NoRowSkipped /\ TwoWorkers!TotalCountsRows
          /\ TwoWorkers!CacheCoversWatermark
<1>1. TwoWorkers!Init => TwoSyncs!Sync!Init
  BY DEF TwoWorkers!Idle, TwoSyncs!Sync!Idle, TwoWorkers!Init, TwoSyncs!Sync!Init,
         TwoWorkers!Rows, TwoSyncs!Sync!Rows
<1>2. [TwoWorkers!Next]_(TwoWorkers!vars) => [TwoSyncs!Sync!Next]_(TwoSyncs!Sync!vars)
  BY ZenonT(60) DEF TwoWorkers!AppendRow, TwoSyncs!Sync!AppendRow, TwoWorkers!Ask,
         TwoSyncs!Sync!Ask, TwoWorkers!At, TwoSyncs!Sync!At, TwoWorkers!BeginDelete,
         TwoSyncs!Sync!BeginDelete, TwoWorkers!CacheAnalytics,
         TwoSyncs!Sync!CacheAnalytics, TwoWorkers!ComputeAnalytics,
         TwoSyncs!Sync!ComputeAnalytics, TwoWorkers!Crash, TwoSyncs!Sync!Crash,
         TwoWorkers!CreateConnection, TwoSyncs!Sync!CreateConnection,
         TwoWorkers!DeleteConnection, TwoSyncs!Sync!DeleteConnection,
         TwoWorkers!DeleteData, TwoSyncs!Sync!DeleteData, TwoWorkers!DeleteState,
         TwoSyncs!Sync!DeleteState, TwoWorkers!Dequeue, TwoSyncs!Sync!Dequeue,
         TwoWorkers!Enqueue, TwoSyncs!Sync!Enqueue, TwoWorkers!EnqueueAll,
         TwoSyncs!Sync!EnqueueAll, TwoWorkers!Exists, TwoSyncs!Sync!Exists,
         TwoWorkers!ExpireCache, TwoSyncs!Sync!ExpireCache, TwoWorkers!Fault,
         TwoSyncs!Sync!Fault, TwoWorkers!FetchRows, TwoSyncs!Sync!FetchRows,
         TwoWorkers!FillRow, TwoSyncs!Sync!FillRow, TwoWorkers!FindConnection,
         TwoSyncs!Sync!FindConnection, TwoWorkers!Goto, TwoSyncs!Sync!Goto,
         TwoWorkers!HandleFailedTask, TwoSyncs!Sync!HandleFailedTask, TwoWorkers!Idle,
         TwoSyncs!Sync!Idle, TwoWorkers!Invalidate, TwoSyncs!Sync!Invalidate,
         TwoWorkers!MarkSyncing, TwoSyncs!Sync!MarkSyncing, TwoWorkers!Next,
         TwoSyncs!Sync!Next, TwoWorkers!NoFault, TwoSyncs!Sync!NoFault,
         TwoWorkers!Owned, TwoSyncs!Sync!Owned, TwoWorkers!ReadState,
         TwoSyncs!Sync!ReadState, TwoWorkers!Release, TwoSyncs!Sync!Release,
         TwoWorkers!Request, TwoSyncs!Sync!Request, TwoWorkers!Rows,
         TwoSyncs!Sync!Rows, TwoWorkers!StartRow, TwoSyncs!Sync!StartRow,
         TwoWorkers!StoreRow, TwoSyncs!Sync!StoreRow, TwoWorkers!StoredRows,
         TwoSyncs!Sync!StoredRows, TwoWorkers!SyncStatus, TwoSyncs!Sync!SyncStatus,
         TwoWorkers!Syncing, TwoSyncs!Sync!Syncing, TwoWorkers!TriggerSync,
         TwoSyncs!Sync!TriggerSync, TwoWorkers!UpdateConnection,
         TwoSyncs!Sync!UpdateConnection, TwoWorkers!Work, TwoSyncs!Sync!Work,
         TwoWorkers!WriteFailed, TwoSyncs!Sync!WriteFailed, TwoWorkers!WriteState,
         TwoSyncs!Sync!WriteState, TwoWorkers!WriteSuccess, TwoSyncs!Sync!WriteSuccess,
         TwoWorkers!vars, TwoSyncs!Sync!vars
<1>3. TwoSyncs!Sync!NoRowSkipped /\ TwoSyncs!Sync!TotalCountsRows
      /\ TwoSyncs!Sync!CacheCoversWatermark
      => TwoWorkers!NoRowSkipped /\ TwoWorkers!TotalCountsRows
         /\ TwoWorkers!CacheCoversWatermark
  BY DEF TwoWorkers!At, TwoSyncs!Sync!At, TwoWorkers!CacheCoversWatermark,
         TwoSyncs!Sync!CacheCoversWatermark, TwoWorkers!Cardinality,
         TwoSyncs!Sync!Cardinality, TwoWorkers!NoRowSkipped,
         TwoSyncs!Sync!NoRowSkipped, TwoWorkers!Rows, TwoSyncs!Sync!Rows,
         TwoWorkers!StoredRows, TwoSyncs!Sync!StoredRows, TwoWorkers!TotalCountsRows,
         TwoSyncs!Sync!TotalCountsRows
<1> QED
  BY <1>1, <1>2, <1>3

LEMMA TwoStreamsFollows ==
    /\ TwoStreams!Init => TwoSyncs!Talk!Init
    /\ [TwoStreams!Next]_(TwoStreams!interviewVars)
       => [TwoSyncs!Talk!Next]_(TwoSyncs!Talk!interviewVars)
    /\ TwoSyncs!Talk!PendingTurnIsQuiet /\ TwoSyncs!Talk!TurnsKept
          /\ TwoSyncs!Talk!DeferredBelongsToSession
       => TwoStreams!PendingTurnIsQuiet /\ TwoStreams!TurnsKept
          /\ TwoStreams!DeferredBelongsToSession
<1>1. TwoStreams!Init => TwoSyncs!Talk!Init
  BY DEF TwoStreams!Idle, TwoSyncs!Talk!Idle, TwoStreams!Init, TwoSyncs!Talk!Init,
         TwoStreams!NewSession, TwoSyncs!Talk!NewSession, TwoStreams!Streams,
         TwoSyncs!Talk!Streams, TwoStreams!Tasks, TwoSyncs!Talk!Tasks
<1>2. TwoStreams!Next => TwoSyncs!Talk!Next
  <2>1. \A S, e : TwoStreams!Heard(S, e) = TwoSyncs!Talk!Heard(S, e)
    BY DEF TwoStreams!Discarded, TwoSyncs!Talk!Discarded, TwoStreams!Heard,
           TwoSyncs!Talk!Heard, TwoStreams!HeardActivity, TwoSyncs!Talk!HeardActivity,
           TwoStreams!HeardClose, TwoSyncs!Talk!HeardClose, TwoStreams!HeardEnd,
           TwoSyncs!Talk!HeardEnd, TwoStreams!HeardFinal, TwoSyncs!Talk!HeardFinal
  <2>2. \A s, S : /\ TwoStreams!CloseDue(S) = TwoSyncs!Talk!CloseDue(S)
                  /\ TwoStreams!DueTurns(s, S) = TwoSyncs!Talk!DueTurns(s, S)
    BY DEF TwoStreams!Cardinality, TwoSyncs!Talk!Cardinality, TwoStreams!CloseDue,
           TwoSyncs!Talk!CloseDue, TwoStreams!DueChannels, TwoSyncs!Talk!DueChannels,
           TwoStreams!DueTurns, TwoSyncs!Talk!DueTurns
  <2>3. ASSUME NEW s, NEW es PROVE TwoStreams!Consumed(s, es) = TwoSyncs!Talk!Consumed(s, es)
    <3> DEFINE First == [sess |-> session[s], closed |-> <<>>]
               Due(acc, S) == [sess |-> TwoSyncs!Talk!CloseDue(S),
                               closed |-> acc.closed \o TwoSyncs!Talk!DueTurns(s, S)]
               Then(acc, e) == Due(acc, TwoSyncs!Talk!Heard(acc.sess, e))
               Folds(iter) == iter = [D \in SUBSET DOMAIN es |->
                    IF D = {} THEN First
                    ELSE Then(iter[D \ {TwoSyncs!Talk!Max(D)}], es[TwoSyncs!Talk!Max(D)])]
               Due2(acc, S) == [sess |-> TwoStreams!CloseDue(S),
                               closed |-> acc.closed \o TwoStreams!DueTurns(s, S)]
               Then2(acc, e) == Due2(acc, TwoStreams!Heard(acc.sess, e))
               Folds2(iter) == iter = [D \in SUBSET DOMAIN es |->
                    IF D = {} THEN First
                    ELSE Then2(iter[D \ {TwoStreams!Max(D)}], es[TwoStreams!Max(D)])]
    <3>1. TwoSyncs!Talk!Consumed(s, es) = (CHOOSE iter : Folds(iter))[DOMAIN es]
      BY DEF TwoSyncs!Talk!Consumed, TwoSyncs!Talk!FoldLeft, TwoSyncs!Talk!MapThenFoldSet
    <3>2. TwoStreams!Consumed(s, es) = (CHOOSE iter : Folds2(iter))[DOMAIN es]
      BY DEF TwoStreams!Consumed, TwoStreams!FoldLeft, TwoStreams!MapThenFoldSet
    <3>3. \A acc, e : Then2(acc, e) = Then(acc, e)
      BY <2>1, <2>2, ZenonT(60)
    <3>4. \A D : TwoStreams!Max(D) = TwoSyncs!Talk!Max(D)
      BY DEF TwoStreams!Max, TwoSyncs!Talk!Max
    <3>5. ASSUME NEW iter PROVE Folds2(iter) <=> Folds(iter)
      <4> HIDE DEF Then, Then2, First
      <4> QED
        BY <3>3, <3>4
    <3> HIDE DEF Folds, Folds2
    <3>6. (CHOOSE iter : Folds2(iter)) = (CHOOSE iter : Folds(iter))
      BY <3>5, ZenonT(60)
    <3> QED
      BY <3>1, <3>2, <3>6, ZenonT(60)
  <2>4. \A t, r, es : TwoStreams!Apply(t, r, es) <=> TwoSyncs!Talk!Apply(t, r, es)
    BY SMTT(30) DEF TwoStreams!Apply, TwoSyncs!Talk!Apply
  <2>5. ASSUME NEW t
        PROVE  /\ TwoStreams!Start(t) => TwoSyncs!Talk!Start(t)
               /\ TwoStreams!PushAudio(t) => TwoSyncs!Talk!PushAudio(t)
               /\ TwoStreams!SendAudio(t) => TwoSyncs!Talk!SendAudio(t)
               /\ TwoStreams!Finalize(t) => TwoSyncs!Talk!Finalize(t)
               /\ TwoStreams!Stop(t) => TwoSyncs!Talk!Stop(t)
               /\ TwoStreams!Disconnect(t) => TwoSyncs!Talk!Disconnect(t)
    BY DEF TwoStreams!Active, TwoSyncs!Talk!Active, TwoStreams!At, TwoSyncs!Talk!At,
           TwoStreams!Begin, TwoSyncs!Talk!Begin, TwoStreams!Cardinality,
           TwoSyncs!Talk!Cardinality, TwoStreams!Disconnect, TwoSyncs!Talk!Disconnect,
           TwoStreams!End, TwoSyncs!Talk!End, TwoStreams!Finalize,
           TwoSyncs!Talk!Finalize, TwoStreams!Goto, TwoSyncs!Talk!Goto,
           TwoStreams!Idle, TwoSyncs!Talk!Idle, TwoStreams!Live, TwoSyncs!Talk!Live,
           TwoStreams!NewSession, TwoSyncs!Talk!NewSession, TwoStreams!PushAudio,
           TwoSyncs!Talk!PushAudio, TwoStreams!Request, TwoSyncs!Talk!Request,
           TwoStreams!Running, TwoSyncs!Talk!Running, TwoStreams!SendAudio,
           TwoSyncs!Talk!SendAudio, TwoStreams!Start, TwoSyncs!Talk!Start,
           TwoStreams!Stop, TwoSyncs!Talk!Stop, TwoStreams!Streams,
           TwoSyncs!Talk!Streams, TwoStreams!Tasks, TwoSyncs!Talk!Tasks,
           TwoStreams!turnVars, TwoSyncs!Talk!turnVars
  <2>6. ASSUME NEW t
        PROVE  /\ TwoStreams!Opened(t) => TwoSyncs!Talk!Opened(t)
               /\ TwoStreams!OpenFails(t) => TwoSyncs!Talk!OpenFails(t)
               /\ TwoStreams!Sent(t) => TwoSyncs!Talk!Sent(t)
               /\ TwoStreams!SendFails(t) => TwoSyncs!Talk!SendFails(t)
    BY DEF TwoStreams!At, TwoSyncs!Talk!At, TwoStreams!End, TwoSyncs!Talk!End,
           TwoStreams!Fault, TwoSyncs!Talk!Fault, TwoStreams!Goto, TwoSyncs!Talk!Goto,
           TwoStreams!Idle, TwoSyncs!Talk!Idle, TwoStreams!OpenFails,
           TwoSyncs!Talk!OpenFails, TwoStreams!Opened, TwoSyncs!Talk!Opened,
           TwoStreams!RemoveSession, TwoSyncs!Talk!RemoveSession, TwoStreams!Running,
           TwoSyncs!Talk!Running, TwoStreams!SendFails, TwoSyncs!Talk!SendFails,
           TwoStreams!Sent, TwoSyncs!Talk!Sent, TwoStreams!Tasks, TwoSyncs!Talk!Tasks,
           TwoStreams!turnVars, TwoSyncs!Talk!turnVars
  <2>7. ASSUME NEW t
        PROVE  /\ TwoStreams!Closed(t) => TwoSyncs!Talk!Closed(t)
               /\ TwoStreams!FailSession(t) => TwoSyncs!Talk!FailSession(t)
               /\ TwoStreams!CloseFinalized(t) => TwoSyncs!Talk!CloseFinalized(t)
    BY DEF TwoStreams!At, TwoSyncs!Talk!At, TwoStreams!CloseEvent,
           TwoSyncs!Talk!CloseEvent, TwoStreams!CloseFinalized,
           TwoSyncs!Talk!CloseFinalized, TwoStreams!CloseLink, TwoSyncs!Talk!CloseLink,
           TwoStreams!Closed, TwoSyncs!Talk!Closed, TwoStreams!Discarded,
           TwoSyncs!Talk!Discarded, TwoStreams!FailSession, TwoSyncs!Talk!FailSession,
           TwoStreams!Goto, TwoSyncs!Talk!Goto, TwoStreams!RemoveSession,
           TwoSyncs!Talk!RemoveSession, TwoStreams!Running, TwoSyncs!Talk!Running,
           TwoStreams!Tasks, TwoSyncs!Talk!Tasks, TwoStreams!turnVars,
           TwoSyncs!Talk!turnVars
  <2>8. ASSUME NEW t
        PROVE  /\ TwoStreams!Collect(t) => TwoSyncs!Talk!Collect(t)
               /\ TwoStreams!EventComes(t) => TwoSyncs!Talk!EventComes(t)
               /\ TwoStreams!WaitTimesOut(t) => TwoSyncs!Talk!WaitTimesOut(t)
    BY <2>2, <2>3, <2>4 DEF TwoStreams!Active, TwoSyncs!Talk!Active, TwoStreams!At,
       TwoSyncs!Talk!At,
           TwoStreams!Collect, TwoSyncs!Talk!Collect, TwoStreams!DueResult,
           TwoSyncs!Talk!DueResult, TwoStreams!EventComes, TwoSyncs!Talk!EventComes,
           TwoStreams!Fault, TwoSyncs!Talk!Fault, TwoStreams!Goto, TwoSyncs!Talk!Goto,
           TwoStreams!Running, TwoSyncs!Talk!Running, TwoStreams!Tasks,
           TwoSyncs!Talk!Tasks, TwoStreams!WaitTimesOut, TwoSyncs!Talk!WaitTimesOut,
           TwoStreams!Waits, TwoSyncs!Talk!Waits
  <2>9. ASSUME NEW t
        PROVE  /\ TwoStreams!StoreTurn(t) => TwoSyncs!Talk!StoreTurn(t)
               /\ TwoStreams!StoreFails(t) => TwoSyncs!Talk!StoreFails(t)
    BY DEF TwoStreams!Active, TwoSyncs!Talk!Active, TwoStreams!AfterAppend,
           TwoSyncs!Talk!AfterAppend, TwoStreams!At, TwoSyncs!Talk!At,
           TwoStreams!Fault, TwoSyncs!Talk!Fault, TwoStreams!Running,
           TwoSyncs!Talk!Running, TwoStreams!StoreFails, TwoSyncs!Talk!StoreFails,
           TwoStreams!StoreTurn, TwoSyncs!Talk!StoreTurn, TwoStreams!Tasks,
           TwoSyncs!Talk!Tasks
  <2>10. ASSUME NEW t, TwoStreams!DrainFinalized(t) PROVE TwoSyncs!Talk!DrainFinalized(t)
    BY <2>10, <2>3, ZenonT(60) DEF TwoStreams!At, TwoSyncs!Talk!At, TwoStreams!CloseEvent,
           TwoSyncs!Talk!CloseEvent, TwoStreams!DrainFinalized,
           TwoSyncs!Talk!DrainFinalized, TwoStreams!Goto, TwoSyncs!Talk!Goto,
           TwoStreams!Running, TwoSyncs!Talk!Running, TwoStreams!Tasks,
           TwoSyncs!Talk!Tasks, TwoStreams!ToSet, TwoSyncs!Talk!ToSet
  <2>11. ASSUME NEW t, TwoStreams!Finish(t) PROVE TwoSyncs!Talk!Finish(t)
    BY <2>11, ZenonT(60) DEF TwoStreams!Active, TwoSyncs!Talk!Active, TwoStreams!At,
       TwoSyncs!Talk!At,
           TwoStreams!Finish, TwoSyncs!Talk!Finish, TwoStreams!Idle,
           TwoSyncs!Talk!Idle, TwoStreams!RemoveSession, TwoSyncs!Talk!RemoveSession,
           TwoStreams!Running, TwoSyncs!Talk!Running, TwoStreams!Tasks,
           TwoSyncs!Talk!Tasks, TwoStreams!ToSet, TwoSyncs!Talk!ToSet
  <2>12. /\ TwoStreams!Listen => TwoSyncs!Talk!Listen
         /\ TwoStreams!Reap => TwoSyncs!Talk!Reap
    BY ZenonT(60) DEF TwoStreams!Active, TwoSyncs!Talk!Active, TwoStreams!At,
       TwoSyncs!Talk!At,
           TwoStreams!Begin, TwoSyncs!Talk!Begin, TwoStreams!Fault,
           TwoSyncs!Talk!Fault, TwoStreams!Idle, TwoSyncs!Talk!Idle, TwoStreams!Listen,
           TwoSyncs!Talk!Listen, TwoStreams!Reap, TwoSyncs!Talk!Reap,
           TwoStreams!RemoveSession, TwoSyncs!Talk!RemoveSession, TwoStreams!Running,
           TwoSyncs!Talk!Running, TwoStreams!Tasks, TwoSyncs!Talk!Tasks,
           TwoStreams!turnVars, TwoSyncs!Talk!turnVars
  <2>13. ASSUME NEW t, NEW s, NEW c
        PROVE  /\ TwoStreams!Produce(t) => TwoSyncs!Talk!Produce(t)
               /\ TwoStreams!ProviderCloses(t) => TwoSyncs!Talk!ProviderCloses(t)
               /\ TwoStreams!GraceElapses(s, c) => TwoSyncs!Talk!GraceElapses(s, c)
               /\ TwoStreams!AnswerEnds(t) => TwoSyncs!Talk!AnswerEnds(t)
               /\ TwoStreams!SaveTurn(t) => TwoSyncs!Talk!SaveTurn(t)
               /\ TwoStreams!SaveFails(t) => TwoSyncs!Talk!SaveFails(t)
    BY ZenonT(60) DEF TwoStreams!AnswerEnds, TwoSyncs!Talk!AnswerEnds,
       TwoStreams!ChannelKinds,
           TwoSyncs!Talk!ChannelKinds, TwoStreams!CloseEvent, TwoSyncs!Talk!CloseEvent,
           TwoStreams!Fault, TwoSyncs!Talk!Fault, TwoStreams!GraceElapses,
           TwoSyncs!Talk!GraceElapses, TwoStreams!Produce, TwoSyncs!Talk!Produce,
           TwoStreams!ProviderCloses, TwoSyncs!Talk!ProviderCloses, TwoStreams!Running,
           TwoSyncs!Talk!Running, TwoStreams!SaveFails, TwoSyncs!Talk!SaveFails,
           TwoStreams!SaveTurn, TwoSyncs!Talk!SaveTurn, TwoStreams!Tasks,
           TwoSyncs!Talk!Tasks, TwoStreams!Watched, TwoSyncs!Talk!Watched,
           TwoStreams!turnVars, TwoSyncs!Talk!turnVars
  <2>14. ASSUME NEW t PROVE TwoStreams!Coroutine(t) => TwoSyncs!Talk!Coroutine(t)
    BY <2>5, <2>6, <2>7, <2>8, <2>9, <2>10, <2>11 DEF TwoStreams!Coroutine,
       TwoSyncs!Talk!Coroutine
  <2> QED
    BY <2>12, <2>13, <2>14
       DEF TwoStreams!Next, TwoSyncs!Talk!Next, TwoStreams!Tasks, TwoSyncs!Talk!Tasks,
           TwoStreams!Streams, TwoSyncs!Talk!Streams
<1>3. [TwoStreams!Next]_(TwoStreams!interviewVars)
       => [TwoSyncs!Talk!Next]_(TwoSyncs!Talk!interviewVars)
  BY <1>2 DEF TwoStreams!interviewVars, TwoSyncs!Talk!interviewVars, TwoStreams!turnVars,
         TwoSyncs!Talk!turnVars
<1>4. TwoSyncs!Talk!PendingTurnIsQuiet /\ TwoSyncs!Talk!TurnsKept
         /\ TwoSyncs!Talk!DeferredBelongsToSession
      => TwoStreams!PendingTurnIsQuiet /\ TwoStreams!TurnsKept
         /\ TwoStreams!DeferredBelongsToSession
  BY ZenonT(60)
     DEF TwoStreams!DeferredBelongsToSession, TwoSyncs!Talk!DeferredBelongsToSession,
         TwoStreams!Distinct, TwoSyncs!Talk!Distinct, TwoStreams!PendingTurnIsQuiet,
         TwoSyncs!Talk!PendingTurnIsQuiet, TwoStreams!Streams, TwoSyncs!Talk!Streams,
         TwoStreams!Tasks, TwoSyncs!Talk!Tasks, TwoStreams!ToSet, TwoSyncs!Talk!ToSet,
         TwoStreams!TurnsKept, TwoSyncs!Talk!TurnsKept
<1> QED
  BY <1>1, <1>3, <1>4

LEMMA SyncsFit ==
    ASSUME PlatformSetup
    PROVE  OneSync!SheetSetup /\ TwoSyncs!SheetSetup
BY DEF PlatformSetup, OneSync!SheetSetup, OneSync!SheetStates, OneSync!Sync!Statuses,
       TwoSyncs!SheetSetup, TwoSyncs!SheetStates, TwoSyncs!Sync!Statuses

SheetsKept ==
    /\ focus = "sheets" => OneSync!SheetsSound
    /\ focus = "workers" => TwoSyncs!SheetsSound

LEMMA SheetsStart == PlatformSetup /\ PlatformInit => SheetsKept
BY InitFollowsFocus, SheetsFollows, OneSync!SheetsStart, TwoWorkersFollows,
   TwoSyncs!SheetsStart, SyncsFit DEF SheetsKept

LEMMA SheetsContinue ==
    PlatformSetup /\ SheetsKept /\ [PlatformNext]_platformVars => SheetsKept'
BY StepFollowsFocus, SheetsFollows, OneSync!SheetsContinue, TwoWorkersFollows,
   TwoSyncs!SheetsContinue, SyncsFit DEF SheetsKept

LEMMA SheetsAreTold == PlatformSetup /\ SheetsKept => SheetFullySynced
BY SheetsFollows, OneSync!SheetsTold, TwoWorkersFollows, TwoSyncs!SheetsTold, SyncsFit
   DEF SheetsKept, SheetFullySynced

\* Whatever fails and however syncs overlap, no row is skipped below the
\* watermark of a sheet, the total counts the stored rows, and the cached
\* analytics cover what the last completed sync stored.
THEOREM SheetsStaySynced ==
    ASSUME PlatformSetup
    PROVE  PlatformSpec => []SheetFullySynced
<1> USE PlatformSetup
<1> QED
  BY SheetsStart, SheetsContinue, SheetsAreTold, PTL DEF PlatformSpec

-----------------------------------------------------------------------------
LEMMA TalksFit ==
    ASSUME PlatformSetup
    PROVE  OneSync!TalkSetup /\ TwoSyncs!TalkSetup
<1>1. OneSync!IsFiniteSet({0, 1}) /\ TwoSyncs!IsFiniteSet({0, 0})
  BY OneSync!PairIsFinite, TwoSyncs!PairIsFinite
<1>2. {0, 0} = {0}
  OBVIOUS
<1> QED
  BY <1>1, <1>2 DEF PlatformSetup, OneSync!TalkSetup, OneSync!Talk!Streams,
              TwoSyncs!TalkSetup, TwoSyncs!Talk!Streams

InterviewsKept ==
    /\ focus = "channels" => OneSync!TalkSound
    /\ focus = "streams" => TwoSyncs!TalkSound

LEMMA InterviewsStart == PlatformSetup /\ PlatformInit => InterviewsKept
BY InitFollowsFocus, TwoChannelsFollows, OneSync!TalkStart, TwoStreamsFollows,
   TwoSyncs!TalkStart, TalksFit DEF InterviewsKept

LEMMA InterviewsContinue ==
    PlatformSetup /\ InterviewsKept /\ [PlatformNext]_platformVars => InterviewsKept'
BY StepFollowsFocus, TwoChannelsFollows, OneSync!TalkStays, TwoStreamsFollows,
   TwoSyncs!TalkStays, TalksFit DEF InterviewsKept

LEMMA InterviewsAreTold == PlatformSetup /\ InterviewsKept => InterviewTurnsKept
BY TwoChannelsFollows, OneSync!TalkTells, TwoStreamsFollows, TwoSyncs!TalkTells, TalksFit
   DEF InterviewsKept, InterviewTurnsKept

\* However the coroutines of a socket interleave and whatever fails, a turn is
\* only pending on a quiet channel, no fragment is in two turns, every closed
\* turn is in one place, and a queued error belongs to the session.
THEOREM InterviewsStayKept ==
    ASSUME PlatformSetup
    PROVE  PlatformSpec => []InterviewTurnsKept
<1> USE PlatformSetup
<1> QED
  BY InterviewsStart, InterviewsContinue, InterviewsAreTold, PTL DEF PlatformSpec
=============================================================================
