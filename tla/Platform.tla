------------------------------- MODULE Platform -------------------------------
(****************************************************************************)
(* The platform's components that share no state, in one specification.  A  *)
(* behaviour chooses the component it follows (focus) and leaves the others *)
(* where they started: the state spaces add up instead of multiplying.      *)
(* Components of one shape (the two agents and the chat workflow, the       *)
(* skills of both agents, two bounds of the interview session) share their  *)
(* variables, which are initialised for the component followed.             *)
(****************************************************************************)
EXTENDS ImageJobs

CONSTANTS Handlers, Listener, Workers, Owner, SkillRequests

VARIABLES
    focus,
    connected, registered, listening, session, link, queue, task, deferred,
    recent, answering, saving, durable, heard, closed, stored, dropped,
    sheet, connection, enabled, sync, syncedRows, syncTasks, worker, cache,
    reader, syncsAsked, blank, syncsOverlapped, stale,
    conversation, messages, checkpoint, turn, shown, uncounted, overlapped, excused,
    skill, access, skillRequest, thread, asked, turns, wanted, raced, contents, collided,
    history, strategy, from, run,
    rows, active, pages, refresher, pageReader, refreshes, pageReads, excusedPages,
    lists, items, created, catalogue, listRequest, received, lateItems,
    notifications, creator, client, emitted, clock, creations, unannounced,
    accounts, orgs, members, orgRequest, orgRequests, overlappedEmails, ungoverned,
    voices, files, cloned, voiceRequest, voicesAsked, told, leaked, cut

interviewVars == <<connected, registered, listening, session, link, queue, task, deferred,
                   recent, answering, saving, durable, heard, closed, stored, dropped>>
sheetVars == <<sheet, connection, enabled, sync, syncedRows, syncTasks, worker, cache,
               reader, syncsAsked, blank, syncsOverlapped, stale>>
conversationVars == <<conversation, messages, checkpoint, turn, shown, uncounted,
                      overlapped, excused>>
skillVars == <<skill, access, skillRequest, thread, asked, turns, wanted, raced, contents,
               collided>>
backtestVars == <<history, strategy, from, run>>
catalogVars == <<rows, active, pages, refresher, pageReader, refreshes, pageReads,
                 excusedPages>>
watchlistVars == <<lists, items, created, catalogue, listRequest, received, lateItems>>
notificationVars == <<notifications, creator, client, emitted, clock, creations, unannounced>>
organizationVars == <<accounts, orgs, members, orgRequest, orgRequests, overlappedEmails,
                      ungoverned>>
voiceVars == <<voices, files, cloned, voiceRequest, voicesAsked, told, leaked, cut>>
listVars == <<catalogVars, watchlistVars, notificationVars, organizationVars, voiceVars>>
imagesOnly == <<job, tasks, request, slot, running, image, upload, deleting, assets,
                events, lost>>
platformVars == <<focus, faults, imagesOnly, interviewVars, sheetVars, conversationVars,
                  skillVars, backtestVars, listVars>>

-----------------------------------------------------------------------------
\* One session with two channels and four provider events, enough for two turns
\* or for speech that resumes in the grace period; two sessions of the socket, one
\* after the other, with two events, enough for a turn, and with a failure.
TwoChannels == INSTANCE InterviewSession WITH
    MaxStreams <- 1, Channels <- {0, 1}, Interviewer <- 0, MaxRecent <- 1,
    SaveAttempts <- 1, MaxEvents <- 4, MaxFaults <- 0
TwoStreams == INSTANCE InterviewSession WITH
    MaxStreams <- 2, Channels <- {0}, Interviewer <- 0, MaxRecent <- 1,
    SaveAttempts <- 1, MaxEvents <- 2, MaxFaults <- 1

Sheets == INSTANCE SheetSync WITH
    tasks <- syncTasks, stored <- syncedRows, asked <- syncsAsked,
    overlapped <- syncsOverlapped, Workers <- {CHOOSE w \in Workers : TRUE},
    DataStart <- 2, MaxRetries <- 1, MaxRows <- 3, MaxTasks <- 1, MaxFaults <- 1
TwoWorkers == INSTANCE SheetSync WITH
    tasks <- syncTasks, stored <- syncedRows, asked <- syncsAsked,
    overlapped <- syncsOverlapped, DataStart <- 2, MaxRetries <- 0, MaxRows <- 2,
    MaxTasks <- 2, MaxFaults <- 0

StockAgent == INSTANCE AgentConversations WITH
    Runtime <- "agent", Turns <- {1, 2}, HistoryLimit <- 0, MaxCalls <- 0, MaxFaults <- 1
LeadAgent == INSTANCE LeadAgentConversations WITH Turns <- {1, 2}, MaxCalls <- 1, MaxFaults <- 0
Chat == INSTANCE ChatConversations WITH
    Turns <- {1, 2}, HistoryLimit <- 2, MaxFaults <- 1

StockSkills == INSTANCE AgentSkills WITH
    request <- skillRequest, MaxSkills <- 2, Requests <- SkillRequests,
    ToolSets <- {{"search"}, {"fetch"}}, MaxRequests <- 4, MaxTurns <- 1, MaxFaults <- 1
LeadSkills == INSTANCE LeadAgentSkills WITH
    request <- skillRequest, MaxSkills <- 2, Requests <- SkillRequests,
    ToolSets <- {{"search"}, {"fetch"}}, MaxRequests <- 2, MaxTurns <- 1, MaxFaults <- 0

DayShapes == {[open |-> 2, close |-> 1], [open |-> 1, close |-> 3],
              [open |-> 2, close |-> 2], [open |-> 3, close |-> 6]}
Templates == {[template |-> "buy_and_hold"],
              [template |-> "sma_crossover", fast |-> 1, slow |-> 2],
              [template |-> "ichimoku_cloud", tenkan |-> 1, kijun |-> 2, senkou |-> 3,
               displacement |-> 1, warmup |-> 4]}
Tester == INSTANCE Backtests WITH
    Shapes <- DayShapes, Strategies <- Templates, Capital <- 11, MaxDays <- 6, Slack <- 0

\* Two pages with a fault; two refreshes that overlap.
TwoPages == INSTANCE StockCatalog WITH
    cache <- pages, reader <- pageReader, clock <- refreshes, reads <- pageReads,
    excused <- excusedPages, Symbols <- {1, 2}, PageSize <- 1,
    Readers <- {Listener}, Refreshers <- {CHOOSE w \in Workers : TRUE}, MaxRefreshes <- 2,
    MaxReads <- 2, MaxFaults <- 1
TwoRefreshes == INSTANCE StockCatalog WITH
    cache <- pages, reader <- pageReader, clock <- refreshes, reads <- pageReads,
    excused <- excusedPages, Symbols <- {1}, PageSize <- 1,
    Readers <- {Listener}, Refreshers <- Workers, MaxRefreshes <- 2, MaxReads <- 2,
    MaxFaults <- 0
Lists == INSTANCE Watchlists WITH
    request <- listRequest, raced <- lateItems, Owners <- {Owner}, Names <- {"a", "b"},
    Symbols <- {1}, Requests <- SkillRequests, MaxLists <- 2, MaxRequests <- 4, MaxFaults <- 1
Notices == INSTANCE Notifications WITH
    lost <- unannounced, Keys <- {"completed"}, Creators <- Workers, Clients <- {Listener},
    MaxCreations <- 3, MaxReads <- 2, MaxFaults <- 1

\* Two admins of one organization, one of them also the admin of another; an
\* empty system, with e-mails that collide.
TwoAdmins == INSTANCE Organizations WITH
    request <- orgRequest, received <- orgRequests, overlapped <- overlappedEmails,
    Names <- {"a"}, Emails <- 1 .. 3, Founders <- <<1, 2, 3>>, Requests <- SkillRequests,
    MaxAccounts <- 3, MaxOrganizations <- 2, MaxRequests <- 2, MaxFaults <- 0
Newcomers == INSTANCE Organizations WITH
    request <- orgRequest, received <- orgRequests, overlapped <- overlappedEmails,
    Names <- {"a"}, Emails <- 1 .. 2, Founders <- <<>>, Requests <- SkillRequests,
    MaxAccounts <- 3, MaxOrganizations <- 2, MaxRequests <- 4, MaxFaults <- 1

\* Clones and deletions of one id; the speech of two users, with a fault.
Clones == INSTANCE Voices WITH
    rows <- voices, assets <- files, request <- voiceRequest, received <- voicesAsked,
    VoiceIds <- {1}, SystemVoices <- {}, Users <- {1}, Admins <- {}, Requests <- SkillRequests,
    MaxChunks <- 1, MaxRequests <- 4, MaxFaults <- 0
Speech == INSTANCE Voices WITH
    rows <- voices, assets <- files, request <- voiceRequest, received <- voicesAsked,
    VoiceIds <- {1}, SystemVoices <- {2}, Users <- {1, 2}, Admins <- {},
    Requests <- SkillRequests, MaxChunks <- 2, MaxRequests <- 2, MaxFaults <- 1

-----------------------------------------------------------------------------
Foci == {"images", "channels", "streams", "sheets", "workers", "stock", "lead", "chat",
         "stock_skills", "lead_skills", "backtests", "two_pages", "two_refreshes", "watchlists",
         "notifications", "two_admins", "newcomers", "clones", "speech"}

PlatformInit ==
    /\ focus \in Foci
    /\ Init
    /\ IF focus = "channels" THEN TwoChannels!Init ELSE TwoStreams!Init
    /\ IF focus = "workers" THEN TwoWorkers!Init ELSE Sheets!Init
    /\ IF focus = "chat" THEN Chat!Start ELSE StockAgent!Init
    /\ StockSkills!Init
    /\ Tester!Init
    /\ IF focus = "two_refreshes" THEN TwoRefreshes!Init ELSE TwoPages!Init
    /\ Lists!Init
    /\ Notices!Init
    /\ IF focus = "two_admins" THEN TwoAdmins!Init ELSE Newcomers!Init
    /\ Clones!Init
    /\ focus # "backtests" => strategy = [template |-> "buy_and_hold"]

ImagesStep ==
    /\ focus = "images" /\ Next
    /\ UNCHANGED <<focus, interviewVars, sheetVars, conversationVars, skillVars, backtestVars,
                   listVars>>
Interview ==
    /\ \/ focus = "channels" /\ TwoChannels!Next
       \/ focus = "streams" /\ TwoStreams!Next
    /\ UNCHANGED <<focus, imagesOnly, sheetVars, conversationVars, skillVars, backtestVars,
                   listVars>>
SheetsStep ==
    /\ \/ focus = "sheets" /\ Sheets!Next
       \/ focus = "workers" /\ TwoWorkers!Next
    /\ UNCHANGED <<focus, imagesOnly, interviewVars, conversationVars, skillVars, backtestVars,
                   listVars>>
Conversing ==
    /\ \/ focus = "stock" /\ StockAgent!Next
       \/ focus = "lead" /\ LeadAgent!Next
       \/ focus = "chat" /\ Chat!Next
    /\ UNCHANGED <<focus, imagesOnly, interviewVars, sheetVars, skillVars, backtestVars, listVars>>
SkillsStep ==
    /\ \/ focus = "stock_skills" /\ StockSkills!Next
       \/ focus = "lead_skills" /\ LeadSkills!Next
    /\ UNCHANGED <<focus, imagesOnly, interviewVars, sheetVars, conversationVars, backtestVars,
                   listVars>>
Backtesting ==
    /\ focus = "backtests" /\ Tester!Next
    /\ UNCHANGED <<focus, faults, imagesOnly, interviewVars, sheetVars, conversationVars,
                   skillVars, listVars>>
Listing ==
    /\ \/ focus = "two_pages" /\ TwoPages!Next
       \/ focus = "two_refreshes" /\ TwoRefreshes!Next
    /\ UNCHANGED <<focus, imagesOnly, interviewVars, sheetVars, conversationVars, skillVars,
                   backtestVars, watchlistVars, notificationVars, organizationVars,
                   voiceVars>>
Watching ==
    /\ focus = "watchlists" /\ Lists!Next
    /\ UNCHANGED <<focus, imagesOnly, interviewVars, sheetVars, conversationVars, skillVars,
                   backtestVars, catalogVars, notificationVars, organizationVars,
                   voiceVars>>
Notifying ==
    /\ focus = "notifications" /\ Notices!Next
    /\ UNCHANGED <<focus, imagesOnly, interviewVars, sheetVars, conversationVars, skillVars,
                   backtestVars, catalogVars, watchlistVars, organizationVars,
                   voiceVars>>
Organizing ==
    /\ \/ focus = "two_admins" /\ TwoAdmins!Next
       \/ focus = "newcomers" /\ Newcomers!Next
    /\ UNCHANGED <<focus, imagesOnly, interviewVars, sheetVars, conversationVars, skillVars,
                   backtestVars, catalogVars, watchlistVars, notificationVars, voiceVars>>
Voicing ==
    /\ \/ focus = "clones" /\ Clones!Next
       \/ focus = "speech" /\ Speech!Next
    /\ UNCHANGED <<focus, imagesOnly, interviewVars, sheetVars, conversationVars, skillVars,
                   backtestVars, catalogVars, watchlistVars, notificationVars,
                   organizationVars>>

PlatformNext ==
    ImagesStep \/ Interview \/ SheetsStep \/ Conversing \/ SkillsStep \/ Backtesting
        \/ Listing \/ Watching \/ Notifying \/ Organizing \/ Voicing
PlatformSpec == PlatformInit /\ [][PlatformNext]_platformVars

-----------------------------------------------------------------------------
\* The state of the component that is followed has its type.
PlatformTypeOK ==
    CASE focus = "images" -> TypeOK
      [] focus = "channels" -> TwoChannels!TypeOK
      [] focus = "streams" -> TwoStreams!TypeOK
      [] focus = "sheets" -> Sheets!TypeOK
      [] focus = "workers" -> TwoWorkers!TypeOK
      [] focus = "stock" -> StockAgent!TypeOK
      [] focus = "lead" -> LeadAgent!TypeOK
      [] focus = "chat" -> Chat!TypeOK
      [] focus = "stock_skills" -> StockSkills!TypeOK
      [] focus = "lead_skills" -> LeadSkills!TypeOK
      [] focus = "backtests" -> Tester!TypeOK
      [] focus = "two_pages" -> TwoPages!TypeOK
      [] focus = "two_refreshes" -> TwoRefreshes!TypeOK
      [] focus = "watchlists" -> Lists!TypeOK
      [] focus = "notifications" -> Notices!TypeOK
      [] focus = "two_admins" -> TwoAdmins!TypeOK
      [] focus = "newcomers" -> Newcomers!TypeOK
      [] focus = "clones" -> Clones!TypeOK
      [] focus = "speech" -> Speech!TypeOK

\* Files in the storage and the rows that name them.  Images: a live job is on
\* its way or was lost by a failure, and no listed or linked picture is without
\* its asset.  Voices: what is listed has its file and the provider's voice, no
\* other file is forgotten, and a stream tells what is stored.
StoredFilesKept ==
    CASE focus = "images" -> LiveJobIsTracked /\ NoBrokenImage
      [] focus = "clones" -> Clones!RowsHaveTheirFiles /\ Clones!NoFileForgotten
                             /\ Clones!StreamsTellTheirOutcome
      [] focus = "speech" -> Speech!RowsHaveTheirFiles /\ Speech!NoFileForgotten
                             /\ Speech!StreamsTellTheirOutcome
      [] OTHER -> TRUE

\* Interview sessions, over both bounds: a pending turn is quiet, a closed turn
\* is kept in exactly one place, and a deferred error goes to its own session.
InterviewTurnsKept ==
    /\ focus = "channels" => TwoChannels!PendingTurnIsQuiet /\ TwoChannels!TurnsKept
                             /\ TwoChannels!DeferredBelongsToSession
    /\ focus = "streams" => TwoStreams!PendingTurnIsQuiet /\ TwoStreams!TurnsKept
                            /\ TwoStreams!DeferredBelongsToSession

\* Sheet sync, with one worker that fails and with two that overlap: no row is
\* skipped below the watermark, the total counts the stored rows, and cached
\* analytics cover what the last completed sync stored.
SheetFullySynced ==
    /\ focus = "sheets" => Sheets!NoRowSkipped /\ Sheets!TotalCountsRows
                           /\ Sheets!CacheCoversWatermark
    /\ focus = "workers" => TwoWorkers!NoRowSkipped /\ TwoWorkers!TotalCountsRows
                            /\ TwoWorkers!CacheCoversWatermark

\* Conversations of all three runtimes: an answer answers its turn's request,
\* message_count follows the messages, and the announced outcome is the stored
\* one.
ConversationsAnswered ==
    CASE focus = "stock" -> StockAgent!AnswersTheRequest /\ StockAgent!CountFollowsMessages
                            /\ StockAgent!OutcomeIsTrue
      [] focus = "lead" -> LeadAgent!AnswersTheRequest /\ LeadAgent!CountFollowsMessages
                           /\ LeadAgent!OutcomeIsTrue
      [] focus = "chat" -> Chat!AnswersTheRequest /\ Chat!CountFollowsMessages
                           /\ Chat!OutcomeIsTrue
      [] OTHER -> TRUE

\* Skills of both agents: enablement follows the last request, a version names
\* one content, and a granted tool set is one stored version's.
SkillsConsistent ==
    CASE focus = "stock_skills" ->
            /\ StockSkills!EnablementFollowsRequests
            /\ StockSkills!VersionTellsContent /\ StockSkills!GrantIsOneSkills
      [] focus = "lead_skills" ->
            /\ LeadSkills!EnablementFollowsRequests
            /\ LeadSkills!VersionTellsContent /\ LeadSkills!GrantIsOneSkills
      [] OTHER -> TRUE

\* Lists behind a check and a write: the cached catalogue pages follow the
\* active snapshot, the rows are one snapshot's, watchlist items have a list
\* and no duplicates, a notification is stored once and announced once, and an
\* organization keeps an admin, its members are a set and accounts are distinct.
ListsConsistent ==
    CASE focus = "two_pages" -> TwoPages!CacheFollowsCatalogue /\ TwoPages!OneSnapshot
      [] focus = "two_refreshes" ->
            TwoRefreshes!CacheFollowsCatalogue /\ TwoRefreshes!OneSnapshot
      [] focus = "watchlists" -> Lists!OrphansAreRaces /\ Lists!ListsAreSets
      [] focus = "notifications" -> Notices!OnePerKey /\ Notices!AnnouncedOnce
      [] focus = "two_admins" -> TwoAdmins!AdminRemains /\ TwoAdmins!MembersAreSets
                                 /\ TwoAdmins!AccountsAreDistinct
      [] focus = "newcomers" -> Newcomers!AdminRemains /\ Newcomers!MembersAreSets
                                /\ Newcomers!AccountsAreDistinct
      [] OTHER -> TRUE

\* Backtests: profit and loss add up to what the account gained, and no signal
\* or point of the curve looks ahead.
EquityConserved == focus = "backtests" => Tester!EquityConserved
NoLookAhead == Tester!NoLookAhead
=============================================================================
