--------------------------- MODULE LeadAgentSkills ---------------------------
(****************************************************************************)
(* The lead agent's skills: lead_agent_skill_service.py, its repositories   *)
(* and the load_skill tool keep their own documents in the way the stock    *)
(* agent's do, call by call, so each step is the one of AgentSkills.        *)
(****************************************************************************)
EXTENDS Naturals, Sequences, FiniteSets

CONSTANTS MaxSkills, Requests, ToolSets, None, MaxRequests, MaxTurns, MaxFaults

VARIABLES skill, access, request, thread, asked, turns, faults,
          wanted, raced, contents, collided

Skills == INSTANCE AgentSkills

Start == Skills!Init

\* The requests.
BeginRequest(r) == Skills!Begin(r)
GenerateSkillId(r) == Skills!ProbeId(r)
CreateSkill(r) == Skills!InsertSkill(r)
RequireOwnedSkill(r) == Skills!RequireSkill(r)
UpdateSkill(r) == Skills!UpdateSkill(r)
DeleteSkill(r) == Skills!RemoveSkill(r)
GetAccess(r) == Skills!ReadAccess(r)
UpsertAccess(r) == Skills!WriteAccess(r)
RequestDies(r) == Skills!RequestDies(r)
ListSkills(filter) == Skills!ListSkills(filter)
FilterKnown(ids) == Skills!KnownIds(ids)

\* The thread.
ResolveForCaller == Skills!BeginTurn
LoadSkill == Skills!LoadSkill
GrantSkill == Skills!FetchSkill

Handle(r) ==
    \/ BeginRequest(r) \/ GenerateSkillId(r) \/ CreateSkill(r) \/ RequireOwnedSkill(r)
    \/ UpdateSkill(r) \/ DeleteSkill(r) \/ GetAccess(r) \/ UpsertAccess(r) \/ RequestDies(r)

Next == (\E r \in Requests : Handle(r)) \/ ResolveForCaller \/ LoadSkill \/ GrantSkill
Spec == Start /\ [][Next]_<<skill, access, request, thread, asked, turns, faults,
                           wanted, raced, contents, collided>>

-----------------------------------------------------------------------------
\* The properties of AgentSkills, for these documents.
TypeOK == Skills!TypeOK
EnablementFollowsRequests == Skills!EnablementFollowsRequests
VersionTellsContent == Skills!VersionTellsContent
GrantIsOneSkills == Skills!GrantIsOneSkills
=============================================================================
