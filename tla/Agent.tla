------------------------------- MODULE Agent -------------------------------
(***************************************************************************)
(* The life of a bridge agent (bridge-agent/src/agent-core.ts): starting   *)
(* with stored credentials, logging in and out, changing the API, finding  *)
(* that a token is revoked, and reporting the dongles that it discovers.   *)
(*                                                                         *)
(* Everything runs on one thread, and what overlaps is procedures that     *)
(* wait: for an answer of the API, or for the configuration file.  There   *)
(* is one procedure of each kind at a time (the code allows several        *)
(* heartbeats to be under way).  Closing a UDP socket takes no I/O, so     *)
(* stopping discovery is one step here.                                    *)
(***************************************************************************)
EXTENDS Naturals

CONSTANTS
    Apis,      \* base URLs
    Default,   \* the one that an agent starts with
    MaxTokens, MaxMoves, MaxUpsets  \* bounds

ASSUME AgentAssumption ==
    /\ Default \in Apis
    /\ {MaxTokens, MaxMoves, MaxUpsets} \subseteq Nat

Tasks == {"start", "login", "reset", "beat", "report"}
Tokens == 0 .. MaxTokens          \* 0: no token
Addresses == 0 .. MaxMoves + 1    \* of the dongle, 0: not known

VARIABLES
    headless,   \* autoRegisterFromEnv: no user, credentials in the environment
    process,    \* "off", "on", or "failed": start threw
    pc,         \* of each procedure: what it waits for
    arg,        \* what it asked the API, or is writing to the file
    api,        \* apiBaseUrl
    token,      \* state.agentToken
    needsLogin, \* of the status: the window shows the login form
    file,       \* the configuration file; torn: cut off in the middle of a write
    control, data, \* the tokens that the connections were opened with
    ghost,      \* a control connection that was closed while it was dialled is open now
    timers,     \* of heartbeats and reports
    enabled,    \* discoveryEnabled
    scanner,    \* discovery runs
    device,     \* address in the devices map
    named,      \* its snapshot has a cloudId
    dirty,
    valid,      \* the API: tokens and where they are accepted
    issued,     \* the API: number of tokens issued
    row,        \* the API: address of the dongle
    address,    \* of the dongle
    overlap,    \* history: the file was written, or credentials set, in the middle of a wipe
    stranded,   \* history: no answer to the heartbeat of start
    unsaved,    \* history: the file could not be written, and no procedure that wrote it
                \* has set the connections since
    upsets      \* bound: resets, toggles of discovery, and failed writes of the file

session == <<api, token, needsLogin, file>>
links == <<control, data, ghost, timers>>
finding == <<enabled, scanner>>
found == <<device, named, dirty>>
server == <<valid, issued, row>>
history == <<overlap, stranded, unsaved>>
outside == <<headless, address>>
vars == <<process, pc, arg, session, links, finding, found, server, outside, history, upsets>>

Args == [token : Tokens, api : Apis, address : Addresses]
Files == [token : Tokens, api : Apis, torn : BOOLEAN]

TypeOK ==
    /\ headless \in BOOLEAN /\ process \in {"off", "on", "failed"}
    /\ pc \in [Tasks -> {"idle", "asking", "saving", "starting", "beating", "reporting", "wiping"}]
    /\ arg \in [Tasks -> Args]
    /\ api \in Apis /\ token \in Tokens /\ needsLogin \in BOOLEAN /\ file \in Files
    /\ control \in Tokens /\ data \in Tokens /\ timers \in BOOLEAN
    /\ ghost \in BOOLEAN
    /\ enabled \in BOOLEAN /\ scanner \in BOOLEAN
    /\ device \in Addresses /\ named \in BOOLEAN /\ dirty \in BOOLEAN
    /\ valid \subseteq Tokens \X Apis /\ issued \in Tokens /\ row \in Addresses
    /\ address \in Addresses /\ overlap \in BOOLEAN /\ stranded \in BOOLEAN
    /\ unsaved \in BOOLEAN /\ upsets \in 0 .. MaxUpsets

Nothing == [token |-> 0, api |-> Default, address |-> 0]

\* The agent was never used before.
Init ==
    /\ headless \in BOOLEAN /\ process = "off" /\ api = Default /\ token = 0 /\ needsLogin = FALSE
    /\ pc = [t \in Tasks |-> "idle"]
    /\ arg = [t \in Tasks |-> Nothing]
    /\ file = [token |-> 0, api |-> Default, torn |-> FALSE]
    /\ control = 0 /\ data = 0 /\ ghost = FALSE
    /\ timers = FALSE /\ enabled = FALSE /\ scanner = FALSE
    /\ device = 0 /\ named = FALSE /\ dirty = FALSE
    /\ valid = {} /\ issued = 0 /\ row = 0 /\ address = 1
    /\ overlap = FALSE /\ stranded = FALSE /\ unsaved = FALSE /\ upsets = 0

-----------------------------------------------------------------------------
(* Steps that procedures share *)

Wait(t, what, tok, at) ==
    /\ pc' = [pc EXCEPT ![t] = what]
    /\ arg' = [arg EXCEPT ![t] = [token |-> tok, api |-> at,
                                 address |-> IF what = "reporting" THEN device ELSE 0]]

Done(t) == pc' = [pc EXCEPT ![t] = "idle"] /\ arg' = [arg EXCEPT ![t] = Nothing]

Writing == {t \in Tasks : pc[t] \in {"saving", "wiping"}}

\* seeded fault: the file gets what was waited for, as it is
WriteAll(t) == file' = arg[t]

Write(t) == file' = [token |-> arg[t].token, api |-> arg[t].api, torn |-> FALSE]

\* Closing the control connection.  It may be open or, as any connection that has just
\* broken, be dialled again; close leaves a socket alone that is not open yet: it opens
\* later, and the agent has no hold of it.
Close == ghost' \in {ghost, ghost \/ control # 0}

\* seeded fault: the connections are opened with the token that was saved
ConnectSaved ==
    \E t \in Writing :
        /\ control' = arg[t].token /\ data' = arg[t].token
        /\ Close
        /\ timers' = TRUE
        /\ scanner' = enabled /\ UNCHANGED enabled

\* connectControl and connectDataPlane leave everything alone without a token.
Connect ==
    /\ control' = IF token = 0 THEN control ELSE token
    /\ data' = IF token = 0 THEN data ELSE token
    /\ IF token = 0 THEN UNCHANGED ghost ELSE Close
    /\ timers' = TRUE
    /\ scanner' = enabled /\ UNCHANGED enabled

\* clearCredentials up to the wait for the file; at is the API from now on.
Wipe(t, at) ==
    /\ token' = 0 /\ needsLogin' = TRUE /\ device' = 0 /\ named' = FALSE
    /\ api' = at
    /\ Wait(t, "wiping", 0, at)
    /\ overlap' = (overlap \/ Writing # {})
    /\ UNCHANGED <<process, file, links, finding, dirty, server, outside, stranded, unsaved>>

\* seeded fault: the data plane is left open
WipedHalf(t) ==
    /\ pc[t] = "wiping" /\ Write(t)
    /\ control' = 0 /\ Close
    /\ timers' = FALSE /\ scanner' = FALSE /\ unsaved' = FALSE
    /\ IF headless THEN Wait(t, "asking", 0, api) ELSE Done(t)
    /\ UNCHANGED <<process, api, token, needsLogin, data, enabled, found, server, outside,
                   overlap, stranded, upsets>>

\* The rest of clearCredentials, and of handleAuthFailure.
Wiped(t) ==
    /\ pc[t] = "wiping" /\ Write(t)
    /\ control' = 0 /\ Close
    /\ data' = 0 /\ timers' = FALSE /\ scanner' = FALSE /\ unsaved' = FALSE
    /\ IF headless THEN Wait(t, "asking", 0, api) ELSE Done(t)
    /\ UNCHANGED <<process, api, token, needsLogin, enabled, found, server, outside,
                   overlap, stranded, upsets>>

\* The process ends, or start throws and no window opens.  What is being written is then
\* whole, torn, or not there.
Ends(as) ==
    /\ process' = as /\ token' = 0 /\ needsLogin' = FALSE
    /\ pc' = [t \in Tasks |-> "idle"] /\ arg' = [t \in Tasks |-> Nothing]
    /\ api' = Default
    /\ file' \in {file} \cup {[token |-> arg[t].token, api |-> arg[t].api, torn |-> b] :
                               t \in Writing, b \in BOOLEAN}
    /\ control' = 0 /\ data' = 0 /\ ghost' = FALSE
    /\ timers' = FALSE /\ enabled' = FALSE /\ scanner' = FALSE
    /\ device' = 0 /\ named' = FALSE /\ dirty' = FALSE
    /\ overlap' = FALSE /\ stranded' = FALSE /\ unsaved' = FALSE
    /\ UNCHANGED <<server, outside, upsets>>

\* Quit, or a crash.
Exit ==
    /\ process = "on"
    /\ Ends("off")

\* saveConfig rejects, and the rest of the procedure is left out: connections and timers
\* stay as they are.  In the headless agent nobody catches that; in the desktop it is
\* fatal to start alone.
WriteFails(t) ==
    /\ t \in Writing /\ upsets < MaxUpsets
    /\ IF headless \/ t = "start" THEN Ends(IF headless THEN "off" ELSE "failed") ELSE
         /\ file' \in {file, [token |-> arg[t].token, api |-> arg[t].api, torn |-> TRUE]}
         /\ unsaved' = TRUE
         /\ Done(t) /\ upsets' = upsets + 1
         /\ UNCHANGED <<process, api, token, needsLogin, links, finding, found, server,
                        outside, overlap, stranded>>

\* Such a connection is refused, or breaks; it is not dialled again.
GhostEnds ==
    /\ ghost /\ ghost' = FALSE
    /\ UNCHANGED <<process, pc, arg, session, control, data, timers, finding, found,
                   server, outside, history, upsets>>

-----------------------------------------------------------------------------
(* Starting *)

Start ==
    /\ process = "off" /\ ~file.torn
    /\ process' = "on" /\ api' = file.api /\ token' = file.token
    /\ needsLogin' = (file.token = 0) /\ enabled' = TRUE
    /\ CASE file.token # 0 -> Wait("start", "starting", file.token, file.api)
         [] file.token = 0 /\ headless -> Wait("start", "asking", 0, file.api)
         [] OTHER -> UNCHANGED <<pc, arg>>
    /\ UNCHANGED <<file, links, scanner, found, server, outside, history, upsets>>

\* loadConfig throws: the window is never opened.
StartFails ==
    /\ process = "off" /\ file.torn /\ process' = "failed"
    /\ UNCHANGED <<pc, arg, session, links, finding, found, server, outside, history, upsets>>

-----------------------------------------------------------------------------
(* Logging in and out *)

\* The tray, the login form and the settings are there when start has ended.
User == process = "on" /\ ~headless /\ pc["start"] = "idle"

Login ==
    /\ User /\ needsLogin /\ pc["login"] = "idle"
    /\ Wait("login", "asking", 0, api)
    /\ UNCHANGED <<process, session, links, finding, found, server, outside, history, upsets>>

\* seeded fault: the file is written before the token is set
RegisteredLate(t) ==
    /\ pc[t] = "asking" /\ issued < MaxTokens
    /\ issued' = issued + 1 /\ valid' = valid \cup {<<issued + 1, arg[t].api>>}
    /\ token' = issued + 1 /\ needsLogin' = FALSE /\ stranded' = FALSE
    /\ Wait(t, "saving", token, api)
    /\ overlap' = (overlap \/ Writing # {})
    /\ UNCHANGED <<process, api, file, links, finding, found, row, outside, unsaved, upsets>>

\* registerAgent answers, and applyRegistration waits for the file.
Registered(t) ==
    /\ pc[t] = "asking" /\ issued < MaxTokens
    /\ issued' = issued + 1 /\ valid' = valid \cup {<<issued + 1, arg[t].api>>}
    /\ token' = issued + 1 /\ needsLogin' = FALSE /\ stranded' = FALSE
    /\ Wait(t, "saving", issued + 1, api)
    /\ overlap' = (overlap \/ Writing # {})
    /\ UNCHANGED <<process, api, file, links, finding, found, row, outside, unsaved, upsets>>

\* Nobody catches the error in the headless agent.
RegisterFails(t) ==
    /\ pc[t] = "asking"
    /\ IF headless THEN Ends("off") ELSE
         /\ Done(t)
         /\ UNCHANGED <<process, session, links, finding, found, server, outside, history, upsets>>

Saved(t) ==
    /\ pc[t] = "saving" /\ Write(t)
    /\ Connect
    /\ unsaved' = (unsaved /\ token = 0)
    /\ IF token = 0 THEN Done(t) ELSE Wait(t, "beating", token, api)
    /\ UNCHANGED <<process, api, token, needsLogin, found, server, outside, overlap,
                   stranded, upsets>>

\* Reset Login in the tray, or settings that name another API.
Reset(at) ==
    /\ User /\ pc["reset"] = "idle"
    /\ upsets < MaxUpsets /\ upsets' = upsets + 1
    /\ Wipe("reset", at)

-----------------------------------------------------------------------------
(* Heartbeats *)

Accepted(t) == <<arg[t].token, arg[t].api>> \in valid

Beat ==
    /\ timers /\ token # 0 /\ pc["beat"] = "idle"
    /\ Wait("beat", "beating", token, api)
    /\ UNCHANGED <<process, session, links, finding, found, server, outside, history, upsets>>

BeatOk(t) ==
    /\ pc[t] \in {"starting", "beating"} /\ Accepted(t)
    /\ needsLogin' = FALSE
    /\ Done(t)
    /\ IF pc[t] = "starting" THEN Connect ELSE UNCHANGED <<links, finding>>
    /\ UNCHANGED <<process, api, token, file, found, server, outside, history, upsets>>

\* seeded fault: a rejected heartbeat is like a lost one
BeatIgnored(t) ==
    /\ pc[t] \in {"starting", "beating"} /\ ~Accepted(t)
    /\ Done(t)
    /\ UNCHANGED <<process, session, links, finding, found, server, outside, history, upsets>>

BeatRejected(t) ==
    /\ pc[t] \in {"starting", "beating"} /\ ~Accepted(t)
    /\ Wipe(t, api)
    /\ UNCHANGED upsets

\* No answer, or another error.
BeatLost(t) ==
    /\ pc[t] \in {"starting", "beating"}
    /\ Done(t) /\ stranded' = (stranded \/ pc[t] = "starting")
    /\ UNCHANGED <<process, session, links, finding, found, server, outside, overlap, unsaved,
                   upsets>>

-----------------------------------------------------------------------------
(* Discovery and reports *)

\* setDiscoveryEnabled
Toggle ==
    /\ User
    /\ upsets < MaxUpsets /\ upsets' = upsets + 1
    /\ enabled' = ~enabled /\ scanner' = ~enabled
    /\ UNCHANGED <<process, pc, arg, session, links, found, server, outside, history>>

\* seeded fault: only a change makes the devices dirty
AnnounceChanged ==
    /\ scanner /\ device' = address /\ dirty' = (dirty \/ device # address)
    /\ UNCHANGED <<process, pc, arg, session, links, finding, named, server, outside, history, upsets>>

\* A dongle answers the discovery broadcast.
Announce ==
    /\ scanner /\ device' = address /\ dirty' = TRUE
    /\ UNCHANGED <<process, pc, arg, session, links, finding, named, server, outside, history, upsets>>

Move ==
    /\ address < MaxMoves + 1 /\ address' = address + 1
    /\ UNCHANGED <<headless, process, pc, arg, session, links, finding, found, server, history, upsets>>

Report ==
    /\ timers /\ token # 0 /\ pc["report"] = "idle" /\ dirty
    /\ IF device = 0 THEN dirty' = FALSE /\ UNCHANGED <<pc, arg>>
                     ELSE Wait("report", "reporting", token, api) /\ UNCHANGED dirty
    /\ UNCHANGED <<process, session, links, finding, device, named, server, outside, history, upsets>>

\* The answer names the dongle, if it is still in the map.
ReportOk ==
    /\ pc["report"] = "reporting" /\ Accepted("report")
    /\ row' = arg["report"].address
    /\ named' = (named \/ device # 0) /\ dirty' = FALSE
    /\ Done("report")
    /\ UNCHANGED <<process, session, links, finding, device, valid, issued, outside, history, upsets>>

ReportRejected ==
    /\ pc["report"] = "reporting" /\ ~Accepted("report")
    /\ Wipe("report", api)
    /\ UNCHANGED upsets

\* The report or its answer is lost.
ReportLost ==
    /\ pc["report"] = "reporting"
    /\ row' \in {row} \cup {a \in {arg["report"].address} : Accepted("report")}
    /\ Done("report")
    /\ UNCHANGED <<process, session, links, finding, found, valid, issued, outside, history, upsets>>

\* An operator revokes a token.
Revoke ==
    /\ \E v \in valid : valid' = valid \ {v}
    /\ UNCHANGED <<process, pc, arg, session, links, finding, found, issued, row, outside,
                   history, upsets>>

-----------------------------------------------------------------------------
Answers(t) == BeatOk(t) \/ BeatRejected(t) \/ BeatLost(t)

Next ==
    \/ Start \/ StartFails \/ Exit \/ GhostEnds \/ Login \/ Beat \/ Toggle \/ Announce \/ Move
    \/ Report \/ ReportOk \/ ReportRejected \/ ReportLost \/ Revoke
    \/ \E at \in Apis : Reset(at)
    \/ \E t \in Tasks : Registered(t) \/ RegisterFails(t) \/ Saved(t) \/ Wiped(t)
                          \/ WriteFails(t) \/ Answers(t)

Spec == Init /\ [][Next]_vars

\* Files get written, registrations end, timers fire, the dongle answers broadcasts again and again, and
\* the API is reached now and then.
Fairness ==
    /\ WF_vars(\E t \in Tasks : Saved(t) \/ Wiped(t))
    /\ WF_vars(\E t \in Tasks : Registered(t) \/ RegisterFails(t))
    /\ WF_vars(Beat) /\ WF_vars(Announce) /\ WF_vars(Report)
    /\ WF_vars(\E t \in Tasks \ {"beat"} : Answers(t))
    /\ SF_vars(BeatOk("beat") \/ BeatRejected("beat"))
    /\ SF_vars(ReportOk \/ ReportRejected)

FairSpec == Spec /\ Fairness

-----------------------------------------------------------------------------
\* agent-core.ts, applyRegistration and clearCredentials: when no procedure is between
\* its waits, each connection has the token of the agent or is closed, whichever logins,
\* resets and rejections overlapped, unless the last of them could not write the file.
LinksCurrent ==
    Writing = {} /\ ~unsaved => control \in {0, token} /\ data \in {0, token}

\* agent-core.ts, persistConfig: the file has the credentials that the agent has, unless
\* two procedures wrote it at once or the last could not.
FileIsCurrent ==
    process = "on" /\ Writing = {} /\ ~overlap /\ ~unsaved => file.token = token /\ file.api = api

\* agent-core.ts, start and applyRegistration: an agent is connected, with its timers,
\* exactly when it has a token, unless a wipe overlapped with a login, the heartbeat of
\* start had no answer or the file could not be written.
Online ==
    process = "on" /\ Writing = {} /\ pc["start"] = "idle"
      /\ ~overlap /\ ~stranded /\ ~unsaved =>
        control = token /\ data = token /\ (timers <=> token # 0)

\* agent-core.ts: credentials, connections and file agree.
AgentInvariant == TypeOK /\ LinksCurrent /\ FileIsCurrent /\ Online

\* agent-core.ts, sendHeartbeatNow: no agent keeps a token for ever that the API
\* rejects, revoked or from another API.
NoticesRejection ==
    []<>~(timers /\ token # 0 /\ <<token, api>> \notin valid /\ ~overlap)

\* agent-core.ts, reportNow: the API learns where the dongle is, and the agent its id,
\* although an announcement that arrives during a report is forgotten.
Reported ==
    <>[](timers /\ scanner /\ <<token, api>> \in valid) => <>[](row = address /\ named)

\* agent-core.ts, clearCredentials: an agent without a token has no connection.  One that
\* is closed while it is being dialled opens afterwards, and the API still reaches the agent.
NoGhosts == token = 0 /\ Writing = {} => ~ghost

\* agent-core.ts, heartbeat: who is logged out sees the login form.
AsksForLogin == User /\ token = 0 => needsLogin

\* agent-core.ts, handleAuthFailure: a token is dropped by a reset or because it was
\* rejected itself.
KeepsToken ==
    [][token # 0 /\ <<token, api>> \in valid /\ token' = 0 =>
        process' = "off" \/ \E at \in Apis : Reset(at)]_vars

\* main.ts of the desktop: the agent can be started again.
StartsAgain == process # "failed"
=============================================================================
