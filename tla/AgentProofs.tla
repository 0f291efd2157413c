---------------------------- MODULE AgentProofs ----------------------------
(***************************************************************************)
(* The invariant of Agent, for all base URLs and bounds: credentials,      *)
(* connections and file of a bridge agent agree, however logins, resets,   *)
(* rejected tokens, exits and crashes overlap.                             *)
(*                                                                         *)
(* AgentInvariant speaks of the moments when no procedure waits for the    *)
(* file.  The inductive invariant says what holds in between: what a       *)
(* procedure is writing, which connections a wipe has yet to close (or     *)
(* leaves open when the file could not be written), and                    *)
(* that nothing else runs while start waits for its heartbeat.             *)
(***************************************************************************)
EXTENDS Agent, TLAPS

\* A process that does not run has no procedures, connections or timers.
Off ==
    process # "on" =>
        /\ \A t \in Tasks : pc[t] = "idle"
        /\ token = 0 /\ control = 0 /\ data = 0 /\ ~timers

\* A registration writes a token, a wipe writes that there is none.
Written ==
    \A t \in Tasks :
        /\ pc[t] = "saving" => arg[t].token # 0
        /\ pc[t] = "wiping" => arg[t].token = 0

\* Only start waits in "starting", and it waits alone.
Starting ==
    /\ \A t \in Tasks : pc[t] = "starting" => t = "start"
    /\ pc["start"] = "starting" =>
          token # 0 /\ ~timers /\ \A t \in Tasks \ {"start"} : pc[t] = "idle"

\* Stale connections are open only while a wipe has yet to close them, or a registration
\* to replace them, or because one of these could not write the file.
Links ==
    /\ token = 0 /\ ~unsaved /\ (\A t \in Tasks : pc[t] # "wiping") => control = 0 /\ data = 0
    /\ token # 0 /\ ~unsaved /\ (\A t \in Tasks : pc[t] # "saving") =>
          control \in {0, token} /\ data \in {0, token}

\* Without an overlap there is one writer, and it writes what the agent has.
Writers ==
    ~overlap =>
        /\ \A t, u \in Writing : t = u
        /\ \A t \in Writing : arg[t].token = token /\ arg[t].api = api

File ==
    process = "on" /\ ~overlap /\ ~unsaved /\ Writing = {} =>
        file.token = token /\ file.api = api

\* Only the heartbeat of start, or a file that could not be written, keeps an agent with
\* a token from being connected.
Connected ==
    process = "on" /\ ~overlap /\ ~stranded /\ ~unsaved /\ Writing = {}
      /\ pc["start"] # "starting" =>
        control = token /\ data = token /\ (timers <=> token # 0)

Agreement == Off /\ Written /\ Starting /\ Links /\ Writers /\ File /\ Connected

IInv == TypeOK /\ Agreement

LEMMA InitIInv == Init => IInv
<1> SUFFICES ASSUME Init PROVE IInv  OBVIOUS
<1> USE AgentAssumption DEF Init
<1>0. MaxTokens \in Nat /\ MaxMoves \in Nat /\ MaxUpsets \in Nat  OBVIOUS
<1>1. TypeOK
  <2>1. 0 \in Tokens /\ 0 \in Addresses /\ 1 \in Addresses /\ 0 \in 0 .. MaxUpsets
    BY <1>0 DEF Tokens, Addresses
  <2>2. Nothing \in Args  BY <2>1 DEF Nothing, Args
  <2> QED  BY <2>1, <2>2 DEF TypeOK, Files
<1>2. \A t \in Tasks : pc[t] = "idle"  BY DEF Tasks
<1>3. Agreement
  BY <1>2 DEF Agreement, Off, Written, Starting, Links, Writers, File, Connected, Writing, Tasks
<1> QED  BY <1>1, <1>3 DEF IInv

-----------------------------------------------------------------------------
(* Steps that write nothing *)

\* A step that leaves credentials, connections and procedures alone.
LEMMA StillKeeps ==
    ASSUME Agreement, UNCHANGED <<process, pc, arg, api, token, file, control, data, timers,
                                  overlap, stranded, unsaved>>
    PROVE  Agreement'
<1>1. Writing' = Writing  BY DEF Writing
<1> QED
  BY <1>1 DEF Agreement, Off, Written, Starting, Links, Writers, File, Connected

\* A procedure that is not writing goes on to wait for the API, or ends.
LEMMA WaitKeeps ==
    ASSUME IInv, NEW t \in Tasks, NEW what \in {"idle", "asking", "beating", "reporting"},
           UNCHANGED <<process, api, token, file, control, data, timers, overlap, unsaved>>,
           pc[t] \notin {"saving", "wiping"}, process = "on",
           pc' = [pc EXCEPT ![t] = what],
           \A u \in Tasks \ {t} : arg'[u] = arg[u],
           stranded => stranded', pc[t] = "starting" => stranded',
           pc["start"] = "starting" => t = "start"
    PROVE  Agreement'
<1> USE DEF IInv, TypeOK, Agreement
<1>1. \A u \in Tasks : pc'[u] = IF u = t THEN what ELSE pc[u]  OBVIOUS
<1>2. Writing' = Writing  BY <1>1 DEF Writing
<1>3. \A u \in Writing : u # t /\ u \in Tasks  BY DEF Writing
<1>4. Written'  BY <1>1 DEF Written
<1>5. Starting'  BY <1>1 DEF Starting, Tasks
<1>6. Links'  BY <1>1 DEF Links
<1>7. Writers' /\ File'  BY <1>2, <1>3 DEF Writers, File
<1>8. Connected'  BY <1>1, <1>2 DEF Connected, Tasks
<1>9. Off'  BY DEF Off
<1> QED  BY <1>4, <1>5, <1>6, <1>7, <1>8, <1>9

-----------------------------------------------------------------------------
(* Wiping and registering *)

\* The agent that wipes runs, and its start has ended, unless start itself wipes.
LEMMA Runs ==
    ASSUME IInv, NEW t \in Tasks, pc[t] # "idle"
    PROVE  process = "on" /\ (pc["start"] = "starting" => t = "start")
BY DEF IInv, Agreement, Off, Starting

LEMMA WipeKeeps ==
    ASSUME IInv, NEW t \in Tasks, NEW at \in Apis, Wipe(t, at), process = "on",
           pc["start"] = "starting" => t = "start"
    PROVE  Agreement'
<1> USE DEF IInv, TypeOK, Agreement, Wipe, Wait, links, history
<1>1. \A u \in Tasks : pc'[u] = IF u = t THEN "wiping" ELSE pc[u]  OBVIOUS
<1>2. /\ arg'[t].token = 0 /\ arg'[t].api = at
      /\ \A u \in Tasks \ {t} : arg'[u] = arg[u]
  OBVIOUS
<1>3. t \in Writing' /\ \A u \in Writing' : u = t \/ u \in Writing  BY <1>1 DEF Writing
<1>4. Written'  BY <1>1, <1>2 DEF Written
<1>5. Starting'  BY <1>1 DEF Starting, Tasks
<1>6. Links'  BY <1>1 DEF Links
<1>7. Writers'  BY <1>2, <1>3 DEF Writers
<1>8. File' /\ Connected' /\ Off'  BY <1>3 DEF File, Connected, Off
<1> QED  BY <1>4, <1>5, <1>6, <1>7, <1>8

LEMMA RegisteredKeeps ==
    ASSUME IInv, NEW t \in Tasks, Registered(t)
    PROVE  Agreement'
<1> USE DEF IInv, TypeOK, Agreement, Registered, Wait, links, history
<1>0. process = "on" /\ pc["start"] # "starting"
  BY Runs DEF Starting
<1>1. \A u \in Tasks : pc'[u] = IF u = t THEN "saving" ELSE pc[u]  OBVIOUS
<1>2. /\ arg'[t].token = token' /\ arg'[t].api = api' /\ token' # 0
      /\ \A u \in Tasks \ {t} : arg'[u] = arg[u]
  BY AgentAssumption DEF Tokens
<1>3. t \in Writing' /\ \A u \in Writing' : u = t \/ u \in Writing  BY <1>1 DEF Writing
<1>4. Written'  BY <1>1, <1>2 DEF Written
<1>5. Starting'  BY <1>0, <1>1 DEF Starting, Tasks
<1>6. Links'  BY <1>1, <1>2 DEF Links
<1>7. Writers'  BY <1>2, <1>3 DEF Writers
<1>8. File' /\ Connected' /\ Off'  BY <1>0, <1>3 DEF File, Connected, Off
<1> QED  BY <1>4, <1>5, <1>6, <1>7, <1>8

-----------------------------------------------------------------------------
(* The file is written *)

\* What is known of the writer, and of the others when it is done.
LEMMA Writer ==
    ASSUME IInv, NEW t \in Tasks, pc[t] \in {"saving", "wiping"}, Write(t),
           NEW what \in {"idle", "asking", "beating"}, pc' = [pc EXCEPT ![t] = what]
    PROVE  /\ process = "on" /\ pc["start"] # "starting"
           /\ \A u \in Tasks : pc'[u] = IF u = t THEN what ELSE pc[u]
           /\ Writing' = Writing \ {t}
           /\ ~overlap => Writing' = {} /\ arg[t].token = token /\ arg[t].api = api
           /\ ~overlap => file'.token = token /\ file'.api = api
<1> USE DEF IInv, TypeOK, Agreement
<1>1. process = "on" /\ pc["start"] # "starting"  BY Runs DEF Starting
<1>2. \A u \in Tasks : pc'[u] = IF u = t THEN what ELSE pc[u]  OBVIOUS
<1>3. Writing' = Writing \ {t}  BY <1>2 DEF Writing
<1>4. t \in Writing  BY DEF Writing
<1>5. ~overlap => Writing' = {} /\ arg[t].token = token /\ arg[t].api = api
  BY <1>3, <1>4 DEF Writers
<1>6. ~overlap => file'.token = token /\ file'.api = api  BY <1>5 DEF Write
<1> QED  BY <1>1, <1>2, <1>3, <1>5, <1>6

LEMMA WipedKeeps ==
    ASSUME IInv, NEW t \in Tasks, Wiped(t)
    PROVE  Agreement'
<1> USE DEF IInv, TypeOK, Agreement, Wiped
<1>1. PICK what \in {"idle", "asking"} :
        pc' = [pc EXCEPT ![t] = what] /\ \A u \in Tasks \ {t} : arg'[u] = arg[u]
  BY DEF Done, Wait
<1>2. /\ process = "on" /\ pc["start"] # "starting"
      /\ \A u \in Tasks : pc'[u] = IF u = t THEN what ELSE pc[u]
      /\ Writing' = Writing \ {t}
      /\ ~overlap => Writing' = {} /\ arg[t].token = token
      /\ ~overlap => file'.token = token /\ file'.api = api
  BY <1>1, Writer
<1>3. arg[t].token = 0  BY DEF Written
<1>4. Written'  BY <1>1, <1>2 DEF Written
<1>5. Starting'  BY <1>1, <1>2 DEF Starting, Tasks
<1>6. Links'  BY DEF Links
<1>7. \A u \in Writing : u \in Tasks  BY DEF Writing
<1>8. Writers'  BY <1>1, <1>2, <1>7 DEF Writers
<1>9. File' /\ Off'  BY <1>2 DEF File, Off
<1>10. Connected'  BY <1>2, <1>3 DEF Connected
<1> QED  BY <1>4, <1>5, <1>6, <1>8, <1>9, <1>10

LEMMA SavedKeeps ==
    ASSUME IInv, NEW t \in Tasks, Saved(t)
    PROVE  Agreement'
<1> USE DEF IInv, TypeOK, Agreement, Saved, Connect
<1>1. PICK what \in {"idle", "beating"} :
        pc' = [pc EXCEPT ![t] = what] /\ \A u \in Tasks \ {t} : arg'[u] = arg[u]
  BY DEF Done, Wait
<1>2. /\ process = "on" /\ pc["start"] # "starting"
      /\ \A u \in Tasks : pc'[u] = IF u = t THEN what ELSE pc[u]
      /\ Writing' = Writing \ {t}
      /\ ~overlap => Writing' = {} /\ arg[t].token = token
      /\ ~overlap => file'.token = token /\ file'.api = api
  BY <1>1, Writer
<1>3. arg[t].token # 0  BY DEF Written
<1>4. Written'  BY <1>1, <1>2 DEF Written
<1>5. Starting'  BY <1>1, <1>2 DEF Starting, Tasks
<1>6. Links'  BY <1>2 DEF Links
<1>7. \A u \in Writing : u \in Tasks  BY DEF Writing
<1>8. Writers'  BY <1>1, <1>2, <1>7 DEF Writers
<1>9. File' /\ Off'  BY <1>2 DEF File, Off
<1>10. Connected'  BY <1>2, <1>3 DEF Connected
<1> QED  BY <1>4, <1>5, <1>6, <1>8, <1>9, <1>10

-----------------------------------------------------------------------------
(* Starting and ending *)

LEMMA EndsKeeps ==
    ASSUME NEW as \in {"off", "failed"}, Ends(as)
    PROVE  Agreement'
<1>1. \A t \in Tasks : pc'[t] = "idle"  BY DEF Ends
<1>2. "start" \in Tasks /\ Writing' = {}  BY <1>1 DEF Writing, Tasks
<1> QED
  BY <1>1, <1>2 DEF Ends, Agreement, Off, Written, Starting, Links, Writers, File, Connected

\* Nothing was written, and the connections stay: the history knows.
LEMMA WriteFailsKeeps ==
    ASSUME IInv, NEW t \in Tasks, WriteFails(t)
    PROVE  Agreement'
<1> USE DEF IInv, TypeOK, Agreement
<1>1. CASE headless \/ t = "start"
  <2>1. PICK as \in {"off", "failed"} : Ends(as)  BY <1>1 DEF WriteFails
  <2> QED  BY <2>1, EndsKeeps
<1>2. CASE ~(headless \/ t = "start")
  <2>1. /\ pc' = [pc EXCEPT ![t] = "idle"] /\ arg' = [arg EXCEPT ![t] = Nothing]
        /\ unsaved' = TRUE /\ pc[t] \in {"saving", "wiping"}
        /\ UNCHANGED <<process, api, token, control, data, timers, overlap, stranded>>
    BY <1>2 DEF WriteFails, Done, Writing, links
  <2>2. /\ \A u \in Tasks : pc'[u] = IF u = t THEN "idle" ELSE pc[u]
        /\ \A u \in Tasks \ {t} : arg'[u] = arg[u]
    BY <2>1
  <2>3. Writing' = Writing \ {t}  BY <2>1, <2>2 DEF Writing
  <2>4. Off' /\ Written' /\ Starting'
    BY <2>1, <2>2, Runs DEF Off, Written, Starting, Tasks
  <2>5. Links' /\ File' /\ Connected'  BY <2>1 DEF Links, File, Connected
  <2>6. \A u \in Writing : u \in Tasks  BY DEF Writing
  <2>7. Writers'  BY <2>1, <2>2, <2>3, <2>6 DEF Writers
  <2> QED  BY <2>4, <2>5, <2>7
<1> QED  BY <1>1, <1>2

LEMMA StartKeeps ==
    ASSUME IInv, Start
    PROVE  Agreement'
<1> USE DEF IInv, TypeOK, Agreement, Start, Wait, links, history
<1>0. /\ \A t \in Tasks : pc[t] = "idle"
      /\ token = 0 /\ control = 0 /\ data = 0 /\ ~timers
      /\ "start" \in Tasks
  BY DEF Off, Tasks
<1>1. PICK what \in {"starting", "asking", "idle"} :
        /\ pc' = [pc EXCEPT !["start"] = what]
        /\ what = "starting" <=> file.token # 0
        /\ \A t \in Tasks \ {"start"} : arg'[t] = arg[t]
  <2>1. CASE file.token # 0  BY <2>1
  <2>2. CASE file.token = 0 /\ headless  BY <2>2
  <2>3. CASE file.token = 0 /\ ~headless
    <3>1. pc' = pc /\ arg' = arg  BY <2>3
    <3>2. pc' = [pc EXCEPT !["start"] = "idle"]  BY <1>0, <3>1
    <3> QED  BY <2>3, <3>1, <3>2
  <2> QED  BY <2>1, <2>2, <2>3
<1>2. \A t \in Tasks : pc'[t] = IF t = "start" THEN what ELSE "idle"  BY <1>0, <1>1
<1>3. Writing' = {}  BY <1>2 DEF Writing
<1>4. Written'  BY <1>2 DEF Written
<1>5. Starting'  BY <1>0, <1>1, <1>2 DEF Starting
<1>6. Links'  BY <1>0 DEF Links
<1>7. Writers' /\ File' /\ Off'  BY <1>3 DEF Writers, File, Off
<1>8. Connected'  BY <1>0, <1>1, <1>2 DEF Connected
<1> QED  BY <1>4, <1>5, <1>6, <1>7, <1>8

LEMMA BeatOkKeeps ==
    ASSUME IInv, NEW t \in Tasks, BeatOk(t)
    PROVE  Agreement'
<1> USE DEF IInv, TypeOK, Agreement, BeatOk, Done, history
<1>0. process = "on" /\ (pc["start"] = "starting" => t = "start")  BY Runs
<1>1. /\ pc' = [pc EXCEPT ![t] = "idle"]
      /\ \A u \in Tasks \ {t} : arg'[u] = arg[u]
  OBVIOUS
<1>2. CASE pc[t] # "starting"  BY <1>0, <1>1, <1>2, WaitKeeps DEF links
<1>3. CASE pc[t] = "starting"
  <2>1. t = "start" /\ token # 0 /\ \A u \in Tasks \ {t} : pc[u] = "idle"
    BY <1>3 DEF Starting
  <2>2. control' = token /\ data' = token /\ timers'  BY <1>3, <2>1 DEF Connect
  <2>3. \A u \in Tasks : pc[u] \notin {"saving", "wiping"} /\ pc'[u] = "idle"  BY <1>3, <2>1
  <2>4. Writing = {} /\ Writing' = {}  BY <2>3 DEF Writing
  <2>5. Written' /\ Starting'  BY <2>1, <2>3 DEF Written, Starting
  <2>6. Links' /\ Connected'  BY <2>1, <2>2 DEF Links, Connected
  <2>7. Writers' /\ File' /\ Off'  BY <1>0, <2>4 DEF Writers, File, Off
  <2> QED  BY <2>5, <2>6, <2>7
<1> QED  BY <1>2, <1>3
-----------------------------------------------------------------------------
(* Types *)

Phases == {"idle", "asking", "saving", "starting", "beating", "reporting", "wiping"}

LEMMA Bounds ==
    /\ MaxTokens \in Nat /\ MaxMoves \in Nat /\ MaxUpsets \in Nat
    /\ 0 \in Tokens /\ 0 \in Addresses /\ Nothing \in Args
BY AgentAssumption DEF Tokens, Addresses, Nothing, Args

LEMMA WaitTypes ==
    ASSUME TypeOK, NEW t \in Tasks, NEW what \in Phases, NEW tok \in Tokens, NEW at \in Apis,
           Wait(t, what, tok, at)
    PROVE  pc' \in [Tasks -> Phases] /\ arg' \in [Tasks -> Args]
<1>1. pc' \in [Tasks -> Phases]  BY DEF TypeOK, Wait, Phases
<1>2. PICK a \in Args : arg' = [arg EXCEPT ![t] = a]
  BY Bounds DEF Wait, TypeOK, Args
<1> QED  BY <1>1, <1>2 DEF TypeOK

LEMMA DoneTypes ==
    ASSUME TypeOK, NEW t \in Tasks, Done(t)
    PROVE  pc' \in [Tasks -> Phases] /\ arg' \in [Tasks -> Args]
BY Bounds DEF TypeOK, Done, Phases

LEMMA WriteTypes ==
    ASSUME TypeOK, NEW t \in Tasks, Write(t)
    PROVE  file' \in Files
BY DEF TypeOK, Write, Files, Args

LEMMA ConnectTypes ==
    ASSUME TypeOK, Connect
    PROVE  /\ control' \in Tokens /\ data' \in Tokens /\ ghost' \in BOOLEAN
           /\ timers' \in BOOLEAN /\ scanner' \in BOOLEAN /\ enabled' \in BOOLEAN
BY DEF TypeOK, Connect, Close

LEMMA WipeTypes ==
    ASSUME TypeOK, NEW t \in Tasks, NEW at \in Apis, Wipe(t, at), upsets' \in 0 .. MaxUpsets
    PROVE  TypeOK'
<1>1. pc' \in [Tasks -> Phases] /\ arg' \in [Tasks -> Args]
  BY WaitTypes, Bounds DEF Wipe, Phases
<1> QED  BY <1>1, Bounds DEF TypeOK, Phases, Wipe, links, finding, server, outside

LEMMA EndsTypes ==
    ASSUME TypeOK, NEW as \in {"off", "failed"}, Ends(as)
    PROVE  TypeOK'
<1>1. \A t \in Tasks, b \in BOOLEAN : [token |-> arg[t].token, api |-> arg[t].api, torn |-> b] \in Files
  BY DEF TypeOK, Files, Args
<1>2. file' \in Files  BY <1>1 DEF Ends, TypeOK, Writing
<1> QED
  BY <1>2, Bounds, AgentAssumption DEF TypeOK, Ends, server, outside

LEMMA NextTypes ==
    ASSUME TypeOK, Next
    PROVE  TypeOK'
<1> USE Bounds DEF session, links, finding, found, server, history, outside
<1>1. CASE Start
  <2>1. file.token \in Tokens /\ file.api \in Apis  BY DEF TypeOK, Files
  <2>2. pc' \in [Tasks -> Phases] /\ arg' \in [Tasks -> Args]
    <3>1. "start" \in Tasks  BY DEF Tasks
    <3>2. CASE file.token # 0  BY <1>1, <2>1, <3>1, <3>2, WaitTypes DEF Start, Phases
    <3>3. CASE file.token = 0 /\ headless  BY <1>1, <2>1, <3>1, <3>3, WaitTypes DEF Start, Phases
    <3>4. CASE file.token = 0 /\ ~headless  BY <1>1, <3>4 DEF Start, TypeOK, Phases
    <3> QED  BY <3>2, <3>3, <3>4 DEF TypeOK
  <2> QED  BY <1>1, <2>1, <2>2 DEF TypeOK, Start, Phases
<1>2. CASE StartFails  BY <1>2 DEF TypeOK, StartFails
<1>3. CASE Exit  BY <1>3, EndsTypes DEF Exit
<1>4. CASE GhostEnds  BY <1>4, ZenonT(30) DEF TypeOK, GhostEnds
<1>5. CASE Login
  <2>1. pc' \in [Tasks -> Phases] /\ arg' \in [Tasks -> Args]
    BY <1>5, WaitTypes DEF Login, TypeOK, Phases, Tasks
  <2> QED  BY <1>5, <2>1 DEF TypeOK, Login, Phases
<1>6. CASE Beat
  <2>1. pc' \in [Tasks -> Phases] /\ arg' \in [Tasks -> Args]
    BY <1>6, WaitTypes DEF Beat, TypeOK, Phases, Tasks
  <2> QED  BY <1>6, <2>1 DEF TypeOK, Beat, Phases
<1>7. CASE Toggle  BY <1>7 DEF TypeOK, Toggle
<1>8. CASE Announce  BY <1>8 DEF TypeOK, Announce
<1>9. CASE Move  BY <1>9 DEF TypeOK, Move, Addresses
<1>10. CASE Report
  <2>1. pc' \in [Tasks -> Phases] /\ arg' \in [Tasks -> Args]
    <3>1. CASE device = 0  BY <1>10, <3>1 DEF Report, TypeOK, Phases
    <3>2. CASE device # 0  BY <1>10, <3>2, WaitTypes DEF Report, TypeOK, Phases, Tasks
    <3> QED  BY <3>1, <3>2
  <2> QED  BY <1>10, <2>1 DEF TypeOK, Report, Phases
<1>11. CASE ReportOk
  <2>1. "report" \in Tasks /\ arg["report"].address \in Addresses  BY DEF TypeOK, Tasks, Args
  <2>2. pc' \in [Tasks -> Phases] /\ arg' \in [Tasks -> Args]  BY <1>11, <2>1, DoneTypes DEF ReportOk
  <2> QED  BY <1>11, <2>1, <2>2 DEF TypeOK, ReportOk, Phases
<1>12. CASE ReportRejected
  BY <1>12, WipeTypes DEF ReportRejected, TypeOK, Tasks
<1>13. CASE ReportLost
  <2>1. "report" \in Tasks /\ arg["report"].address \in Addresses  BY DEF TypeOK, Tasks, Args
  <2>2. pc' \in [Tasks -> Phases] /\ arg' \in [Tasks -> Args]
    BY <1>13, <2>1, DoneTypes DEF ReportLost
  <2> QED  BY <1>13, <2>1, <2>2 DEF TypeOK, ReportLost, Phases
<1>14. CASE Revoke  BY <1>14 DEF TypeOK, Revoke
<1>15. ASSUME NEW at \in Apis, Reset(at)  PROVE TypeOK'
  <2>1. upsets' \in 0 .. MaxUpsets  BY <1>15 DEF Reset, TypeOK
  <2> QED  BY <1>15, <2>1, WipeTypes DEF Reset, Tasks
<1>16. ASSUME NEW t \in Tasks, Registered(t)  PROVE TypeOK'
  <2>1. issued + 1 \in Tokens /\ arg[t].api \in Apis /\ api \in Apis
    BY <1>16 DEF Registered, TypeOK, Tokens, Args
  <2>2. pc' \in [Tasks -> Phases] /\ arg' \in [Tasks -> Args]
    BY <1>16, <2>1, WaitTypes DEF Registered, Phases
  <2>3. valid' \subseteq Tokens \X Apis  BY <1>16, <2>1 DEF Registered, TypeOK
  <2> QED  BY <1>16, <2>1, <2>2, <2>3 DEF TypeOK, Registered, Phases
<1>17. ASSUME NEW t \in Tasks, RegisterFails(t)  PROVE TypeOK'
  <2>1. CASE headless  BY <1>17, <2>1, EndsTypes DEF RegisterFails
  <2>2. CASE ~headless
    <3>1. pc' \in [Tasks -> Phases] /\ arg' \in [Tasks -> Args]
      BY <1>17, <2>2, DoneTypes DEF RegisterFails
    <3> QED  BY <1>17, <2>2, <3>1 DEF TypeOK, RegisterFails, Phases
  <2> QED  BY <2>1, <2>2
<1>18. ASSUME NEW t \in Tasks, Saved(t)  PROVE TypeOK'
  <2>1. pc' \in [Tasks -> Phases] /\ arg' \in [Tasks -> Args]
    <3>1. CASE token = 0  BY <1>18, <3>1, DoneTypes DEF Saved
    <3>2. CASE token # 0  BY <1>18, <3>2, WaitTypes DEF Saved, TypeOK, Phases
    <3> QED  BY <3>1, <3>2
  <2>2. file' \in Files  BY <1>18, WriteTypes DEF Saved
  <2> QED  BY <1>18, <2>1, <2>2, ConnectTypes DEF TypeOK, Saved, Phases
<1>19. ASSUME NEW t \in Tasks, Wiped(t)  PROVE TypeOK'
  <2>1. pc' \in [Tasks -> Phases] /\ arg' \in [Tasks -> Args]
    <3>1. CASE ~headless  BY <1>19, <3>1, DoneTypes DEF Wiped
    <3>2. CASE headless  BY <1>19, <3>2, WaitTypes DEF Wiped, TypeOK, Phases
    <3> QED  BY <3>1, <3>2
  <2>2. file' \in Files  BY <1>19, WriteTypes DEF Wiped
  <2> QED  BY <1>19, <2>1, <2>2, ZenonT(30) DEF TypeOK, Wiped, Close, Phases
<1>20. ASSUME NEW t \in Tasks, BeatOk(t)  PROVE TypeOK'
  <2>1. pc' \in [Tasks -> Phases] /\ arg' \in [Tasks -> Args]
    BY <1>20, DoneTypes DEF BeatOk
  <2>2. CASE pc[t] = "starting"
    BY <1>20, <2>1, <2>2, ConnectTypes DEF TypeOK, BeatOk, Phases
  <2>3. CASE pc[t] # "starting"  BY <1>20, <2>1, <2>3, ZenonT(30) DEF TypeOK, BeatOk, Phases
  <2> QED  BY <2>2, <2>3
<1>21. ASSUME NEW t \in Tasks, BeatRejected(t)  PROVE TypeOK'
  BY <1>21, WipeTypes DEF BeatRejected, TypeOK
<1>22. ASSUME NEW t \in Tasks, BeatLost(t)  PROVE TypeOK'
  <2>1. pc' \in [Tasks -> Phases] /\ arg' \in [Tasks -> Args]
    BY <1>22, DoneTypes DEF BeatLost
  <2> QED  BY <1>22, <2>1 DEF TypeOK, BeatLost, Phases
<1>23. ASSUME NEW t \in Tasks, WriteFails(t)  PROVE TypeOK'
  <2>1. CASE headless \/ t = "start"
    <3>1. PICK as \in {"off", "failed"} : Ends(as)  BY <1>23, <2>1 DEF WriteFails
    <3> QED  BY <3>1, EndsTypes
  <2>2. CASE ~(headless \/ t = "start")
    <3>1. pc' \in [Tasks -> Phases] /\ arg' \in [Tasks -> Args]
      BY <1>23, <2>2, DoneTypes DEF WriteFails
    <3>2. [token |-> arg[t].token, api |-> arg[t].api, torn |-> TRUE] \in Files
      BY DEF TypeOK, Files, Args
    <3>5. /\ file' \in {file, [token |-> arg[t].token, api |-> arg[t].api, torn |-> TRUE]}
          /\ upsets < MaxUpsets /\ upsets' = upsets + 1
      BY <1>23, <2>2 DEF WriteFails
    <3>6. upsets' \in 0 .. MaxUpsets  BY <3>5 DEF TypeOK
    <3>7. file' \in Files  BY <3>2, <3>5, Zenon DEF TypeOK
    <3>3. file' \in Files /\ upsets' \in 0 .. MaxUpsets  BY <3>6, <3>7
    <3>4. unsaved' \in BOOLEAN /\ UNCHANGED <<process, api, token, needsLogin, links, finding,
                                              found, server, outside, overlap, stranded>>
      BY <1>23, <2>2 DEF WriteFails
    <3> QED  BY <3>1, <3>3, <3>4 DEF TypeOK, Phases
  <2> QED  BY <2>1, <2>2
<1> QED
  BY <1>1, <1>2, <1>3, <1>4, <1>5, <1>6, <1>7, <1>8, <1>9, <1>10, <1>11, <1>12, <1>13, <1>14,
     <1>15, <1>16, <1>17, <1>18, <1>19, <1>20, <1>21, <1>22, <1>23 DEF Next, Answers

-----------------------------------------------------------------------------
(* Every step *)

LEMMA NextAgreement ==
    ASSUME IInv, Next
    PROVE  Agreement'
<1> USE DEF session, links, finding, found, server, history, outside
<1> TypeOK /\ Agreement  BY DEF IInv
<1>1. CASE Start  BY <1>1, StartKeeps
<1>2. CASE StartFails
  <2>1. Writing' = Writing  BY <1>2 DEF StartFails, Writing
  <2> QED
    BY <1>2, <2>1 DEF StartFails, Agreement, Off, Written, Starting, Links, Writers, File, Connected
<1>3. CASE Exit  BY <1>3, EndsKeeps DEF Exit
<1>4. CASE GhostEnds  BY <1>4, StillKeeps DEF GhostEnds
<1>5. CASE Login
  BY <1>5, WaitKeeps DEF Login, User, Wait, TypeOK, Tasks
<1>6. CASE Beat
  <2>1. process = "on" /\ pc["start"] # "starting"
    BY <1>6 DEF Beat, Agreement, Off, Starting
  <2> QED  BY <1>6, <2>1, WaitKeeps DEF Beat, Wait, TypeOK, Tasks
<1>7. CASE Toggle  BY <1>7, StillKeeps DEF Toggle
<1>8. CASE Announce  BY <1>8, StillKeeps DEF Announce
<1>9. CASE Move  BY <1>9, StillKeeps DEF Move
<1>10. CASE Report
  <2>1. CASE device = 0  BY <1>10, <2>1, StillKeeps DEF Report
  <2>2. CASE device # 0
    <3>1. process = "on" /\ pc["start"] # "starting"
      BY <1>10 DEF Report, Agreement, Off, Starting
    <3> QED  BY <1>10, <2>2, <3>1, WaitKeeps DEF Report, Wait, TypeOK, Tasks
  <2> QED  BY <2>1, <2>2
<1>11. CASE ReportOk
  <2>1. "report" \in Tasks /\ pc["report"] = "reporting"  BY <1>11 DEF ReportOk, Tasks
  <2>2. process = "on" /\ pc["start"] # "starting"  BY <2>1, Runs
  <2> QED  BY <1>11, <2>1, <2>2, WaitKeeps DEF ReportOk, Done, TypeOK
<1>12. CASE ReportRejected
  <2>1. "report" \in Tasks /\ pc["report"] = "reporting"  BY <1>12 DEF ReportRejected, Tasks
  <2>2. process = "on" /\ pc["start"] # "starting"  BY <2>1, Runs
  <2> QED  BY <1>12, <2>1, <2>2, WipeKeeps DEF ReportRejected, TypeOK
<1>13. CASE ReportLost
  <2>1. "report" \in Tasks /\ pc["report"] = "reporting"  BY <1>13 DEF ReportLost, Tasks
  <2>2. process = "on" /\ pc["start"] # "starting"  BY <2>1, Runs
  <2> QED  BY <1>13, <2>1, <2>2, WaitKeeps DEF ReportLost, Done, TypeOK
<1>14. CASE Revoke  BY <1>14, StillKeeps DEF Revoke
<1>15. ASSUME NEW at \in Apis, Reset(at)  PROVE Agreement'
  BY <1>15, WipeKeeps DEF Reset, User, Tasks
<1>16. ASSUME NEW t \in Tasks, Registered(t)  PROVE Agreement'
  BY <1>16, RegisteredKeeps
<1>17. ASSUME NEW t \in Tasks, RegisterFails(t)  PROVE Agreement'
  <2>1. CASE headless  BY <1>17, <2>1, EndsKeeps DEF RegisterFails
  <2>2. CASE ~headless
    <3>1. pc[t] = "asking"  BY <1>17 DEF RegisterFails
    <3>2. process = "on" /\ pc["start"] # "starting"
      BY <3>1, Runs
    <3> QED  BY <1>17, <2>2, <3>1, <3>2, WaitKeeps DEF RegisterFails, Done, TypeOK
  <2> QED  BY <2>1, <2>2
<1>18. ASSUME NEW t \in Tasks, Saved(t)  PROVE Agreement'  BY <1>18, SavedKeeps
<1>19. ASSUME NEW t \in Tasks, Wiped(t)  PROVE Agreement'  BY <1>19, WipedKeeps
<1>20. ASSUME NEW t \in Tasks, BeatOk(t)  PROVE Agreement'  BY <1>20, BeatOkKeeps
<1>21. ASSUME NEW t \in Tasks, BeatRejected(t)  PROVE Agreement'
  <2>1. pc[t] # "idle"  BY <1>21 DEF BeatRejected
  <2>2. process = "on" /\ (pc["start"] = "starting" => t = "start")  BY <2>1, Runs
  <2> QED  BY <1>21, <2>2, WipeKeeps DEF BeatRejected, TypeOK
<1>22. ASSUME NEW t \in Tasks, BeatLost(t)  PROVE Agreement'
  <2>1. pc[t] \notin {"idle", "saving", "wiping"}  BY <1>22 DEF BeatLost
  <2>2. process = "on" /\ (pc["start"] = "starting" => t = "start")  BY <2>1, Runs
  <2> QED  BY <1>22, <2>1, <2>2, WaitKeeps DEF BeatLost, Done, TypeOK
<1>23. ASSUME NEW t \in Tasks, WriteFails(t)  PROVE Agreement'  BY <1>23, WriteFailsKeeps
<1> QED
  BY <1>1, <1>2, <1>3, <1>4, <1>5, <1>6, <1>7, <1>8, <1>9, <1>10, <1>11, <1>12, <1>13, <1>14,
     <1>15, <1>16, <1>17, <1>18, <1>19, <1>20, <1>21, <1>22, <1>23 DEF Next, Answers

LEMMA NextIInv == IInv /\ [Next]_vars => IInv'
<1>1. ASSUME IInv, Next PROVE IInv'  BY <1>1, NextTypes, NextAgreement DEF IInv
<1>2. ASSUME IInv, UNCHANGED vars PROVE IInv'
  <2> USE <1>2 DEF vars, session, links, finding, found, server, history, outside, IInv
  <2>1. TypeOK'  BY DEF TypeOK
  <2> QED  BY <2>1, StillKeeps
<1> QED  BY <1>1, <1>2

LEMMA IInvAgent == IInv => AgentInvariant
<1> SUFFICES ASSUME IInv PROVE AgentInvariant  OBVIOUS
<1> USE DEF IInv, Agreement
<1>1. Writing = {} => \A t \in Tasks : pc[t] \notin {"saving", "wiping"}  BY DEF Writing
<1>2. LinksCurrent  BY <1>1 DEF LinksCurrent, Links
<1>3. FileIsCurrent  BY DEF FileIsCurrent, File
<1>4. Online  BY DEF Online, Connected
<1> QED  BY <1>2, <1>3, <1>4 DEF AgentInvariant

-----------------------------------------------------------------------------
\* agent-core.ts: the inductive invariant, which says besides what AgentInvariant says
\* what is being written and which connections are stale in the middle of a procedure.
THEOREM Inductive == Spec => []IInv
<1>1. Init => IInv  BY InitIInv
<1>2. IInv /\ [Next]_vars => IInv'  BY NextIInv
<1> QED  BY <1>1, <1>2, PTL DEF Spec

\* agent-core.ts, applyRegistration, clearCredentials, persistConfig and start: whenever
\* no procedure waits for the file the connections have the agent's token or are closed,
\* the file says what the agent has, and an agent with a token is connected, unless the
\* last of them could not write the file; for all numbers of tokens, moves and resets,
\* and with exits and crashes at any point.
THEOREM AgentIsSound == Spec => []AgentInvariant
<1>1. IInv => AgentInvariant  BY IInvAgent
<1> QED  BY <1>1, Inductive, PTL
=============================================================================
