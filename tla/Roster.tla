------------------------------- MODULE Roster -------------------------------
(***************************************************************************)
(* The fixed roster of one room in the control API: its host, its          *)
(* listeners, its participant limit, and the requests that change them     *)
(* while others start, stop, dial and delete the room.                     *)
(*                                                                         *)
(* Every handler here looks before it leaps: it reads room_state, counts   *)
(* the participants, and writes in a later statement.  Each statement, and *)
(* each transaction whose statements see one snapshot or hold the row      *)
(* lock of the room, is one atomic action; but the deletion of the room,   *)
(* whose lock does not keep events off its calls, is two.  The foreign     *)
(* keys, unique indexes and locks of PostgreSQL are guards of the writes.  *)
(*                                                                         *)
(* Whether a live room is STARTING or RUNNING, and how it comes to be      *)
(* stopped, is told by RoomLifecycle: here it is LIVE.  Names and numbers  *)
(* of listeners, the TFN and the dialling region are left out: a request   *)
(* that they make the code refuse is one that Fails.                       *)
(***************************************************************************)
EXTENDS Naturals, FiniteSets

CONSTANTS
    Participants,  \* the LISTENER rows that may ever exist
    Host,          \* the row of the host
    Details,       \* the names and numbers a host may have
    NoDetails,     \* bridges.host_name and host_phone are NULL
    Requests,      \* the API requests served at a time
    Limits,        \* the participant limits that may be set
    MaxImport      \* bound on the rows of one bulk import

ASSUME HostAssumption == Host \notin Participants
ASSUME DetailsAssumption == NoDetails \notin Details
ASSUME LimitAssumption == Limits \subseteq Nat \ {0} /\ MaxImport \in Nat \ {0}
ASSUME RequestsAssumption == IsFiniteSet(Requests) /\ Requests # {}

VARIABLES
    room,      \* bridges.room_state; "GONE" once the row is deleted
    details,   \* bridges.host_name and host_phone
    roster,    \* the rows of participants of this room
    limit,     \* bridges.participant_limit
    called,    \* the participants with a row of call_legs
    legs,      \* those of them with one that is not terminal
    request,   \* per request: where its handler is and what it has read
    held,      \* the starts whose host row still exists
    highest    \* history: the highest limit the room ever had

database == <<room, details, roster, limit, called, legs>>
vars == <<room, details, roster, limit, called, legs, request, held, highest>>

Rows == Participants \union {Host}
Steps == {"idle", "add", "insert", "dial", "dispatch", "import", "start",
          "found", "missing", "remove", "delete", "settings", "resize"}
Request == [at : Steps, rows : SUBSET Rows, limit : Limits \union {0}]
Idle == [at |-> "idle", rows |-> {}, limit |-> 0]

TypeOK ==
    /\ room \in {"READY", "LIVE", "GONE"}
    /\ details \in Details \union {NoDetails}
    /\ roster \subseteq Rows
    /\ limit \in Limits /\ highest \in Limits
    /\ called \subseteq roster /\ legs \subseteq called
    /\ request \in [Requests -> Request]
    /\ held \subseteq Requests

Init ==
    /\ room = "READY" /\ details = NoDetails /\ roster = {}
    /\ limit \in Limits /\ highest = limit
    /\ called = {} /\ legs = {} /\ held = {}
    /\ request = [r \in Requests |-> Idle]

-----------------------------------------------------------------------------
\* Where a request stands, and the rows it may still bring.
At(r, step) == request[r].at = step
Goes(r, step, rows) ==
    request' = [request EXCEPT ![r] = [at |-> step, rows |-> rows, limit |-> 0]]
Answers(r) == request' = [request EXCEPT ![r] = Idle]

\* A check that passes: nothing is written yet.
Looks(r, step, rows) ==
    /\ Goes(r, step, rows)
    /\ UNCHANGED <<database, held, highest>>

\* Identifiers are new: no row and no request has them.
Fresh == Participants \ (roster \union UNION {request[r].rows : r \in Requests})

(* The row of the room is there, and no deletion holds its lock: whoever   *)
(* changes it, or inserts a row with a foreign key to it, waits for that.  *)
Writable == room # "GONE" /\ \A r \in Requests : ~At(r, "delete")

Count == Cardinality(roster)

(* A mutant: count > limit instead of count >= limit.                      *)
HasRoom_OffByOne(n) == Count + n <= limit + 1

HasRoom(n) == Count + n <= limit

(* A mutant: the legs stay, as without ON DELETE CASCADE.                  *)
Deletes_NoCascade(rows) ==
    /\ roster' = roster \ rows
    /\ UNCHANGED <<called, legs>>

\* The rows go, and by ON DELETE CASCADE their calls, live ones too.
Deletes(rows) ==
    /\ roster' = roster \ rows
    /\ called' = called \ rows
    /\ legs' = legs \ rows

-----------------------------------------------------------------------------
(* host: one transaction under the row lock of the room, so that its check *)
(* of room_state still holds when it writes.                               *)
SetHost(d) ==
    /\ room = "READY" /\ Writable
    /\ details' = d /\ roster' = roster \union {Host}
    /\ UNCHANGED <<room, limit, called, legs, request, held, highest>>

ClearHost ==
    /\ room = "READY" /\ Writable
    /\ details' = NoDetails /\ Deletes({Host}) /\ held' = {}
    /\ UNCHANGED <<room, limit, request, highest>>

\* addRosterParticipant: room_state, then the count, then the INSERT.
AddOpen(r) ==
    /\ At(r, "idle") /\ room = "READY"
    /\ Looks(r, "add", {})

AddCount(r, p) ==
    /\ At(r, "add") /\ room # "GONE"
    /\ p \in Fresh /\ HasRoom(1)
    /\ Looks(r, "insert", {p})

AddInsert(r) ==
    /\ At(r, "insert") /\ Writable
    /\ roster' = roster \union request[r].rows
    /\ Answers(r)
    /\ UNCHANGED <<room, details, limit, called, legs, held, highest>>

\* dispatchDial: state and count in one query, the INSERT, then the call.
DialCheck(r, p) ==
    /\ At(r, "idle") /\ room = "LIVE"
    /\ p \in Fresh /\ HasRoom(1)
    /\ Looks(r, "dial", {p})

DialInsert(r) ==
    /\ At(r, "dial") /\ Writable
    /\ roster' = roster \union request[r].rows
    /\ Goes(r, "dispatch", request[r].rows)
    /\ UNCHANGED <<room, details, limit, called, legs, held, highest>>

\* addParticipant, the fan-out and the host's call: of a room that is live
\* when they look, dispatchExistingParticipant inserts a leg later on.
DispatchCheck(r, p) ==
    /\ At(r, "idle") /\ room = "LIVE" /\ p \in roster
    /\ Looks(r, "dispatch", {p})

Dispatch(r) ==
    /\ At(r, "dispatch") /\ Writable /\ request[r].rows \subseteq roster
    /\ called' = called \union request[r].rows
    /\ legs' = legs \union request[r].rows
    /\ Answers(r)
    /\ UNCHANGED <<room, details, roster, limit, held, highest>>

(* The state of a call is changed: by an event, whatever the row says and  *)
(* however late it comes, by a command that failed, a drop, a view of the  *)
(* room.  A call that was over may be up again.                            *)
LegChanges(p) ==
    /\ p \in called
    /\ legs' \in {legs \union {p}, legs \ {p}}
    /\ UNCHANGED <<room, details, roster, limit, called, request, held, highest>>

\* batch: one query decides, and the transaction that follows trusts it;
\* only the unique index on the HOST row stops a second host.
ImportCheck(r, rows) ==
    /\ At(r, "idle") /\ room = "READY"
    /\ IsFiniteSet(rows) /\ Cardinality(rows) \in 1..MaxImport
    /\ Host \in rows => details = NoDetails
    /\ HasRoom(Cardinality(rows))
    /\ Looks(r, "import", rows)

(* A mutant: an import replaces the host it finds (ON CONFLICT DO UPDATE). *)
ImportCommit_Upsert(r) ==
    /\ At(r, "import") /\ Writable
    /\ IF Host \in request[r].rows THEN details' \in Details
                                   ELSE details' = details
    /\ roster' = roster \union request[r].rows
    /\ Answers(r)
    /\ UNCHANGED <<room, limit, called, legs, held, highest>>

ImportCommit(r) ==
    /\ At(r, "import") /\ Writable
    /\ Host \in request[r].rows => Host \notin roster
    /\ IF Host \in request[r].rows THEN details' \in Details
                                   ELSE details' = details
    /\ roster' = roster \union request[r].rows
    /\ Answers(r)
    /\ UNCHANGED <<room, limit, called, legs, held, highest>>

-----------------------------------------------------------------------------
(* startRoom up to its commit: the checks, the search for the host row,    *)
(* and the writes.  The row found is a foreign key of the session, so it   *)
(* must still be there; a row not found is inserted, so there must still   *)
(* be none.  Whether an earlier session bars the way is told by            *)
(* RoomLifecycle: here a room that has become live may be started again.   *)
StartCheck(r) ==
    /\ At(r, "idle") /\ room = "READY"
    /\ details # NoDetails /\ HasRoom(0)
    /\ Looks(r, "start", {})

StartHost(r) ==
    /\ At(r, "start") /\ room # "GONE"
    /\ \/ Host \in roster /\ Goes(r, "found", {}) /\ held' = held \union {r}
       \/ Host \notin roster /\ Goes(r, "missing", {}) /\ held' = held
    /\ UNCHANGED <<database, highest>>

(* A mutant: a host row is looked up and not tied to the session.          *)
StartCommit_NoKey(r) ==
    /\ Writable
    /\ \/ At(r, "found")
       \/ At(r, "missing") /\ Host \notin roster
    /\ room' = "LIVE" /\ held' = held \ {r}
    /\ roster' = IF At(r, "missing") THEN roster \union {Host} ELSE roster
    /\ Answers(r)
    /\ UNCHANGED <<details, limit, called, legs, highest>>

StartCommit(r) ==
    /\ Writable
    /\ \/ At(r, "found") /\ r \in held
       \/ At(r, "missing") /\ Host \notin roster
    /\ room' = "LIVE" /\ roster' = roster \union {Host}
    /\ held' = held \ {r}
    /\ Answers(r)
    /\ UNCHANGED <<details, limit, called, legs, highest>>

\* stopRoom, a failed host call, the end of the host's call.
Stop ==
    /\ room = "LIVE" /\ Writable /\ room' = "READY"
    /\ UNCHANGED <<details, roster, limit, called, legs, request, held, highest>>

\* action "remove": the live legs are counted, then the row is deleted.
RemoveCount(r, p) ==
    /\ At(r, "idle") /\ p \in roster \ {Host}
    /\ p \notin legs
    /\ Looks(r, "remove", {p})

RemoveDelete(r) ==
    /\ At(r, "remove")
    /\ Deletes(request[r].rows)
    /\ Answers(r)
    /\ UNCHANGED <<room, details, limit, held, highest>>

(* deleteBridge: under the row lock of the room its live legs are counted  *)
(* and the room is deleted, with all that hangs on it.                     *)
DeleteCount(r) ==
    /\ At(r, "idle") /\ Writable
    /\ legs = {}
    /\ Looks(r, "delete", {})

DeleteRoom(r) ==
    /\ At(r, "delete")
    /\ room' = "GONE" /\ details' = NoDetails
    /\ Deletes(roster) /\ held' = {}
    /\ Answers(r)
    /\ UNCHANGED <<limit, highest>>

\* adminUpdateRoom: room_state, then the count, then the UPDATE.
SettingsOpen(r) ==
    /\ At(r, "idle") /\ room = "READY"
    /\ Looks(r, "settings", {})

SettingsCount(r, l) ==
    /\ At(r, "settings") /\ Count <= l
    /\ request' = [request EXCEPT ![r] = [at |-> "resize", rows |-> {}, limit |-> l]]
    /\ UNCHANGED <<database, held, highest>>

SettingsWrite(r) ==
    /\ At(r, "resize") /\ Writable
    /\ limit' = request[r].limit
    /\ highest' = IF limit' > highest THEN limit' ELSE highest
    /\ Answers(r)
    /\ UNCHANGED <<room, details, roster, called, legs, held>>

\* A refusal, an error, a client that disconnects: the handler ends there.
Fails(r) ==
    /\ ~At(r, "idle")
    /\ Answers(r) /\ held' = held \ {r}
    /\ UNCHANGED <<database, highest>>

-----------------------------------------------------------------------------
Next ==
    \/ \E d \in Details : SetHost(d)
    \/ ClearHost \/ Stop
    \/ \E p \in Rows : LegChanges(p)
    \/ \E r \in Requests :
          \/ AddOpen(r) \/ AddInsert(r) \/ DialInsert(r) \/ Dispatch(r)
          \/ ImportCommit(r) \/ StartCheck(r) \/ StartHost(r) \/ StartCommit(r)
          \/ RemoveDelete(r) \/ DeleteCount(r) \/ DeleteRoom(r)
          \/ SettingsOpen(r) \/ SettingsWrite(r) \/ Fails(r)
          \/ \E p \in Fresh : AddCount(r, p) \/ DialCheck(r, p)
          \/ \E p \in roster : DispatchCheck(r, p) \/ RemoveCount(r, p)
          \/ \E rows \in SUBSET (Fresh \union {Host}) : ImportCheck(r, rows)
          \/ \E l \in Limits : SettingsCount(r, l)

Spec == Init /\ [][Next]_vars

-----------------------------------------------------------------------------
(* startRoom, main.go 1095 and 1108: a live room has a host to call,       *)
(* whatever is cleared, imported or removed while it starts: what keeps it *)
(* so is the foreign key of the session, not the check of host_name.       *)
LiveRoomHasHost == room = "LIVE" => Host \in roster

(* host, main.go 906, "stop the room before editing its host", and batch,  *)
(* 1557: while a room is live no request changes whom it calls its host,   *)
(* even one that looked before the room started.                           *)
HostFixed ==
    [][room = "LIVE" /\ room' = "LIVE" => details' = details]_vars

(* addRosterParticipant 1005, dispatchDial 1339 and batch 1579: the limit  *)
(* is checked before the INSERT and held by nothing.  The listeners exceed *)
(* it by no more than the other requests in flight can bring.              *)
RosterBounded ==
    Cardinality(roster \ {Host}) <= highest + (Cardinality(Requests) - 1) * MaxImport

=============================================================================
