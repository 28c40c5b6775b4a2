---------------------------- MODULE SpeakerQueue ----------------------------
(***************************************************************************)
(* The speaker queue of one room: the DTMF digits of its callers (dtmf),   *)
(* an operator's grant and withdrawal of a request (speakerRequestAction), *)
(* and the mute, unmute and drop of a participant (action), which write    *)
(* the same participants row.                                              *)
(*                                                                         *)
(* Every SQL statement and every command to a sidecar is one step.  A      *)
(* handler runs under the context of its HTTP request (the SIP edge gives  *)
(* a digit 750 ms), so it may be cut short at any step; its errors are     *)
(* ignored or end it.                                                      *)
(*                                                                         *)
(* A request is <<participant, n>>, its n-th row in speaker_requests; a    *)
(* call is <<participant, n>>, its n-th row in call_legs.  The status      *)
(* GRANTED is in the queries but is never written.                         *)
(***************************************************************************)
EXTENDS Naturals, FiniteSets

CONSTANTS
    Participants,   \* the listeners of the room
    Presses,        \* the dtmf requests served at a time
    Moderators,     \* the operator requests served at a time
    MaxSpeakers,    \* ROOM_MAX_ACTIVE_SPEAKERS
    MaxRequests,    \* bound on the requests ever made in the room
    MaxCalls        \* bound on the calls a participant ever receives

ASSUME SpeakerAssumption ==
    /\ IsFiniteSet(Participants) /\ IsFiniteSet(Moderators)
    /\ MaxSpeakers \in Nat \ {0}
    /\ MaxRequests \in Nat /\ MaxCalls \in Nat

Requests == Participants \X (1..MaxRequests)
Calls == Participants \X (1..MaxCalls)

VARIABLES
    request,    \* speaker_requests.status; "NONE" before the row is inserted
    onLeg,      \* speaker_requests.call_leg_id: which call of its participant
    desired,    \* participants.desired_state
    calls,      \* how many call_legs rows the participant has
    up,         \* the participants whose latest call_legs row is not terminal
    dialing,    \* the participants whose dispatch has yet to write their row
    unmuted,    \* the calls the engine lets speak (external)
    accepted,   \* history: the calls an unmute command was accepted for
    press,      \* per dtmf request: dtmf
    caller,     \* per dtmf request: the call it found
    op,         \* per operator request: speakerRequestAction or action
    target      \* per operator request: its request, or <<participant, 0>>

media == <<calls, up, dialing>>
digits == <<press, caller>>
engine == <<unmuted, accepted>>
vars == <<request, onLeg, desired, calls, up, dialing, unmuted, accepted,
          press, caller, op, target>>

Open == {"QUEUED", "ACTIVE"}
OpenOf(p) == {r \in Requests : r[1] = p /\ request[r] \in Open}
Made == {r \in Requests : request[r] # "NONE"}
Speaking == {r \in Requests : request[r] = "ACTIVE"}

TypeOK ==
    /\ request \in [Requests -> Open \union {"NONE", "WITHDRAWN"}]
    /\ onLeg \in [Requests -> 0..MaxCalls]
    /\ desired \in [Participants -> {"MUTED", "HAND_RAISED", "ACTIVE", "DROPPED"}]
    /\ calls \in [Participants -> 0..MaxCalls]
    /\ up \subseteq Participants
    /\ dialing \subseteq Participants
    /\ unmuted \subseteq Calls
    /\ accepted \subseteq Calls
    /\ press \in [Presses -> {"idle", "look", "insert", "raise", "withdraw", "lower"}]
    /\ caller \in [Presses -> Participants \X (0..MaxCalls)]
    /\ op \in [Moderators -> {"idle", "unmute", "activate", "speak", "dismiss",
                              "silence", "drop"}]
    /\ target \in [Moderators -> Participants \X (0..MaxRequests)]

Init ==
    /\ request = [r \in Requests |-> "NONE"]
    /\ onLeg = [r \in Requests |-> 0]
    /\ desired = [p \in Participants |-> "MUTED"]
    /\ calls = [p \in Participants |-> 0]
    /\ up = {}
    /\ dialing = {}
    /\ unmuted = {}
    /\ accepted = {}
    /\ press = [d \in Presses |-> "idle"]
    /\ caller \in [Presses -> Participants \X {0}]
    /\ op = [o \in Moderators |-> "idle"]
    /\ target \in [Moderators -> Participants \X {0}]

PressTo(d, pc) == press' = [press EXCEPT ![d] = pc]
OpTo(o, pc) == op' = [op EXCEPT ![o] = pc]
Desire(p, state) == desired' = [desired EXCEPT ![p] = state]

-----------------------------------------------------------------------------
(* The call of a listener, as far as the queue looks at it: dispatched     *)
(* muted, its participant row written after the sidecar answered.  An      *)
(* event writes the state it carries whatever the row said, so a late one  *)
(* brings an ended call back, and leaves the participant row alone.        *)

Dial(p) ==
    /\ p \notin up
    /\ p \notin dialing
    /\ calls[p] < MaxCalls
    /\ calls' = [calls EXCEPT ![p] = @ + 1]
    /\ up' = up \union {p}
    /\ dialing' = dialing \union {p}
    /\ UNCHANGED <<request, onLeg, desired, engine, digits, op, target>>

DialRecorded(p) ==
    /\ p \in dialing
    /\ dialing' = dialing \ {p}
    /\ Desire(p, "MUTED")
    /\ UNCHANGED <<request, onLeg, calls, up, engine, digits, op, target>>

DialFailed(p) ==
    /\ p \in dialing
    /\ dialing' = dialing \ {p}
    /\ up' = up \ {p}
    /\ UNCHANGED <<request, onLeg, desired, calls, engine, digits, op, target>>

CallEvent(p) ==
    /\ calls[p] > 0
    /\ up' \in {up \union {p}, up \ {p}}
    /\ UNCHANGED <<request, onLeg, desired, calls, dialing, engine, digits, op,
                   target>>

-----------------------------------------------------------------------------
(* dtmf: the leg of the call must be live when it is looked up.            *)

PressDigit(d, p) ==
    /\ press[d] = "idle"
    /\ p \in up
    /\ caller' = [caller EXCEPT ![d] = <<p, calls[p]>>]
    /\ \E pc \in {"look", "withdraw"} : PressTo(d, pc)
    /\ UNCHANGED <<request, onLeg, desired, media, engine, op, target>>

(* INSERT ... WHERE NOT EXISTS (an open request of the participant): the   *)
(* subquery sees what was committed when the statement began.              *)
QueueLook(d) ==
    /\ press[d] = "look"
    /\ PressTo(d, IF OpenOf(caller[d][1]) = {} THEN "insert" ELSE "raise")
    /\ UNCHANGED <<request, onLeg, desired, media, engine, caller, op, target>>

Queued(d, r) ==
    /\ r[1] = caller[d][1]
    /\ request[r] = "NONE"
    /\ \A n \in 1..(r[2] - 1) : request[<<r[1], n>>] # "NONE"
    /\ Cardinality(Made) < MaxRequests
    /\ request' = [request EXCEPT ![r] = "QUEUED"]
    /\ onLeg' = [onLeg EXCEPT ![r] = caller[d][2]]
    /\ PressTo(d, "raise")

(* Mutants: no index over the open requests of a participant, and a        *)
(* conflict that queues the open request anew.                             *)
QueueRequest_NoIndex(d) ==
    /\ press[d] = "insert"
    /\ \E r \in Requests : Queued(d, r)
    /\ UNCHANGED <<desired, media, engine, caller, op, target>>

QueueRequest_Upsert(d) ==
    /\ press[d] = "insert"
    /\ IF OpenOf(caller[d][1]) = {}
       THEN \E r \in Requests : Queued(d, r)
       ELSE /\ request' = [r \in Requests |-> IF r \in OpenOf(caller[d][1])
                                              THEN "QUEUED" ELSE request[r]]
            /\ PressTo(d, "raise")
            /\ UNCHANGED onLeg
    /\ UNCHANGED <<desired, media, engine, caller, op, target>>

(* The index speaker_requests_open_uq refuses a second open request, which *)
(* a concurrent 0 or a late grant brought: the handler ends with an error. *)
QueueRequest(d) ==
    /\ press[d] = "insert"
    /\ IF OpenOf(caller[d][1]) = {}
       THEN \E r \in Requests : Queued(d, r)
       ELSE PressTo(d, "idle") /\ UNCHANGED <<request, onLeg>>
    /\ UNCHANGED <<desired, media, engine, caller, op, target>>

(* A mutant: the status of the request is written to the participant.      *)
RaiseHand_Status(d) ==
    /\ press[d] = "raise"
    /\ PressTo(d, "idle")
    /\ IF desired[caller[d][1]] = "DROPPED"
       THEN UNCHANGED desired ELSE Desire(caller[d][1], "QUEUED")
    /\ UNCHANGED <<request, onLeg, media, engine, caller, op, target>>

RaiseHand(d) ==
    /\ press[d] = "raise"
    /\ PressTo(d, "idle")
    /\ IF desired[caller[d][1]] = "DROPPED"
       THEN UNCHANGED desired ELSE Desire(caller[d][1], "HAND_RAISED")
    /\ UNCHANGED <<request, onLeg, media, engine, caller, op, target>>

HashWithdraw(d) ==
    /\ press[d] = "withdraw"
    /\ PressTo(d, "lower")
    /\ request' = [r \in Requests |->
                     IF r \in OpenOf(caller[d][1]) THEN "WITHDRAWN" ELSE request[r]]
    /\ UNCHANGED <<onLeg, desired, media, engine, caller, op, target>>

(* Only a raised hand is lowered: a participant who speaks stays ACTIVE,   *)
(* and the engine is told nothing.                                         *)
HashLower(d) ==
    /\ press[d] = "lower"
    /\ PressTo(d, "idle")
    /\ IF desired[caller[d][1]] = "HAND_RAISED"
       THEN Desire(caller[d][1], "MUTED") ELSE UNCHANGED desired
    /\ UNCHANGED <<request, onLeg, media, engine, caller, op, target>>

DigitCut(d) ==
    /\ press[d] # "idle"
    /\ PressTo(d, "idle")
    /\ UNCHANGED <<request, onLeg, desired, media, engine, caller, op, target>>

-----------------------------------------------------------------------------
(* speakerRequestAction, grant.  The status of the request is read and     *)
(* not looked at, the speakers are counted before the command and the      *)
(* request is made ACTIVE after it.                                        *)

(* A mutant: the speakers are not counted.                                 *)
GrantCount_Unlimited(o, r) ==
    /\ op[o] = "idle"
    /\ request[r] # "NONE"
    /\ target' = [target EXCEPT ![o] = r]
    /\ OpTo(o, "unmute")
    /\ UNCHANGED <<request, onLeg, desired, media, engine, digits>>

GrantCount(o, r) ==
    /\ op[o] = "idle"
    /\ request[r] # "NONE"
    /\ Cardinality(Speaking) < MaxSpeakers
    /\ target' = [target EXCEPT ![o] = r]
    /\ OpTo(o, "unmute")
    /\ UNCHANGED <<request, onLeg, desired, media, engine, digits>>

(* The command names the leg of the request, which may have ended; that    *)
(* an engine accepts it then is its own affair.                            *)
GrantUnmute(o) ==
    LET call == <<target[o][1], onLeg[target[o]]>> IN
    /\ op[o] = "unmute"
    /\ OpTo(o, "activate")
    /\ unmuted' = unmuted \union {call}
    /\ accepted' = accepted \union {call}
    /\ UNCHANGED <<request, onLeg, desired, media, digits, target>>

(* A mutant: the request is recorded although the command failed.          *)
GrantError_Recorded(o) ==
    /\ op[o] = "unmute"
    /\ OpTo(o, "activate")
    /\ UNCHANGED <<request, onLeg, desired, media, engine, digits, target>>

(* No live node owns the call, or the command failed; it may have taken    *)
(* effect all the same.                                                    *)
GrantError(o) ==
    /\ op[o] = "unmute"
    /\ OpTo(o, "idle")
    /\ unmuted' \in {unmuted,
                     unmuted \union {<<target[o][1], onLeg[target[o]]>>}}
    /\ UNCHANGED <<request, onLeg, desired, media, accepted, digits, target>>

(* A mutant: no index over the open requests of a participant.             *)
GrantActivate_NoIndex(o) ==
    /\ op[o] = "activate"
    /\ OpTo(o, "speak")
    /\ request' = [request EXCEPT ![target[o]] = "ACTIVE"]
    /\ UNCHANGED <<onLeg, desired, media, engine, digits, target>>

(* Whatever the request has become, unless the index forbids it because    *)
(* the participant has another open request; that error is ignored.        *)
GrantActivate(o) ==
    /\ op[o] = "activate"
    /\ OpTo(o, "speak")
    /\ request' = IF OpenOf(target[o][1]) \subseteq {target[o]}
                  THEN [request EXCEPT ![target[o]] = "ACTIVE"] ELSE request
    /\ UNCHANGED <<onLeg, desired, media, engine, digits, target>>

(* The last step of a grant, and of the unmute action.                     *)
SpeakRecorded(o) ==
    /\ op[o] = "speak"
    /\ OpTo(o, "idle")
    /\ Desire(target[o][1], "ACTIVE")
    /\ UNCHANGED <<request, onLeg, media, engine, digits, target>>

-----------------------------------------------------------------------------
(* speakerRequestAction, withdraw: the engine is told nothing.             *)

Dismiss(o, r) ==
    /\ op[o] = "idle"
    /\ request[r] # "NONE"
    /\ target' = [target EXCEPT ![o] = r]
    /\ OpTo(o, "dismiss")
    /\ UNCHANGED <<request, onLeg, desired, media, engine, digits>>

DismissRequest(o) ==
    /\ op[o] = "dismiss"
    /\ OpTo(o, "silence")
    /\ request' = IF request[target[o]] \in Open
                  THEN [request EXCEPT ![target[o]] = "WITHDRAWN"] ELSE request
    /\ UNCHANGED <<onLeg, desired, media, engine, digits, target>>

(* The last step of a dismissal, and of the mute action.                   *)
SilenceRecorded(o) ==
    /\ op[o] = "silence"
    /\ OpTo(o, "idle")
    /\ Desire(target[o][1], "MUTED")
    /\ UNCHANGED <<request, onLeg, media, engine, digits, target>>

-----------------------------------------------------------------------------
(* action: mute, unmute and drop of a participant's latest live call.      *)
(* The speaker requests are left as they are.                              *)

Act(o, p) ==
    /\ op[o] = "idle"
    /\ p \in up
    /\ target' = [target EXCEPT ![o] = <<p, 0>>]

OperatorMute(o, p) ==
    /\ Act(o, p)
    /\ OpTo(o, "silence")
    /\ unmuted' = unmuted \ {<<p, calls[p]>>}
    /\ UNCHANGED <<request, onLeg, desired, media, accepted, digits>>

OperatorUnmute(o, p) ==
    /\ Act(o, p)
    /\ OpTo(o, "speak")
    /\ unmuted' = unmuted \union {<<p, calls[p]>>}
    /\ accepted' = accepted \union {<<p, calls[p]>>}
    /\ UNCHANGED <<request, onLeg, desired, media, digits>>

OperatorDrop(o, p) ==
    /\ Act(o, p)
    /\ OpTo(o, "drop")
    /\ up' = up \ {p}
    /\ UNCHANGED <<request, onLeg, desired, calls, dialing, engine, digits>>

DropRecorded(o) ==
    /\ op[o] = "drop"
    /\ OpTo(o, "idle")
    /\ Desire(target[o][1], "DROPPED")
    /\ UNCHANGED <<request, onLeg, media, engine, digits, target>>

OperatorCut(o) ==
    /\ op[o] # "idle"
    /\ OpTo(o, "idle")
    /\ UNCHANGED <<request, onLeg, desired, media, engine, digits, target>>

-----------------------------------------------------------------------------
PressStep(d) ==
    \/ QueueLook(d) \/ QueueRequest(d) \/ RaiseHand(d)
    \/ HashWithdraw(d) \/ HashLower(d) \/ DigitCut(d)

OpStep(o) ==
    \/ GrantUnmute(o) \/ GrantError(o) \/ GrantActivate(o) \/ SpeakRecorded(o)
    \/ DismissRequest(o) \/ SilenceRecorded(o) \/ DropRecorded(o) \/ OperatorCut(o)

Next ==
    \/ \E p \in Participants :
          Dial(p) \/ DialRecorded(p) \/ DialFailed(p) \/ CallEvent(p)
    \/ \E d \in Presses : PressStep(d)
    \/ \E d \in Presses, p \in Participants : PressDigit(d, p)
    \/ \E o \in Moderators : OpStep(o)
    \/ \E o \in Moderators, r \in Requests : GrantCount(o, r) \/ Dismiss(o, r)
    \/ \E o \in Moderators, p \in Participants :
          OperatorMute(o, p) \/ OperatorUnmute(o, p) \/ OperatorDrop(o, p)

Spec == Init /\ [][Next]_vars

-----------------------------------------------------------------------------
(* Safety.                                                                 *)

(* A participant has at most one open request, although a late grant may   *)
(* revive a withdrawn one while a new one is queued: the index does it.    *)
OneOpenRequest ==
    \A q, r \in Requests :
        q[1] = r[1] /\ request[q] \in Open /\ request[r] \in Open => q = r

(* The limit on speakers is counted before the command and claimed after   *)
(* it, while other grants count and claim and withdrawn requests are       *)
(* granted all the same: it is exceeded by at most the grants under way    *)
(* beside the last one, and not by those that came before.                 *)
SpeakersBounded ==
    Cardinality(Speaking) + 1 <= MaxSpeakers + Cardinality(Moderators)

(* "updates the request and participant state only after command           *)
(* acceptance": a request is ACTIVE, and a participant recorded as         *)
(* speaking, only if a sidecar accepted an unmute of the call.             *)
RecordedAfterAcceptance ==
    /\ \A r \in Requests : request[r] = "ACTIVE" => <<r[1], onLeg[r]>> \in accepted
    /\ \A p \in Participants :
          desired[p] = "ACTIVE" => \E n \in 1..MaxCalls : <<p, n>> \in accepted

(* The requests keep the promises of FloorContract, with a place for each  *)
(* speaker of the limit and for every operator request but one: the # of a *)
(* caller (dtmf 2301) closes one request, not several, one that was made   *)
(* never waits again (2307), and each that a grant makes ACTIVE (2403)     *)
(* finds a place, although it may have been withdrawn since the count.     *)
Floor == INSTANCE FloorContract WITH
    status <- request, Places <- (MaxSpeakers + Cardinality(Moderators)) - 1
RequestsKeepContract == Floor!Spec

-----------------------------------------------------------------------------
(* What the documentation says of the queue and the code does not ensure.  *)

(* "Approved callers become speakers; everybody else [...] remains muted": *)
(* when a mute or the dismissal of a request is recorded, the engine does  *)
(* not let the caller speak.                                               *)
SilencedAreMuted ==
    [][\A o \in Moderators :
          SilenceRecorded(o) => <<target[o][1], calls[target[o][1]]>> \notin unmuted]_vars

=============================================================================
