------------------------------ MODULE SipDialogs ------------------------------
(***************************************************************************)
(* The SIP edges: an INVITE is given to a node and bound to it, in the     *)
(* memory of the edge and in Redis, and the later requests of the dialog   *)
(* follow the binding, whichever edge they come to (invite, inDialog, and  *)
(* bind, destination, unbind of the registry).                             *)
(*                                                                         *)
(* Every use of the affinity map under its lock and every request to Redis *)
(* is one step of the handler of a SIP request.  A binding lasts two hours *)
(* and nothing renews it: it carries the number of the INVITE it was made  *)
(* for, and those made first are the first to be too old.                  *)
(***************************************************************************)
EXTENDS Naturals, FiniteSets

CONSTANTS
    Nodes,
    NoNode,         \* no binding
    Edges,
    Dialogs,        \* Call-IDs, each with its From-tag
    Requests,       \* SIP requests served at a time
    MaxInvites,     \* bound on the INVITEs without a To-tag of a dialog
    MaxFaults       \* bound on errors of Redis and crashes of edges

ASSUME DialogsAssumption ==
    /\ NoNode \notin Nodes
    /\ MaxInvites \in Nat /\ MaxFaults \in Nat

VARIABLES
    expired,    \* how many bindings of a dialog are older than two hours
    cache,      \* registry.affinity of each edge
    base,       \* sip-dialog:<Call-ID>
    tagged,     \* sip-dialog:<Call-ID>:<From-tag>: with no To-tag
    pc,         \* per request: where its handler is
    req,        \* per request: edge, dialog, kind and binding
    invites,    \* how many INVITEs of a dialog there were
    faults,
    chosen,     \* history: the nodes selected for a dialog
    routed,     \* history: the nodes its later requests were sent to
    answered,   \* dialogs with an INVITE that was answered
    over,       \* dialogs with a BYE that was forwarded
    cancelled,  \* dialogs with a CANCEL that was forwarded
    refused     \* dialogs with a request that found no destination

redis == <<base, tagged>>
party == <<answered, over, cancelled>>
history == <<chosen, routed, refused>>
vars == <<expired, cache, base, tagged, pc, req, invites, faults, chosen,
          routed, answered, over, cancelled, refused>>

(* LATER stands for a re-INVITE, ACK, UPDATE or INFO, DTMF for the INFO    *)
(* whose digit is handed to the control API.                               *)
Kinds == {"INVITE", "LATER", "DTMF", "BYE", "CANCEL"}

(* affinityEntry: the destination, and for which INVITE of the dialog.     *)
Bindings == [to : Nodes \union {NoNode}, made : 0..MaxInvites]
NoBinding == [to |-> NoNode, made |-> 0]

TypeOK ==
    /\ expired \in [Dialogs -> 0..MaxInvites]
    /\ cache \in [Edges -> [Dialogs -> Bindings]]
    /\ base \in [Dialogs -> Bindings]
    /\ tagged \in [Dialogs -> Bindings]
    /\ pc \in [Requests -> {"idle", "bind", "invite", "ringing",
                            "read", "fill", "send", "unbind", "delete"}]
    /\ req \in [Requests -> [edge : Edges, dialog : Dialogs, kind : Kinds,
                          entry : Bindings]]
    /\ invites \in [Dialogs -> 0..MaxInvites]
    /\ faults \in 0..MaxFaults
    /\ chosen \in [Dialogs -> SUBSET Nodes]
    /\ routed \in [Dialogs -> SUBSET Nodes]
    /\ answered \subseteq Dialogs /\ over \subseteq Dialogs
    /\ cancelled \subseteq Dialogs /\ refused \subseteq Dialogs

Init ==
    /\ expired = [d \in Dialogs |-> 0]
    /\ cache = [e \in Edges |-> [d \in Dialogs |-> NoBinding]]
    /\ base = [d \in Dialogs |-> NoBinding] /\ tagged = base
    /\ pc = [r \in Requests |-> "idle"]
    /\ req \in [Requests -> [edge : Edges, dialog : Dialogs, kind : {"INVITE"},
                        entry : {NoBinding}]]
    /\ invites = [d \in Dialogs |-> 0]
    /\ faults = 0
    /\ chosen = [d \in Dialogs |-> {}] /\ routed = chosen
    /\ answered = {} /\ over = {} /\ cancelled = {} /\ refused = {}

Goto(r, point) == pc' = [pc EXCEPT ![r] = point]
Edge(r) == req[r].edge
Dialog(r) == req[r].dialog
Entry(r) == req[r].entry
To(r) == Entry(r).to
Cache(e, d, b) == cache' = [cache EXCEPT ![e][d] = b]

(* The test of ExpiresAt; Redis drops its keys at the same age.            *)
Valid(d, b) == b.made > expired[d]

(* A request of a dialog arrives at an edge.                               *)
Arrives(r, e, d, kind, b) ==
    req' = [req EXCEPT ![r] = [edge |-> e, dialog |-> d, kind |-> kind, entry |-> b]]

-----------------------------------------------------------------------------
(* invite, without a To-tag: a new call, or one sent again after a         *)
(* challenge or by way of the other edge.  Any leased node may be the      *)
(* least loaded one; if there is none, the answer is 503.                  *)

Invite(r, e, d, n) ==
    /\ pc[r] = "idle"
    /\ invites[d] < MaxInvites
    /\ invites' = [invites EXCEPT ![d] = @ + 1]
    /\ chosen' = [chosen EXCEPT ![d] = @ \union {n}]
    /\ LET made == [to |-> n, made |-> invites[d] + 1] IN
       Arrives(r, e, d, "INVITE", made) /\ Cache(e, d, made)
    /\ Goto(r, "bind")
    /\ UNCHANGED <<expired, redis, faults, routed, party, refused>>

(* A mutant: only the key with the tag is written.                         *)
BindRedis_Tagged(r) ==
    /\ pc[r] = "bind"
    /\ tagged' = [tagged EXCEPT ![Dialog(r)] = Entry(r)]
    /\ Goto(r, "invite")
    /\ UNCHANGED <<expired, cache, base, req, invites, faults, party, history>>

(* Both keys, in one transaction.                                          *)
BindRedis(r) ==
    /\ pc[r] = "bind"
    /\ base' = [base EXCEPT ![Dialog(r)] = Entry(r)]
    /\ tagged' = [tagged EXCEPT ![Dialog(r)] = Entry(r)]
    /\ Goto(r, "invite")
    /\ UNCHANGED <<expired, cache, req, invites, faults, party, history>>

(* An error, though the transaction may have taken effect: 503.  The edge  *)
(* keeps its own binding.                                                  *)
BindFails(r) ==
    /\ pc[r] = "bind"
    /\ faults < MaxFaults
    /\ faults' = faults + 1
    /\ \/ UNCHANGED redis
       \/ /\ base' = [base EXCEPT ![Dialog(r)] = Entry(r)]
          /\ tagged' = [tagged EXCEPT ![Dialog(r)] = Entry(r)]
    /\ Goto(r, "idle")
    /\ UNCHANGED <<expired, cache, req, invites, party, history>>

ForwardInvite(r) ==
    /\ pc[r] = "invite"
    /\ Goto(r, "ringing")
    /\ UNCHANGED <<expired, cache, redis, req, invites, faults, party, history>>

(* The node answers the call, or refuses it.                               *)
Final(r) ==
    /\ pc[r] = "ringing"
    /\ answered' \in {answered, answered \union {Dialog(r)}}
    /\ Goto(r, "idle")
    /\ UNCHANGED <<expired, cache, redis, req, invites, faults, over, cancelled, history>>

-----------------------------------------------------------------------------
(* The oldest binding of a dialog that still counted is two hours old.     *)
Expire(d) ==
    /\ expired[d] < invites[d]
    /\ expired' = [expired EXCEPT ![d] = @ + 1]
    /\ UNCHANGED <<cache, redis, pc, req, invites, faults, party, history>>

-----------------------------------------------------------------------------
(* A request that belongs to a dialog: destination looks into the memory   *)
(* of the edge, then into Redis, and remembers what it found there.        *)

(* What the caller may send: a CANCEL while an INVITE is under way, other  *)
(* requests once it has the To-tag of an answer, and nothing new after the *)
(* BYE but the BYE again.                                                  *)
MaySend(d, kind) ==
    CASE kind = "CANCEL" -> \E r \in Requests : pc[r] = "ringing" /\ Dialog(r) = d
      [] kind = "BYE" -> d \in answered
      [] kind \in {"LATER", "DTMF"} -> d \in answered \ over
      [] OTHER -> FALSE

Cached(r, e, d, kind) ==
    /\ pc[r] = "idle"
    /\ MaySend(d, kind)
    /\ Valid(d, cache[e][d])
    /\ Arrives(r, e, d, kind, cache[e][d])
    /\ Goto(r, "send")
    /\ UNCHANGED <<expired, cache, redis, invites, faults, party, history>>

(* There is no binding in this edge, or it is too old.                     *)
NotCached(r, e, d, kind) ==
    /\ pc[r] = "idle"
    /\ MaySend(d, kind)
    /\ ~Valid(d, cache[e][d])
    /\ Arrives(r, e, d, kind, NoBinding)
    /\ Goto(r, "read")
    /\ UNCHANGED <<expired, cache, redis, invites, faults, party, history>>

(* The key with both tags was never written; without a To-tag, a CANCEL,   *)
(* it is the one the INVITE wrote.                                         *)
Stored(r) ==
    LET d == Dialog(r) IN
    IF req[r].kind = "CANCEL" /\ Valid(d, tagged[d]) THEN tagged[d] ELSE base[d]

Found(r) ==
    /\ pc[r] = "read"
    /\ Valid(Dialog(r), Stored(r))
    /\ req' = [req EXCEPT ![r].entry = Stored(r)]
    /\ Goto(r, "fill")
    /\ UNCHANGED <<expired, cache, redis, invites, faults, party, history>>

(* A mutant: a dialog that is not found is given to any node.              *)
NotFound_Selects(r) ==
    /\ pc[r] = "read"
    /\ ~Valid(Dialog(r), Stored(r))
    /\ \E n \in Nodes : req' = [req EXCEPT ![r].entry.to = n]
    /\ Goto(r, "send")
    /\ UNCHANGED <<expired, cache, redis, invites, faults, party, history>>

(* 481.                                                                    *)
NotFound(r) ==
    /\ pc[r] = "read"
    /\ ~Valid(Dialog(r), Stored(r))
    /\ refused' = refused \union {Dialog(r)}
    /\ Goto(r, "idle")
    /\ UNCHANGED <<expired, cache, redis, req, invites, faults, party, chosen, routed>>

(* An error of Redis is taken for a missing key: 481.                      *)
ReadFails(r) ==
    /\ pc[r] = "read"
    /\ faults < MaxFaults
    /\ faults' = faults + 1
    /\ Goto(r, "idle")
    /\ UNCHANGED <<expired, cache, redis, req, invites, party, history>>

Fill(r) ==
    /\ pc[r] = "fill"
    /\ Cache(Edge(r), Dialog(r), Entry(r))
    /\ Goto(r, "send")
    /\ UNCHANGED <<expired, redis, req, invites, faults, party, history>>

(* The request is forwarded; a digit is not, it goes to the control API.   *)
Send(r) ==
    /\ pc[r] = "send"
    /\ routed' = IF req[r].kind = "DTMF" THEN routed
                 ELSE [routed EXCEPT ![Dialog(r)] = @ \union {To(r)}]
    /\ over' = IF req[r].kind = "BYE" THEN over \union {Dialog(r)} ELSE over
    /\ cancelled' = IF req[r].kind = "CANCEL" THEN cancelled \union {Dialog(r)} ELSE cancelled
    /\ Goto(r, IF req[r].kind \in {"BYE", "CANCEL"} THEN "unbind" ELSE "idle")
    /\ UNCHANGED <<expired, cache, redis, req, invites, faults, answered, chosen, refused>>

(* unbind forgets the binding of this edge and the key without tags.       *)
UnbindLocal(r) ==
    /\ pc[r] = "unbind"
    /\ Cache(Edge(r), Dialog(r), NoBinding)
    /\ Goto(r, "delete")
    /\ UNCHANGED <<expired, redis, req, invites, faults, party, history>>

(* A mutant: the key is emptied.                                           *)
UnbindRedis_Empty(r) ==
    /\ pc[r] = "delete"
    /\ base' = [base EXCEPT ![Dialog(r)].to = ""]
    /\ Goto(r, "idle")
    /\ UNCHANGED <<expired, cache, tagged, req, invites, faults, party, history>>

UnbindRedis(r) ==
    /\ pc[r] = "delete"
    /\ base' = [base EXCEPT ![Dialog(r)] = NoBinding]
    /\ Goto(r, "idle")
    /\ UNCHANGED <<expired, cache, tagged, req, invites, faults, party, history>>

(* The error is ignored: the key stays.                                    *)
UnbindFails(r) ==
    /\ pc[r] = "delete"
    /\ faults < MaxFaults
    /\ faults' = faults + 1
    /\ Goto(r, "idle")
    /\ UNCHANGED <<expired, cache, redis, req, invites, party, history>>

-----------------------------------------------------------------------------
(* An edge ends and starts again, without what was in its memory.          *)
Crash(e) ==
    /\ faults < MaxFaults
    /\ faults' = faults + 1
    /\ cache' = [cache EXCEPT ![e] = [d \in Dialogs |-> NoBinding]]
    /\ pc' = [r \in Requests |-> IF Edge(r) = e THEN "idle" ELSE pc[r]]
    /\ UNCHANGED <<expired, redis, req, invites, party, history>>

Step(r) ==
    \/ BindRedis(r) \/ BindFails(r) \/ ForwardInvite(r) \/ Final(r)
    \/ Found(r) \/ NotFound(r) \/ ReadFails(r) \/ Fill(r) \/ Send(r)
    \/ UnbindLocal(r) \/ UnbindRedis(r) \/ UnbindFails(r)

Next ==
    \/ \E r \in Requests, e \in Edges, d \in Dialogs :
          \/ \E n \in Nodes : Invite(r, e, d, n)
          \/ \E kind \in Kinds : Cached(r, e, d, kind) \/ NotCached(r, e, d, kind)
    \/ \E r \in Requests : Step(r)
    \/ \E e \in Edges : Crash(e)
    \/ \E d \in Dialogs : Expire(d)

Spec == Init /\ [][Next]_vars

-----------------------------------------------------------------------------
(* "preserves affinity": whatever edge it comes to, whatever was cached,   *)
(* lost or overwritten meanwhile, a request of a dialog is sent to a node  *)
(* an INVITE of this dialog was given to; to the node, if there was one.   *)
RoutedAsInvited == \A d \in Dialogs : routed[d] \subseteq chosen[d]

(* "later in-dialog requests can be recovered by the other edge": a call   *)
(* that was answered is known at every edge, also after a restart, until a *)
(* BYE or a CANCEL of its dialog was forwarded; but for errors of Redis,   *)
(* and for dialogs begun more than two hours ago.                          *)
AnsweredIsKnown ==
    \A d \in refused \intersect answered : d \in over \union cancelled \/ expired[d] > 0

=============================================================================
