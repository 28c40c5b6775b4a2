--------------------------- MODULE SipDialogsProofs ---------------------------
(***************************************************************************)
(* Safety of SipDialogs for any nodes, edges, dialogs, number of requests  *)
(* served at a time and bounds.                                            *)
(***************************************************************************)
EXTENDS SipDialogs, TLAPS

(* A binding that is remembered was made for an INVITE of its dialog, and  *)
(* names the node that was chosen for it.                                  *)
Made(d, b) == b.made \in 1..MaxInvites /\ b.to \in chosen[d]

(* Whatever is remembered or carried as the destination of a dialog was    *)
(* chosen for an INVITE of this dialog.                                    *)
BindingsChosen ==
    /\ \A e \in Edges, d \in Dialogs : cache[e][d] = NoBinding \/ Made(d, cache[e][d])
    /\ \A d \in Dialogs : base[d] = NoBinding \/ Made(d, base[d])
    /\ \A d \in Dialogs : tagged[d] = NoBinding \/ Made(d, tagged[d])
    /\ \A r \in Requests :
          pc[r] \in {"bind", "fill", "send"} => Made(Dialog(r), Entry(r))
    /\ RoutedAsInvited

Ending == over \union cancelled

(* A handler that may remove the key of a dialog has forwarded its BYE or  *)
(* CANCEL.                                                                 *)
HandlersKnow == \A r \in Requests : pc[r] \in {"unbind", "delete"} => Dialog(r) \in Ending

(* The key was written, whatever its age, or the dialog was ended.         *)
Known(d) == base[d].made > 0 \/ d \in Ending

(* The key is there from the answer of Redis to the end of the dialog.     *)
KeyStays ==
    /\ \A r \in Requests : pc[r] \in {"invite", "ringing", "read"} => Known(Dialog(r))
    /\ \A d \in answered : Known(d)
    /\ \A d \in refused : d \in Ending \/ expired[d] > 0

DialogsInv ==
    /\ TypeOK
    /\ BindingsChosen
    /\ HandlersKnow
    /\ KeyStays

(* Type correctness.                                                       *)
LEMMA TypeStep == TypeOK /\ BindingsChosen /\ [Next]_vars => TypeOK'
<1> SUFFICES ASSUME TypeOK, BindingsChosen, [Next]_vars PROVE TypeOK'
  OBVIOUS
<1> USE DialogsAssumption
<1> USE DEF redis, party, history, Goto, Edge, Dialog, Entry, To, Cache, Arrives
<1> USE DEF TypeOK
<1>a. NoBinding \in Bindings
  BY DEF NoBinding, Bindings
<1>b. ASSUME NEW n \in Nodes, NEW m \in 1..MaxInvites
      PROVE [to |-> n, made |-> m] \in Bindings
  BY <1>b DEF Bindings
<1>1. ASSUME NEW r \in Requests, NEW e \in Edges, NEW d \in Dialogs, NEW n \in Nodes,
      Invite(r, e, d, n) PROVE TypeOK'
  <2>1. invites[d] + 1 \in 1..MaxInvites
    BY <1>1 DEF Invite
  <2>2. [to |-> n, made |-> invites[d] + 1] \in Bindings
    BY <2>1, <1>b
  <2>3. invites' \in [Dialogs -> 0..MaxInvites] /\ expired' \in [Dialogs -> 0..MaxInvites]
    BY <1>1, <2>1 DEF Invite
  <2>4. req' \in [Requests -> [edge : Edges, dialog : Dialogs, kind : Kinds, entry : Bindings]]
    BY <1>1, <2>2 DEF Invite, Kinds
  <2>5. cache' \in [Edges -> [Dialogs -> Bindings]]
    BY <1>1, <2>2 DEF Invite
  <2> QED BY <1>1, <2>3, <2>4, <2>5 DEF Invite
<1>2. ASSUME NEW r \in Requests, NEW e \in Edges, NEW d \in Dialogs, NEW kind \in Kinds,
      Cached(r, e, d, kind) PROVE TypeOK'
  BY <1>2 DEF Cached
<1>3. ASSUME NEW r \in Requests, NEW e \in Edges, NEW d \in Dialogs, NEW kind \in Kinds,
      NotCached(r, e, d, kind) PROVE TypeOK'
  BY <1>3, <1>a DEF NotCached
<1>4. ASSUME NEW r \in Requests, BindRedis(r) PROVE TypeOK'
  BY <1>4 DEF BindRedis
<1>5. ASSUME NEW r \in Requests, BindFails(r) PROVE TypeOK'
  <2>1. base' \in [Dialogs -> Bindings]
    BY <1>5 DEF BindFails
  <2>2. tagged' \in [Dialogs -> Bindings]
    BY <1>5 DEF BindFails
  <2>3. faults' \in 0..MaxFaults
    BY <1>5 DEF BindFails
  <2>4. pc' = [pc EXCEPT ![r] = "idle"]
    BY <1>5 DEF BindFails
  <2> QED BY <1>5, <2>1, <2>2, <2>3, <2>4 DEF BindFails
<1>6. ASSUME NEW r \in Requests, ForwardInvite(r) PROVE TypeOK'
  BY <1>6 DEF ForwardInvite
<1>7. ASSUME NEW r \in Requests, Final(r) PROVE TypeOK'
  <2>1. answered' \subseteq Dialogs
    BY <1>7 DEF Final
  <2> QED BY <1>7, <2>1 DEF Final
<1>8. ASSUME NEW r \in Requests, Found(r) PROVE TypeOK'
  <2>1. Stored(r) \in Bindings
    BY DEF Stored
  <2>2. req' \in [Requests -> [edge : Edges, dialog : Dialogs, kind : Kinds, entry : Bindings]]
    <3>1. req' = [req EXCEPT ![r].entry = Stored(r)]
      BY <1>8 DEF Found
    <3> QED BY <3>1, <2>1
  <2> QED BY <1>8, <2>2 DEF Found
<1>9. ASSUME NEW r \in Requests, NotFound(r) PROVE TypeOK'
  BY <1>9 DEF NotFound
<1>10. ASSUME NEW r \in Requests, ReadFails(r) PROVE TypeOK'
  BY <1>10 DEF ReadFails
<1>11. ASSUME NEW r \in Requests, Fill(r) PROVE TypeOK'
  BY <1>11 DEF Fill
<1>12. ASSUME NEW r \in Requests, Send(r) PROVE TypeOK'
  <2>1. req[r].entry.to \in Nodes \/ pc[r] # "send"
    BY DEF BindingsChosen, Made
  <2> QED BY <1>12, <2>1 DEF Send
<1>13. ASSUME NEW r \in Requests, UnbindLocal(r) PROVE TypeOK'
  BY <1>13, <1>a DEF UnbindLocal
<1>14. ASSUME NEW r \in Requests, UnbindRedis(r) PROVE TypeOK'
  BY <1>14, <1>a DEF UnbindRedis
<1>15. ASSUME NEW r \in Requests, UnbindFails(r) PROVE TypeOK'
  BY <1>15 DEF UnbindFails
<1>16. ASSUME NEW e \in Edges, Crash(e) PROVE TypeOK'
  BY <1>16, <1>a DEF Crash
<1>17. ASSUME NEW d \in Dialogs, Expire(d) PROVE TypeOK'
  BY <1>17 DEF Expire
<1>18. CASE UNCHANGED vars
  BY <1>18 DEF vars
<1> QED
  BY <1>1, <1>2, <1>3, <1>4, <1>5, <1>6, <1>7, <1>8, <1>9, <1>10, <1>11, <1>12, <1>13,
     <1>14, <1>15, <1>16, <1>17, <1>18 DEF Next, Step

(* Destinations are chosen ones.                                           *)
LEMMA ChosenStep == TypeOK /\ BindingsChosen /\ [Next]_vars => BindingsChosen'
<1> SUFFICES ASSUME TypeOK, BindingsChosen, [Next]_vars PROVE BindingsChosen'
  OBVIOUS
<1> USE DialogsAssumption
<1> USE DEF redis, party, history, Goto, Edge, Dialog, Entry, To, Cache, Arrives
<1> USE DEF TypeOK, Bindings, NoBinding
<1> USE DEF BindingsChosen, RoutedAsInvited, Made, Valid
<1>1. ASSUME NEW r \in Requests, NEW e \in Edges, NEW d \in Dialogs, NEW n \in Nodes,
      Invite(r, e, d, n) PROVE BindingsChosen'
  BY <1>1 DEF Invite
<1>2. ASSUME NEW r \in Requests, NEW e \in Edges, NEW d \in Dialogs, NEW kind \in Kinds,
      Cached(r, e, d, kind) PROVE BindingsChosen'
  BY <1>2 DEF Cached
<1>3. ASSUME NEW r \in Requests, NEW e \in Edges, NEW d \in Dialogs, NEW kind \in Kinds,
      NotCached(r, e, d, kind) PROVE BindingsChosen'
  <2>1. \A q \in Requests : pc'[q] \in {"bind", "fill", "send"} => req'[q] = req[q]
    BY <1>3 DEF NotCached
  <2>2. \A q \in Requests : pc'[q] \in {"bind", "fill", "send"} => pc'[q] = pc[q]
    BY <1>3 DEF NotCached
  <2> QED BY <1>3, <2>1, <2>2 DEF NotCached
<1>4. ASSUME NEW r \in Requests, BindRedis(r) PROVE BindingsChosen'
  BY <1>4 DEF BindRedis
<1>5. ASSUME NEW r \in Requests, BindFails(r) PROVE BindingsChosen'
  <2>1. Made(Dialog(r), Entry(r))
    BY <1>5 DEF BindFails
  <2>2. \A d \in Dialogs : base'[d] \in {base[d], Entry(r)} /\ (base'[d] # base[d] => d = Dialog(r))
    BY <1>5 DEF BindFails
  <2>3. \A d \in Dialogs : tagged'[d] \in {tagged[d], Entry(r)} /\ (tagged'[d] # tagged[d] => d = Dialog(r))
    BY <1>5 DEF BindFails
  <2>4. \A q \in Requests : pc'[q] \in {"bind", "fill", "send"} => pc'[q] = pc[q]
    BY <1>5 DEF BindFails
  <2>5. UNCHANGED <<cache, req, chosen, routed>>
    BY <1>5 DEF BindFails
  <2> QED BY <2>1, <2>2, <2>3, <2>4, <2>5
<1>6. ASSUME NEW r \in Requests, ForwardInvite(r) PROVE BindingsChosen'
  BY <1>6 DEF ForwardInvite
<1>7. ASSUME NEW r \in Requests, Final(r) PROVE BindingsChosen'
  BY <1>7 DEF Final
<1>8. ASSUME NEW r \in Requests, Found(r) PROVE BindingsChosen'
  <2>1. Made(Dialog(r), Stored(r))
    BY <1>8 DEF Found, Stored
  <2>2. req' = [req EXCEPT ![r].entry = Stored(r)]
    BY <1>8 DEF Found
  <2>3. Made(Dialog(r), Entry(r))'
    BY <1>8, <2>1, <2>2 DEF Found
  <2>4. \A q \in Requests \ {r} : req'[q] = req[q] /\ pc'[q] = pc[q]
    BY <1>8 DEF Found
  <2>5. UNCHANGED <<cache, base, tagged, chosen, routed>>
    BY <1>8 DEF Found
  <2> QED BY <2>3, <2>4, <2>5
<1>9. ASSUME NEW r \in Requests, NotFound(r) PROVE BindingsChosen'
  BY <1>9 DEF NotFound
<1>10. ASSUME NEW r \in Requests, ReadFails(r) PROVE BindingsChosen'
  BY <1>10 DEF ReadFails
<1>11. ASSUME NEW r \in Requests, Fill(r) PROVE BindingsChosen'
  BY <1>11 DEF Fill
<1>12. ASSUME NEW r \in Requests, Send(r) PROVE BindingsChosen'
  BY <1>12 DEF Send
<1>13. ASSUME NEW r \in Requests, UnbindLocal(r) PROVE BindingsChosen'
  BY <1>13 DEF UnbindLocal
<1>14. ASSUME NEW r \in Requests, UnbindRedis(r) PROVE BindingsChosen'
  BY <1>14 DEF UnbindRedis
<1>15. ASSUME NEW r \in Requests, UnbindFails(r) PROVE BindingsChosen'
  BY <1>15 DEF UnbindFails
<1>16. ASSUME NEW e \in Edges, Crash(e) PROVE BindingsChosen'
  BY <1>16 DEF Crash
<1>17. ASSUME NEW d \in Dialogs, Expire(d) PROVE BindingsChosen'
  BY <1>17 DEF Expire
<1>18. CASE UNCHANGED vars
  BY <1>18 DEF vars
<1> QED
  BY <1>1, <1>2, <1>3, <1>4, <1>5, <1>6, <1>7, <1>8, <1>9, <1>10, <1>11, <1>12, <1>13,
     <1>14, <1>15, <1>16, <1>17, <1>18 DEF Next, Step

(* What the handlers are about.                                            *)
LEMMA HandlersStep == TypeOK /\ HandlersKnow /\ [Next]_vars => HandlersKnow'
<1> SUFFICES ASSUME TypeOK, HandlersKnow, [Next]_vars PROVE HandlersKnow'
  OBVIOUS
<1> USE DialogsAssumption
<1> USE DEF redis, party, history, Goto, Edge, Dialog, Entry, To, Cache, Arrives
<1> USE DEF TypeOK, Bindings, NoBinding
<1> USE DEF HandlersKnow, Ending
<1>1. ASSUME NEW r \in Requests, NEW e \in Edges, NEW d \in Dialogs, NEW n \in Nodes,
      Invite(r, e, d, n) PROVE HandlersKnow'
  BY <1>1 DEF Invite
<1>2. ASSUME NEW r \in Requests, NEW e \in Edges, NEW d \in Dialogs, NEW kind \in Kinds,
      Cached(r, e, d, kind) PROVE HandlersKnow'
  BY <1>2 DEF Cached, MaySend
<1>3. ASSUME NEW r \in Requests, NEW e \in Edges, NEW d \in Dialogs, NEW kind \in Kinds,
      NotCached(r, e, d, kind) PROVE HandlersKnow'
  BY <1>3 DEF NotCached, MaySend
<1>4. ASSUME NEW r \in Requests, BindRedis(r) PROVE HandlersKnow'
  BY <1>4 DEF BindRedis
<1>5. ASSUME NEW r \in Requests, BindFails(r) PROVE HandlersKnow'
  BY <1>5 DEF BindFails
<1>6. ASSUME NEW r \in Requests, ForwardInvite(r) PROVE HandlersKnow'
  BY <1>6 DEF ForwardInvite
<1>7. ASSUME NEW r \in Requests, Final(r) PROVE HandlersKnow'
  BY <1>7 DEF Final
<1>8. ASSUME NEW r \in Requests, Found(r) PROVE HandlersKnow'
  BY <1>8 DEF Found
<1>9. ASSUME NEW r \in Requests, NotFound(r) PROVE HandlersKnow'
  BY <1>9 DEF NotFound
<1>10. ASSUME NEW r \in Requests, ReadFails(r) PROVE HandlersKnow'
  BY <1>10 DEF ReadFails
<1>11. ASSUME NEW r \in Requests, Fill(r) PROVE HandlersKnow'
  BY <1>11 DEF Fill
<1>12. ASSUME NEW r \in Requests, Send(r) PROVE HandlersKnow'
  BY <1>12 DEF Send
<1>13. ASSUME NEW r \in Requests, UnbindLocal(r) PROVE HandlersKnow'
  BY <1>13 DEF UnbindLocal
<1>14. ASSUME NEW r \in Requests, UnbindRedis(r) PROVE HandlersKnow'
  BY <1>14 DEF UnbindRedis
<1>15. ASSUME NEW r \in Requests, UnbindFails(r) PROVE HandlersKnow'
  BY <1>15 DEF UnbindFails
<1>16. ASSUME NEW e \in Edges, Crash(e) PROVE HandlersKnow'
  BY <1>16 DEF Crash
<1>17. ASSUME NEW d \in Dialogs, Expire(d) PROVE HandlersKnow'
  BY <1>17 DEF Expire
<1>18. CASE UNCHANGED vars
  BY <1>18 DEF vars
<1> QED
  BY <1>1, <1>2, <1>3, <1>4, <1>5, <1>6, <1>7, <1>8, <1>9, <1>10, <1>11, <1>12, <1>13,
     <1>14, <1>15, <1>16, <1>17, <1>18 DEF Next, Step

(* The key of an answered dialog.                                          *)
LEMMA KeyStep == TypeOK /\ BindingsChosen /\ HandlersKnow /\ KeyStays /\ [Next]_vars => KeyStays'
<1> SUFFICES ASSUME TypeOK, BindingsChosen, HandlersKnow, KeyStays, [Next]_vars PROVE KeyStays'
  OBVIOUS
<1> USE DialogsAssumption
<1> USE DEF redis, party, history, Goto, Edge, Dialog, Entry, To, Cache, Arrives
<1> USE DEF TypeOK, Bindings, NoBinding
<1> USE DEF KeyStays, Ending, Known, Valid
<1>1. ASSUME NEW r \in Requests, NEW e \in Edges, NEW d \in Dialogs, NEW n \in Nodes,
      Invite(r, e, d, n) PROVE KeyStays'
  BY <1>1 DEF Invite
<1>2. ASSUME NEW r \in Requests, NEW e \in Edges, NEW d \in Dialogs, NEW kind \in Kinds,
      Cached(r, e, d, kind) PROVE KeyStays'
  BY <1>2 DEF Cached
<1>3. ASSUME NEW r \in Requests, NEW e \in Edges, NEW d \in Dialogs, NEW kind \in Kinds,
      NotCached(r, e, d, kind) PROVE KeyStays'
  <2>1. Known(d)
    BY <1>3 DEF NotCached, MaySend
  <2>2. \A q \in Requests : pc'[q] \in {"invite", "ringing", "read"} => Known(req'[q].dialog)
    BY <1>3, <2>1 DEF NotCached
  <2> QED BY <1>3, <2>2 DEF NotCached
<1>4. ASSUME NEW r \in Requests, BindRedis(r) PROVE KeyStays'
  <2>1. req[r].entry.made > 0
    BY <1>4 DEF BindingsChosen, Made, BindRedis
  <2>2. \A d \in Dialogs : Known(d) => Known(d)'
    BY <1>4, <2>1 DEF BindRedis
  <2>3. Known(Dialog(r))' \/ pc'[r] = "idle"
    BY <1>4, <2>1 DEF BindRedis
  <2> QED BY <1>4, <2>2, <2>3 DEF BindRedis
<1>5. ASSUME NEW r \in Requests, BindFails(r) PROVE KeyStays'
  <2>1. req[r].entry.made > 0
    BY <1>5 DEF BindingsChosen, Made, BindFails
  <2>2. \A d \in Dialogs : Known(d) => Known(d)'
    BY <1>5, <2>1 DEF BindFails
  <2>3. Known(Dialog(r))' \/ pc'[r] = "idle"
    BY <1>5, <2>1 DEF BindFails
  <2> QED BY <1>5, <2>2, <2>3 DEF BindFails
<1>6. ASSUME NEW r \in Requests, ForwardInvite(r) PROVE KeyStays'
  BY <1>6 DEF ForwardInvite
<1>7. ASSUME NEW r \in Requests, Final(r) PROVE KeyStays'
  <2>1. Known(Dialog(r))
    BY <1>7 DEF Final
  <2>2. answered' \subseteq answered \union {Dialog(r)}
    BY <1>7 DEF Final
  <2>3. \A d \in Dialogs : Known(d) => Known(d)'
    BY <1>7 DEF Final
  <2> QED BY <1>7, <2>1, <2>2, <2>3 DEF Final
<1>8. ASSUME NEW r \in Requests, Found(r) PROVE KeyStays'
  BY <1>8 DEF Found
<1>9. ASSUME NEW r \in Requests, NotFound(r) PROVE KeyStays'
  BY <1>9 DEF NotFound, Stored, HandlersKnow
<1>10. ASSUME NEW r \in Requests, ReadFails(r) PROVE KeyStays'
  BY <1>10 DEF ReadFails
<1>11. ASSUME NEW r \in Requests, Fill(r) PROVE KeyStays'
  BY <1>11 DEF Fill
<1>12. ASSUME NEW r \in Requests, Send(r) PROVE KeyStays'
  BY <1>12 DEF Send
<1>13. ASSUME NEW r \in Requests, UnbindLocal(r) PROVE KeyStays'
  BY <1>13 DEF UnbindLocal
<1>14. ASSUME NEW r \in Requests, UnbindRedis(r) PROVE KeyStays'
  BY <1>14 DEF UnbindRedis, HandlersKnow
<1>15. ASSUME NEW r \in Requests, UnbindFails(r) PROVE KeyStays'
  BY <1>15 DEF UnbindFails
<1>16. ASSUME NEW e \in Edges, Crash(e) PROVE KeyStays'
  BY <1>16 DEF Crash
<1>17. ASSUME NEW d \in Dialogs, Expire(d) PROVE KeyStays'
  BY <1>17 DEF Expire
<1>18. CASE UNCHANGED vars
  BY <1>18 DEF vars
<1> QED
  BY <1>1, <1>2, <1>3, <1>4, <1>5, <1>6, <1>7, <1>8, <1>9, <1>10, <1>11, <1>12, <1>13,
     <1>14, <1>15, <1>16, <1>17, <1>18 DEF Next, Step

LEMMA InvHolds == Spec => []DialogsInv
<1>1. Init => DialogsInv
  BY DialogsAssumption DEF Init, DialogsInv, TypeOK, Bindings, Kinds, BindingsChosen,
     RoutedAsInvited, HandlersKnow, KeyStays, Ending, NoBinding
<1>2. DialogsInv /\ [Next]_vars => DialogsInv'
  BY TypeStep, ChosenStep, HandlersStep, KeyStep DEF DialogsInv
<1> QED BY <1>1, <1>2, PTL DEF Spec

(* Every variable keeps its type.                                          *)
THEOREM DialogsTypeCorrect == Spec => []TypeOK
<1>1. DialogsInv => TypeOK
  BY DEF DialogsInv
<1> QED BY <1>1, InvHolds, PTL

(* Requests of a dialog go where an INVITE of it was given to.             *)
THEOREM AffinityKept == Spec => []RoutedAsInvited
<1>1. DialogsInv => RoutedAsInvited
  BY DEF DialogsInv, BindingsChosen
<1> QED BY <1>1, InvHolds, PTL

(* An answered call is known at every edge until its BYE or a CANCEL, or   *)
(* until two hours after it began.                                         *)
THEOREM PeersRecover == Spec => []AnsweredIsKnown
<1>1. DialogsInv => AnsweredIsKnown
  BY DEF DialogsInv, KeyStays, Ending, AnsweredIsKnown
<1> QED BY <1>1, InvHolds, PTL

=============================================================================
