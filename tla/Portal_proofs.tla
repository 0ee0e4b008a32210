---------------------------- MODULE Portal_proofs ----------------------------
(***************************************************************************)
(* Proofs about the portal: when a refused button sends again, what tokens *)
(* a page presents, keeps and leaves behind, the first location, and what  *)
(* the pages show; for any number of tabs, calls, gateways, accounts,      *)
(* requests, gates and commands.  Each part has an invariant of its own.   *)
(***************************************************************************)
EXTENDS Portal, FiniteSetTheorems, TLAPS

GateRow == [cmd : {"none", "open", "close"}, gate : Gate \cup {NoGate}]

(* A button has one gate.  As long as no two commands were under way        *)
(* together, a refusal that still counts down is on the button, and no      *)
(* command is under way beside it.                                          *)
NoticeStays ==
    /\ entry \in {"button", "picker"} /\ chosen \in Gate
    /\ sent \in [Cmd -> GateRow]
    /\ \A c \in UnderWay : entry = "button" => sent[c].gate = chosen
    /\ ~doubled => \A c, d \in UnderWay : c = d
    /\ entry = "button" /\ ~doubled =>
        /\ early = FALSE
        /\ counting \subseteq {chosen}
        /\ counting # {} => denial = "rate_limited" /\ UnderWay = {}
    /\ entry = "picker" => early = FALSE
    /\ early \in BOOLEAN /\ doubled \in BOOLEAN

-----------------------------------------------------------------------------
LEMMA NoticeInitially == GateInit => NoticeStays
<1> SUFFICES ASSUME GateInit PROVE NoticeStays
  OBVIOUS
<1>1. sent \in [Cmd -> GateRow] /\ UnderWay = {}
  BY DEF GateInit, UnderWay, Free, GateRow
<1>2. early \in BOOLEAN /\ doubled \in BOOLEAN /\ early = FALSE /\ counting = {}
  BY DEF GateInit
<1>3. entry \in {"button", "picker"} /\ chosen \in Gate
  BY DEF GateInit
<1> QED BY <1>1, <1>2, <1>3 DEF NoticeStays

LEMMA NoticeStep ==
    ASSUME NoticeStays, [GateNext]_gateVars
    PROVE  NoticeStays'
<1> USE PortalGateAssumption DEF NoticeStays, UnderWay
<1>1. ASSUME NEW c \in Cmd, Press(c)
      PROVE  NoticeStays'
  <2>1. counting = {} \/ doubled
    BY <1>1 DEF Press, Disabled
  <2> QED BY <1>1, <2>1 DEF Press, Send, Free, GateRow
<1>2. ASSUME NEW c \in Cmd, StartOpen(c)
      PROVE  NoticeStays'
  BY <1>2 DEF StartOpen, Send, Free, GateRow, gateHistory
<1>3. ASSUME NEW g \in Gate, Pick(g)
      PROVE  NoticeStays'
  BY <1>3 DEF Pick, Reset, gateHistory
<1>4. CASE Want \/ StartOver
  BY <1>4 DEF Want, StartOver, Reset, gateHistory
<1>5. ASSUME NEW c \in Cmd, GateAnswered(c)
      PROVE  NoticeStays'
  BY <1>5 DEF GateAnswered, ButtonAnswered, PickerAnswered, Free, GateRow
<1>6. CASE ErrorOver \/ FlipBack
  BY <1>6 DEF ErrorOver, FlipBack, Idled, gateHistory
<1>7. CASE RetryPasses
  BY <1>7 DEF RetryPasses, CountingDown
<1>8. CASE UNCHANGED gateVars
  BY <1>8 DEF gateVars
<1> QED BY <1>1, <1>2, <1>3, <1>4, <1>5, <1>6, <1>7, <1>8 DEF GateNext, GateAlone

(* A button that was refused with rate_limited sends nothing before         *)
(* retry_after_s has passed unless two commands were under way together,    *)
(* whichever timers of earlier failures fire meanwhile.                     *)
THEOREM RefusalIsHeld == PortalSpec => []RetryHeld
<1>1. PortalInit => NoticeStays
  BY NoticeInitially DEF PortalInit
<1>2. ASSUME NoticeStays, [PortalNext]_portalVars
      PROVE  NoticeStays'
  <2>1. [GateNext]_gateVars
    BY <1>2 DEF PortalNext, AtSession, AtEntry, AtPage, AtGate, AtSearch, portalVars
  <2> QED BY <1>2, <2>1, NoticeStep
<1>3. NoticeStays => RetryHeld
  BY DEF NoticeStays, RetryHeld
<1> QED BY <1>1, <1>2, <1>3, PTL DEF PortalSpec

-----------------------------------------------------------------------------
Complete(q) ==
    /\ "what" \in DOMAIN q /\ "phase" \in DOMAIN q /\ "tok" \in DOMAIN q /\ "ok" \in DOMAIN q
    /\ q.what # "idle"

Renews(q) == q # Idle /\ q.phase \in {"refreshing", "refreshed"}
Fetched(q) == q # Idle /\ q.phase = "refreshed"

(* What a page has presented is stored no longer unless its refresh is      *)
(* under way; what a refresh has fetched is new: not stored, not presented  *)
(* by any page, not fetched by another.                                     *)
PresentedOnce ==
    /\ call = [t \in Tab |-> [c \in Call |-> call[t][c]]]
    /\ \A t \in Tab, c \in Call : call[t][c] # Idle => Complete(call[t][c])
    /\ minted \in Nat
    /\ store \in [gw : Gateway, tok : 0 .. minted]
    /\ presented = [t \in Tab |-> presented[t]]
    /\ replayed = {}
    /\ \A t \in Tab : \A k \in presented[t] :
        /\ k \in 1 .. minted
        /\ store.tok = k => \E c \in Call : Renews(call[t][c])
    /\ \A t \in Tab, c \in Call : Fetched(call[t][c]) => call[t][c].tok \in 0 .. minted
    /\ \A t \in Tab, c \in Call : Fetched(call[t][c]) /\ call[t][c].tok # 0 =>
        /\ call[t][c].tok # store.tok
        /\ \A u \in Tab : call[t][c].tok \notin presented[u]
        /\ \A u \in Tab, d \in Call :
              Fetched(call[u][d]) /\ call[u][d].tok = call[t][c].tok => u = t /\ d = c

LEMMA PresentedInitially == SessionInit => PresentedOnce
<1> SUFFICES ASSUME SessionInit PROVE PresentedOnce
  OBVIOUS
<1>1. call = [t \in Tab |-> [c \in Call |-> Idle]] /\ presented = [t \in Tab |-> {}] /\ replayed = {}
  BY DEF SessionInit
<1>2. minted \in {0, 1} /\ store \in [gw : Gateway, tok : {minted}]
  BY DEF SessionInit
<1> QED BY <1>1, <1>2 DEF PresentedOnce, Fetched

(* A step in which no refresh begins, is answered or settles: the pair      *)
(* stored stays, is cleared or is a new one.                                *)
LEMMA QuietStep ==
    ASSUME PresentedOnce, NEW t \in Tab, NEW c \in Call, NEW rec, SetCall(t, c, rec),
           ~Renews(call[t][c]), rec = Idle \/ (Complete(rec) /\ ~Renews(rec)),
           presented' = presented, replayed' = replayed,
           minted' \in Nat, minted <= minted',
           store' = [store EXCEPT !.tok = store'.tok],
           store'.tok \in {store.tok, 0} \/ store'.tok \in (minted + 1) .. minted'
    PROVE  PresentedOnce'
<1>1. call' = [call EXCEPT ![t] = [call[t] EXCEPT ![c] = rec]]
  BY DEF SetCall
<1>2. \A u \in Tab, d \in Call : IF u = t /\ d = c THEN call'[u][d] = rec ELSE call'[u][d] = call[u][d]
  BY <1>1 DEF PresentedOnce
<1>3. \A u \in Tab, d \in Call : /\ Fetched(call'[u][d]) => call'[u][d] = call[u][d]
                                 /\ Renews(call[u][d]) => call'[u][d] = call[u][d]
  BY <1>2 DEF Fetched, Renews
<1>4. call' = [u \in Tab |-> [d \in Call |-> call'[u][d]]]
  <2>1. call = [u \in Tab |-> call[u]] /\ \A u \in Tab : call[u] = [d \in Call |-> call[u][d]]
    BY DEF PresentedOnce
  <2>2. \A u \in Tab : call'[u] = [d \in Call |-> call'[u][d]]
    BY <1>1, <2>1
  <2>3. call' = [u \in Tab |-> call'[u]]
    BY <1>1, <2>1
  <2> QED BY <2>2, <2>3
<1>5. \A u \in Tab, d \in Call : call'[u][d] # Idle => Complete(call'[u][d])
  BY <1>2 DEF PresentedOnce
<1>6. store' \in [gw : Gateway, tok : 0 .. minted']
  BY DEF PresentedOnce
<1>7. \A u \in Tab : \A k \in presented'[u] :
        k \in 1 .. minted' /\ (store'.tok = k => \E d \in Call : Renews(call'[u][d]))
  BY <1>3 DEF PresentedOnce
<1>8. \A u \in Tab, d \in Call : Fetched(call'[u][d]) => call'[u][d].tok \in 0 .. minted
  BY <1>3 DEF PresentedOnce
<1>9. \A u \in Tab, d \in Call : Fetched(call'[u][d]) /\ call'[u][d].tok # 0 =>
        /\ call'[u][d].tok # store'.tok
        /\ \A v \in Tab : call'[u][d].tok \notin presented'[v]
        /\ \A v \in Tab, e \in Call :
              Fetched(call'[v][e]) /\ call'[v][e].tok = call'[u][d].tok => v = u /\ e = d
  BY <1>3, <1>8 DEF PresentedOnce
<1> QED BY <1>4, <1>5, <1>6, <1>7, <1>8, <1>9 DEF PresentedOnce, Fetched, Renews, Complete

(* A step that leaves the calls alone. *)
LEMMA IdleStep ==
    ASSUME PresentedOnce, UNCHANGED <<call, store, presented, replayed>>,
           minted' \in Nat, minted <= minted'
    PROVE  PresentedOnce'
  BY DEF PresentedOnce, Fetched, Renews, Complete

LEMMA RequestComplete ==
    ASSUME NEW what, what # "idle", NEW retried, NEW pair
    PROVE  Complete(Request(what, retried, pair)) /\ ~Renews(Request(what, retried, pair))
  BY DEF Request, Complete, Renews

(* A request whose fields are set is still one. *)
LEMMA Moved ==
    ASSUME NEW q, Complete(q), NEW phase, NEW tok
    PROVE  /\ Complete([q EXCEPT !.phase = phase, !.tok = tok])
           /\ [q EXCEPT !.phase = phase, !.tok = tok].phase = phase
  BY DEF Complete

LEMMA MovedAnew ==
    ASSUME NEW q, Complete(q), NEW phase, NEW tok
    PROVE  /\ Complete([q EXCEPT !.phase = phase, !.tok = tok, !.again = FALSE])
           /\ [q EXCEPT !.phase = phase, !.tok = tok, !.again = FALSE].phase = phase
  BY DEF Complete

LEMMA MovedTo ==
    ASSUME NEW q, Complete(q), NEW phase, NEW tok, NEW gw
    PROVE  /\ Complete([q EXCEPT !.phase = phase, !.tok = tok, !.gw = gw, !.again = FALSE])
           /\ [q EXCEPT !.phase = phase, !.tok = tok, !.gw = gw, !.again = FALSE].phase = phase
  BY DEF Complete

LEMMA Named ==
    ASSUME NEW q, Complete(q), NEW family
    PROVE  /\ Complete([q EXCEPT !.family = family])
           /\ [q EXCEPT !.family = family].phase = q.phase
  BY DEF Complete

LEMMA LaunchStep ==
    ASSUME PresentedOnce, NEW t \in Tab, NEW c \in Call, NEW what, what # "idle", Launch(t, c, what)
    PROVE  PresentedOnce'
<1>1. /\ call[t][c] = Idle /\ SetCall(t, c, Request(what, FALSE, store))
      /\ UNCHANGED <<minted, store, presented, replayed>>
  BY DEF Launch, server, history, endings
<1>2. ~Renews(call[t][c]) /\ minted \in Nat /\ minted <= minted' /\ store = [store EXCEPT !.tok = store.tok]
  BY <1>1 DEF Renews, PresentedOnce
<1> QED BY <1>1, <1>2, RequestComplete, QuietStep

LEMMA SignOutStep ==
    ASSUME PresentedOnce, NEW t \in Tab, NEW c \in Call, SignOut(t, c)
    PROVE  PresentedOnce'
<1> DEFINE rec == [Request("logout", FALSE, SignedOff(store)) EXCEPT !.family = Family(store.tok)]
<1>1. /\ call[t][c] = Idle /\ SetCall(t, c, rec)
      /\ UNCHANGED <<minted, store, presented, replayed>>
  BY DEF SignOut, server, history, endings
<1>2. ~Renews(call[t][c]) /\ minted \in Nat /\ minted <= minted' /\ store = [store EXCEPT !.tok = store.tok]
  BY <1>1 DEF Renews, PresentedOnce
<1> DEFINE q == Request("logout", FALSE, SignedOff(store))
<1>3. Complete(q) /\ q.phase = "sent"
  BY DEF Request, Complete
<1> HIDE DEF q
<1>4. Complete(rec) /\ ~Renews(rec)
  BY <1>3, Named DEF Renews, q
<1> HIDE DEF rec
<1> QED BY <1>1, <1>2, <1>4, QuietStep

(* A page load forgets what the page before it presented. *)
LEMMA BootStep ==
    ASSUME PresentedOnce, NEW t \in Tab, NEW pair, NEW cache, Boot(t, pair, cache),
           pair \in [gw : Gateway, tok : {store.tok, 0}],
           UNCHANGED <<minted, replayed>>
    PROVE  PresentedOnce'
<1>1. /\ store' = pair
      /\ call' = [call EXCEPT ![t] = BootCalls(t, pair)]
      /\ presented' = [presented EXCEPT ![t] = {}]
  BY DEF Boot
<1>2. \A d \in Call : /\ BootCalls(t, pair)[d] # Idle => Complete(BootCalls(t, pair)[d])
                      /\ ~Renews(BootCalls(t, pair)[d])
  BY RequestComplete DEF BootCalls, Renews
<1>3. BootCalls(t, pair) = [d \in Call |-> BootCalls(t, pair)[d]]
  BY DEF BootCalls
<1>4. /\ \A u \in Tab : u # t => call'[u] = call[u] /\ presented'[u] = presented[u]
      /\ call'[t] = BootCalls(t, pair) /\ presented'[t] = {}
  BY <1>1 DEF PresentedOnce
<1>5. call' = [u \in Tab |-> [d \in Call |-> call'[u][d]]]
  <2>1. call = [u \in Tab |-> call[u]] /\ \A u \in Tab : call[u] = [d \in Call |-> call[u][d]]
    BY DEF PresentedOnce
  <2>2. call' = [u \in Tab |-> call'[u]]
    BY <1>1, <2>1
  <2> QED BY <1>3, <1>4, <2>1, <2>2
<1>6. \A u \in Tab, d \in Call : call'[u][d] # Idle => Complete(call'[u][d])
  BY <1>2, <1>4 DEF PresentedOnce
<1>7. \A u \in Tab, d \in Call : Fetched(call'[u][d]) => u # t /\ call'[u][d] = call[u][d]
  BY <1>2, <1>4 DEF Fetched, Renews
<1>8. minted' \in Nat /\ store' \in [gw : Gateway, tok : 0 .. minted']
  BY <1>1 DEF PresentedOnce
<1>9. presented' = [u \in Tab |-> presented'[u]] /\ replayed' = {}
  BY <1>1 DEF PresentedOnce
<1>10. \A u \in Tab : \A k \in presented'[u] :
        k \in 1 .. minted' /\ (store'.tok = k => \E d \in Call : Renews(call'[u][d]))
  BY <1>1, <1>4 DEF PresentedOnce
<1>11. \A u \in Tab, d \in Call : Fetched(call'[u][d]) => call'[u][d].tok \in 0 .. minted'
  BY <1>7 DEF PresentedOnce
<1>12. \A u \in Tab, d \in Call : Fetched(call'[u][d]) /\ call'[u][d].tok # 0 =>
        /\ call'[u][d].tok # store'.tok
        /\ \A v \in Tab : call'[u][d].tok \notin presented'[v]
        /\ \A v \in Tab, e \in Call :
              Fetched(call'[v][e]) /\ call'[v][e].tok = call'[u][d].tok => v = u /\ e = d
  BY <1>1, <1>4, <1>7 DEF PresentedOnce
<1> QED BY <1>5, <1>6, <1>8, <1>9, <1>10, <1>11, <1>12 DEF PresentedOnce, Fetched, Renews, Complete

LEMMA JoinStep ==
    ASSUME PresentedOnce, NEW t \in Tab, NEW c \in Call, JoinRefresh(t, c)
    PROVE  PresentedOnce'
<1> DEFINE q == call[t][c]
           rec == [q EXCEPT !.phase = "waiting", !.tok = 0, !.again = FALSE]
<1>1. /\ call[t][c] # Idle /\ call[t][c].phase = "sent" /\ SetCall(t, c, rec)
      /\ UNCHANGED <<minted, store, presented, replayed>>
  BY DEF JoinRefresh, Meets401, Sent, Calling, server, history, endings
<1>2. /\ ~Renews(call[t][c]) /\ minted \in Nat /\ minted <= minted'
      /\ store = [store EXCEPT !.tok = store.tok] /\ Complete(call[t][c])
  BY <1>1 DEF Renews, PresentedOnce
<1>3. /\ Complete([q EXCEPT !.phase = "waiting", !.tok = 0, !.again = FALSE])
      /\ [q EXCEPT !.phase = "waiting", !.tok = 0, !.again = FALSE].phase = "waiting"
  <2>1. Complete(q)
    BY <1>2
  <2> HIDE DEF q
  <2> QED BY <2>1, MovedAnew
<1> HIDE DEF q
<1>4. Complete(rec) /\ ~Renews(rec)
  BY <1>3 DEF Renews
<1> USE DEF q
<1> HIDE DEF rec
<1> QED BY <1>1, <1>2, <1>4, QuietStep

(* The answers that end a call or send the next one. *)
LEMMA EndStep ==
    ASSUME PresentedOnce, NEW t \in Tab, NEW c \in Call,
           \/ MeReturned(t, c) \/ NothingChanges(t, c) \/ InviteAccepted(t, c)
           \/ InviteFails(t, c) \/ SignedOut(t, c) \/ SignedIn(t, c)
    PROVE  PresentedOnce'
<1>1. ~Renews(call[t][c]) /\ presented' = presented /\ replayed' = replayed
  BY DEF MeReturned, NothingChanges, InviteAccepted, InviteFails, SignedOut, SignedIn, Returning,
     Sent, Renews, history, endings
<1>2. \E rec : SetCall(t, c, rec) /\ (rec = Idle \/ (Complete(rec) /\ ~Renews(rec)))
  <2>1. SetCall(t, c, Idle) \/ \E what : what # "idle" /\ \E pair : SetCall(t, c, Request(what, FALSE, pair))
    <3>1. CASE SignedIn(t, c)
      BY <3>1 DEF SignedIn, AfterRegister
    <3>2. CASE InviteAccepted(t, c)
      BY <3>2 DEF InviteAccepted
    <3>3. CASE MeReturned(t, c) \/ NothingChanges(t, c) \/ InviteFails(t, c) \/ SignedOut(t, c)
      BY <3>3 DEF MeReturned, NothingChanges, InviteFails, SignedOut
    <3> QED BY <3>1, <3>2, <3>3
  <2> QED BY <2>1, RequestComplete
<1>3. minted \in Nat /\ store \in [gw : Gateway, tok : 0 .. minted]
  BY DEF PresentedOnce
<1>4. /\ minted' \in Nat /\ minted <= minted'
      /\ store' = [store EXCEPT !.tok = store'.tok]
      /\ store'.tok \in {store.tok, 0} \/ store'.tok \in (minted + 1) .. minted'
  <2>1. CASE SignedIn(t, c)
    <3>1. minted' = minted + 1
      BY <2>1 DEF SignedIn, Mint
    <3>2. store' = store \/ store' = [store EXCEPT !.tok = minted']
      BY <2>1 DEF SignedIn
    <3> QED BY <1>3, <3>1, <3>2
  <2>2. CASE MeReturned(t, c) \/ NothingChanges(t, c) \/ InviteAccepted(t, c) \/ InviteFails(t, c) \/ SignedOut(t, c)
    <3>1. minted' = minted
      BY <2>2 DEF MeReturned, NothingChanges, InviteAccepted, InviteFails, SignedOut, server
    <3>2. store' = store \/ store' = [store EXCEPT !.tok = 0]
      BY <2>2 DEF MeReturned, NothingChanges, InviteAccepted, InviteFails, SignedOut
    <3> QED BY <1>3, <3>1, <3>2
  <2> QED BY <2>1, <2>2
<1> QED BY <1>1, <1>2, <1>4, QuietStep

(* One refresh at a time, for a pair the page has not presented. *)
LEMMA StartStep ==
    ASSUME PresentedOnce, NEW t \in Tab, NEW c \in Call, StartRefresh(t, c)
    PROVE  PresentedOnce'
<1> DEFINE q == call[t][c]
           rec == [q EXCEPT !.phase = "refreshing", !.tok = store.tok, !.gw = store.gw, !.again = FALSE]
<1>1. /\ q # Idle /\ q.phase = "sent" /\ call' = [call EXCEPT ![t][c] = rec]
      /\ store.tok # 0 /\ ~Refreshing(t)
      /\ presented' = [presented EXCEPT ![t] = presented[t] \cup {store.tok}]
      /\ replayed' = IF store.tok \in presented[t] THEN replayed \cup {t} ELSE replayed
      /\ UNCHANGED <<minted, store>>
  BY DEF StartRefresh, Meets401, Sent, Calling, Retriable, SetCall, server
<1>2. \A d \in Call : ~Renews(call[t][d])
  BY <1>1 DEF Refreshing, Calling, Renews
<1>3. store.tok \notin presented[t]
  BY <1>2 DEF PresentedOnce
<1>4. Complete(q)
  BY <1>1 DEF PresentedOnce
<1>5. Complete(rec) /\ Renews(rec) /\ ~Fetched(rec)
  BY <1>4, MovedTo DEF Renews, Fetched, Complete, Idle
<1> HIDE DEF q, rec
<1>6. /\ \A u \in Tab, d \in Call : IF u = t /\ d = c THEN call'[u][d] = rec ELSE call'[u][d] = call[u][d]
      /\ call' = [u \in Tab |-> [d \in Call |-> call'[u][d]]]
  <2>1. call = [u \in Tab |-> call[u]] /\ \A u \in Tab : call[u] = [d \in Call |-> call[u][d]]
    BY DEF PresentedOnce
  <2>2. call' = [call EXCEPT ![t] = [call[t] EXCEPT ![c] = rec]]
    BY <1>1
  <2>3. \A u \in Tab : call'[u] = [d \in Call |-> call'[u][d]]
    BY <2>1, <2>2
  <2>4. call' = [u \in Tab |-> call'[u]]
    BY <2>1, <2>2
  <2> QED BY <2>1, <2>2, <2>3, <2>4
<1>7. \A u \in Tab, d \in Call : /\ Fetched(call'[u][d]) => call'[u][d] = call[u][d]
                                 /\ Renews(call[u][d]) => call'[u][d] = call[u][d]
  BY <1>2, <1>5, <1>6
<1>8. Renews(call'[t][c])
  BY <1>5, <1>6
<1>9. \A u \in Tab : presented'[u] = IF u = t THEN presented[t] \cup {store.tok} ELSE presented[u]
  BY <1>1 DEF PresentedOnce
<1>10. \A u \in Tab : \A k \in presented'[u] :
        k \in 1 .. minted' /\ (store'.tok = k => \E d \in Call : Renews(call'[u][d]))
  BY <1>1, <1>7, <1>8, <1>9 DEF PresentedOnce
<1>11. \A u \in Tab, d \in Call : Fetched(call'[u][d]) => call'[u][d].tok \in 0 .. minted'
  BY <1>1, <1>7 DEF PresentedOnce
<1>12. \A u \in Tab, d \in Call : Fetched(call'[u][d]) /\ call'[u][d].tok # 0 =>
        /\ call'[u][d].tok # store'.tok
        /\ \A v \in Tab : call'[u][d].tok \notin presented'[v]
        /\ \A v \in Tab, e \in Call :
              Fetched(call'[v][e]) /\ call'[v][e].tok = call'[u][d].tok => v = u /\ e = d
  BY <1>1, <1>7, <1>9 DEF PresentedOnce
<1>13. \A u \in Tab, d \in Call : call'[u][d] # Idle => Complete(call'[u][d])
  BY <1>5, <1>6 DEF PresentedOnce
<1>14. presented' = [u \in Tab |-> presented'[u]] /\ replayed' = {} /\ minted' \in Nat
       /\ store' \in [gw : Gateway, tok : 0 .. minted']
  BY <1>1, <1>3 DEF PresentedOnce
<1> QED BY <1>6, <1>10, <1>11, <1>12, <1>13, <1>14 DEF PresentedOnce, Fetched, Renews, Complete

(* What a refresh fetches is new. *)
LEMMA ServeStep ==
    ASSUME PresentedOnce, NEW t \in Tab, NEW c \in Call, RefreshServed(t, c)
    PROVE  PresentedOnce'
<1> DEFINE q == call[t][c]
<1>1. \E ok \in BOOLEAN :
        Refreshed(t, c, ok) /\ minted' \in Nat /\ minted <= minted' /\ (ok => minted' = minted + 1)
  <2>1. minted \in Nat
    BY DEF PresentedOnce
  <2>2. CASE minted' = minted + 1 /\ \E ok \in BOOLEAN : Refreshed(t, c, ok)
    BY <2>1, <2>2
  <2>3. CASE minted' = minted /\ Refreshed(t, c, FALSE)
    <3>1. minted' \in Nat /\ minted <= minted'
      BY <2>1, <2>3
    <3> QED BY <2>3, <3>1
  <2> QED BY <2>2, <2>3 DEF RefreshServed, Mint
<1> PICK ok \in BOOLEAN :
      Refreshed(t, c, ok) /\ minted' \in Nat /\ minted <= minted' /\ (ok => minted' = minted + 1)
  BY <1>1
<1> DEFINE tok == IF ok THEN minted' ELSE 0
           rec == [q EXCEPT !.phase = "refreshed", !.ok = ok, !.tok = tok, !.again = FALSE]
<1>2. /\ q # Idle /\ q.phase = "refreshing" /\ call' = [call EXCEPT ![t][c] = rec]
      /\ UNCHANGED <<store, presented, replayed>>
  BY <1>1 DEF RefreshServed, Refreshed, SetCall, Calling, history, endings
<1>3. Complete(q)
  BY <1>2 DEF PresentedOnce
<1>4. /\ Complete(rec) /\ Renews(rec)
      /\ rec.tok = 0 \/ (rec.tok = minted' /\ minted' = minted + 1)
  <2> HIDE DEF tok, q
  <2>1. Complete(rec) /\ rec.phase = "refreshed" /\ rec.tok = tok
    <3>1. Complete([q EXCEPT !.phase = "refreshed", !.ok = ok, !.tok = tok, !.again = FALSE])
      BY <1>3 DEF Complete
    <3>2. [q EXCEPT !.phase = "refreshed", !.ok = ok, !.tok = tok, !.again = FALSE].phase = "refreshed"
      BY <1>3 DEF Complete
    <3>3. [q EXCEPT !.phase = "refreshed", !.ok = ok, !.tok = tok, !.again = FALSE].tok = tok
      BY <1>3 DEF Complete
    <3> QED BY <3>1, <3>2, <3>3
  <2>2. Complete(rec) /\ Renews(rec) /\ rec.tok = tok
    BY <2>1 DEF Complete, Renews, Idle
  <2> QED BY <1>1, <2>2 DEF tok
<1> HIDE DEF q, rec
<1>5. /\ \A u \in Tab, d \in Call : IF u = t /\ d = c THEN call'[u][d] = rec ELSE call'[u][d] = call[u][d]
      /\ call' = [u \in Tab |-> [d \in Call |-> call'[u][d]]]
  <2>1. call = [u \in Tab |-> call[u]] /\ \A u \in Tab : call[u] = [d \in Call |-> call[u][d]]
    BY DEF PresentedOnce
  <2>2. call' = [call EXCEPT ![t] = [call[t] EXCEPT ![c] = rec]]
    BY <1>2
  <2>3. \A u \in Tab : call'[u] = [d \in Call |-> call'[u][d]]
    BY <2>1, <2>2
  <2>4. call' = [u \in Tab |-> call'[u]]
    BY <2>1, <2>2
  <2> QED BY <2>1, <2>2, <2>3, <2>4
<1>6. \A u \in Tab, d \in Call : Renews(call[u][d]) => Renews(call'[u][d])
  BY <1>4, <1>5
<1>7. \A u \in Tab, d \in Call : Fetched(call'[u][d]) =>
        \/ u = t /\ d = c /\ call'[u][d] = rec
        \/ ~(u = t /\ d = c) /\ call'[u][d] = call[u][d]
  BY <1>5
<1>8. \A u \in Tab : \A k \in presented'[u] :
        k \in 1 .. minted' /\ (store'.tok = k => \E d \in Call : Renews(call'[u][d]))
  <2>1. minted \in Nat /\ minted' \in Nat /\ minted <= minted'
    BY <1>1 DEF PresentedOnce
  <2>2. \A u \in Tab : \A k \in presented[u] :
          k \in 1 .. minted /\ (store.tok = k => \E d \in Call : Renews(call[u][d]))
    BY DEF PresentedOnce
  <2>3. \A u \in Tab : (\E d \in Call : Renews(call[u][d])) => \E d \in Call : Renews(call'[u][d])
    BY <1>6
  <2> QED BY <1>2, <2>1, <2>2, <2>3
<1>9. \A u \in Tab, d \in Call : Fetched(call'[u][d]) => call'[u][d].tok \in 0 .. minted'
  BY <1>1, <1>4, <1>7 DEF PresentedOnce
<1>10. \A u \in Tab, d \in Call : Fetched(call'[u][d]) /\ call'[u][d].tok # 0 =>
        /\ call'[u][d].tok # store'.tok
        /\ \A v \in Tab : call'[u][d].tok \notin presented'[v]
        /\ \A v \in Tab, e \in Call :
              Fetched(call'[v][e]) /\ call'[v][e].tok = call'[u][d].tok => v = u /\ e = d
  BY <1>1, <1>2, <1>4, <1>7 DEF PresentedOnce
<1>11. \A u \in Tab, d \in Call : call'[u][d] # Idle => Complete(call'[u][d])
  BY <1>4, <1>5 DEF PresentedOnce
<1>12. presented' = [u \in Tab |-> presented'[u]] /\ replayed' = {}
       /\ store' \in [gw : Gateway, tok : 0 .. minted']
  BY <1>1, <1>2 DEF PresentedOnce
<1> QED BY <1>1, <1>5, <1>8, <1>9, <1>10, <1>11, <1>12 DEF PresentedOnce, Fetched, Renews, Complete

(* The pair that was fetched takes the place of the one presented. *)
LEMMA SettleStep ==
    ASSUME PresentedOnce, NEW t \in Tab, NEW c \in Call, Settle(t, c)
    PROVE  PresentedOnce'
<1> DEFINE q == call[t][c]
           pair == [store EXCEPT !.tok = q.tok]
           Sent2(d) == IF q.ok THEN Request(call[t][d].what, TRUE, pair)
                       ELSE [call[t][d] EXCEPT !.phase = "denied", !.tok = 0]
           now == [d \in Call |-> IF d \notin Waiters(t, c) THEN call[t][d] ELSE Sent2(d)]
<1>1. /\ q # Idle /\ q.phase = "refreshed" /\ store' = pair
      /\ call' = [call EXCEPT ![t] = now]
      /\ UNCHANGED <<minted, presented, replayed>>
  BY DEF Settle, Calling, server, history, endings
<1>2. \A d \in Waiters(t, c) : d \in Call /\ Complete(call[t][d])
  BY <1>1 DEF Waiters, Calling, PresentedOnce
<1>3. \A d \in Waiters(t, c) : Complete(Sent2(d)) /\ ~Renews(Sent2(d))
  <2> SUFFICES ASSUME NEW d \in Waiters(t, c) PROVE Complete(Sent2(d)) /\ ~Renews(Sent2(d))
    OBVIOUS
  <2> DEFINE r == call[t][d]
  <2>1. Complete(r) /\ r.what # "idle"
    BY <1>2 DEF Complete
  <2>2. CASE q.ok
    BY <2>1, <2>2, RequestComplete
  <2>3. CASE ~q.ok
    <3> HIDE DEF r
    <3>1. Complete([r EXCEPT !.phase = "denied", !.tok = 0]) /\ ~Renews([r EXCEPT !.phase = "denied", !.tok = 0])
      BY <2>1, Moved DEF Renews
    <3> QED BY <2>3, <3>1 DEF r
  <2> QED BY <2>2, <2>3
<1> HIDE DEF Sent2, pair
<1>4. /\ \A u \in Tab : u # t => call'[u] = call[u]
      /\ call'[t] = now
      /\ call' = [u \in Tab |-> [d \in Call |-> call'[u][d]]]
  <2>1. call = [u \in Tab |-> call[u]] /\ \A u \in Tab : call[u] = [d \in Call |-> call[u][d]]
    BY DEF PresentedOnce
  <2>2. now = [d \in Call |-> now[d]]
    OBVIOUS
  <2> HIDE DEF now
  <2>3. call' = [u \in Tab |-> call'[u]]
    BY <1>1, <2>1
  <2>4. call'[t] = now /\ \A u \in Tab : u # t => call'[u] = call[u]
    BY <1>1, <2>1
  <2>5. \A u \in Tab : call'[u] = [d \in Call |-> call'[u][d]]
    BY <2>1, <2>2, <2>4
  <2> QED BY <2>3, <2>4, <2>5
<1>5. \A u \in Tab, d \in Call : Fetched(call'[u][d]) => call'[u][d] = call[u][d] /\ ~(u = t /\ d = c)
  BY <1>3, <1>4 DEF Fetched, Renews, Waiters
<1>6. \A u \in Tab, d \in Call : call'[u][d] # Idle => Complete(call'[u][d])
  BY <1>3, <1>4 DEF PresentedOnce
<1>7. Fetched(q)
  BY <1>1 DEF Fetched
<1>8. /\ store' \in [gw : Gateway, tok : 0 .. minted'] /\ store'.tok = q.tok
      /\ q.tok # 0 => \A u \in Tab : q.tok \notin presented[u]
  BY <1>1, <1>7 DEF PresentedOnce, pair
<1> HIDE DEF now
<1>9. \A u \in Tab : \A k \in presented'[u] :
        k \in 1 .. minted' /\ (store'.tok = k => \E d \in Call : Renews(call'[u][d]))
  BY <1>1, <1>8 DEF PresentedOnce
<1>10. \A u \in Tab, d \in Call : Fetched(call'[u][d]) => call'[u][d].tok \in 0 .. minted'
  BY <1>1, <1>5 DEF PresentedOnce
<1>11. \A u \in Tab, d \in Call : Fetched(call'[u][d]) /\ call'[u][d].tok # 0 =>
        /\ call'[u][d].tok # store'.tok
        /\ \A v \in Tab : call'[u][d].tok \notin presented'[v]
        /\ \A v \in Tab, e \in Call :
              Fetched(call'[v][e]) /\ call'[v][e].tok = call'[u][d].tok => v = u /\ e = d
  BY <1>1, <1>5, <1>7, <1>8 DEF PresentedOnce
<1>12. presented' = [u \in Tab |-> presented'[u]] /\ replayed' = {} /\ minted' \in Nat
  BY <1>1 DEF PresentedOnce
<1> QED BY <1>4, <1>6, <1>8, <1>9, <1>10, <1>11, <1>12 DEF PresentedOnce, Fetched, Renews, Complete

(* A request that is sent again is the call it was. *)
LEMMA ResendStep ==
    ASSUME PresentedOnce, NEW t \in Tab, NEW c \in Call, Resend(t, c)
    PROVE  PresentedOnce'
<1> DEFINE q == call[t][c]
           rec == [q EXCEPT !.again = TRUE]
<1>1. /\ q # Idle /\ q.phase # "refreshed" /\ call' = [call EXCEPT ![t][c] = rec]
      /\ UNCHANGED <<store, presented, replayed, minted>>
  BY DEF Resend, Changes, SetCall, server
<1>2. Complete(q)
  BY <1>1 DEF PresentedOnce
<1>3. Complete(rec) /\ rec.phase = q.phase
  BY <1>2 DEF Complete
<1>4. ~Fetched(rec) /\ ~Fetched(q) /\ (Renews(q) => Renews(rec))
  BY <1>1, <1>3 DEF Fetched, Renews, Complete, Idle
<1> HIDE DEF rec
<1>5. /\ \A u \in Tab, d \in Call : call'[u][d] = IF u = t /\ d = c THEN rec ELSE call[u][d]
      /\ call' = [u \in Tab |-> [d \in Call |-> call'[u][d]]]
  <2>1. call = [u \in Tab |-> call[u]] /\ \A u \in Tab : call[u] = [d \in Call |-> call[u][d]]
    BY DEF PresentedOnce
  <2>2. call' = [call EXCEPT ![t] = [call[t] EXCEPT ![c] = rec]]
    BY <1>1
  <2>3. \A u \in Tab : call'[u] = [d \in Call |-> call'[u][d]]
    BY <2>1, <2>2
  <2>4. call' = [u \in Tab |-> call'[u]]
    BY <2>1, <2>2
  <2> QED BY <2>1, <2>2, <2>3, <2>4
<1>6. \A u \in Tab, d \in Call : /\ Fetched(call'[u][d]) => call'[u][d] = call[u][d]
                                 /\ Renews(call[u][d]) => Renews(call'[u][d])
                                 /\ call'[u][d] # Idle => Complete(call'[u][d])
  BY <1>3, <1>4, <1>5 DEF PresentedOnce
<1>7. \A u \in Tab : \A k \in presented'[u] :
        k \in 1 .. minted' /\ (store'.tok = k => \E d \in Call : Renews(call'[u][d]))
  <2>1. \A u \in Tab : (\E d \in Call : Renews(call[u][d])) => \E d \in Call : Renews(call'[u][d])
    BY <1>6
  <2>2. \A u \in Tab : \A k \in presented[u] :
          k \in 1 .. minted /\ (store.tok = k => \E d \in Call : Renews(call[u][d]))
    BY DEF PresentedOnce
  <2> QED BY <1>1, <2>1, <2>2
<1>8. \A u \in Tab, d \in Call : Fetched(call'[u][d]) /\ call'[u][d].tok # 0 =>
        /\ call'[u][d].tok # store'.tok
        /\ \A v \in Tab : call'[u][d].tok \notin presented'[v]
        /\ \A v \in Tab, e \in Call :
              Fetched(call'[v][e]) /\ call'[v][e].tok = call'[u][d].tok => v = u /\ e = d
  BY <1>1, <1>6 DEF PresentedOnce
<1>9. \A u \in Tab, d \in Call : Fetched(call'[u][d]) => call'[u][d].tok \in 0 .. minted'
  BY <1>1, <1>6 DEF PresentedOnce
<1>10. /\ minted' \in Nat /\ store' \in [gw : Gateway, tok : 0 .. minted']
       /\ presented' = [u \in Tab |-> presented'[u]] /\ replayed' = {}
  BY <1>1 DEF PresentedOnce
<1> QED BY <1>5, <1>6, <1>7, <1>8, <1>9, <1>10 DEF PresentedOnce, Fetched, Renews, Complete

LEMMA PresentedStep ==
    ASSUME PresentedOnce, [SessionNext]_sessionVars
    PROVE  PresentedOnce'
<1> USE PortalAssumption
<1>1. ASSUME NEW t \in Tab, NEW c \in Slots[t], Answered(t, c)
      PROVE  PresentedOnce'
  <2>1. c \in Call
    OBVIOUS
  <2> QED BY <1>1, <2>1, ServeStep, JoinStep, StartStep, SettleStep, EndStep DEF Answered
<1>2. ASSUME NEW t \in Tab, NEW c \in Slots[t],
             SignIn(t, c) \/ SignUp(t, c) \/ PageCall(t, c) \/ AcceptInvite(t, c) \/ SignOut(t, c)
      PROVE  PresentedOnce'
  <2>1. c \in Call
    OBVIOUS
  <2> QED BY <1>2, <2>1, LaunchStep, SignOutStep DEF SignIn, SignUp, PageCall, AcceptInvite
<1>3. ASSUME NEW t \in Tab, StashInvite(t) \/ SignOutBare(t)
      PROVE  PresentedOnce'
  <2>1. UNCHANGED <<call, store, presented, replayed, minted>>
    BY <1>3 DEF StashInvite, SignOutBare, server, history, endings
  <2> QED BY <2>1, IdleStep DEF PresentedOnce
<1>4. ASSUME NEW t \in Tab, Reload(t)
      PROVE  PresentedOnce'
  <2>1. Boot(t, store, cached) /\ UNCHANGED <<minted, replayed>>
    BY <1>4 DEF Reload, Boot, server
  <2>2. store \in [gw : Gateway, tok : {store.tok, 0}]
    BY DEF PresentedOnce
  <2> QED BY <2>1, <2>2, BootStep
<1>5. ASSUME NEW t \in Tab, NEW g \in Gateway, SwitchGateway(t, g)
      PROVE  PresentedOnce'
  <2>1. Boot(t, PerGateway(store, g), FALSE) /\ UNCHANGED <<minted, replayed>>
    BY <1>5 DEF SwitchGateway, Boot, server
  <2>2. PerGateway(store, g) \in [gw : Gateway, tok : {store.tok, 0}]
    BY DEF PerGateway, PresentedOnce
  <2> QED BY <2>1, <2>2, BootStep
<1>6. ASSUME NEW r \in stray, StrayServed(r)
      PROVE  PresentedOnce'
  <2>1. UNCHANGED <<call, store, presented, replayed>>
    BY <1>6 DEF StrayServed, history, endings
  <2>2. minted' = minted \/ minted' = minted + 1
    BY <1>6 DEF StrayServed, Mint, server
  <2> QED BY <2>1, <2>2, IdleStep DEF PresentedOnce
<1>7. ASSUME NEW t \in Tab, NEW c \in Slots[t], Resend(t, c)
      PROVE  PresentedOnce'
  <2>1. c \in Call
    OBVIOUS
  <2> QED BY <1>7, <2>1, ResendStep
<1>8. CASE UNCHANGED sessionVars
  <2>1. UNCHANGED <<call, store, presented, replayed, minted>>
    BY <1>8 DEF sessionVars
  <2> QED BY <2>1, IdleStep DEF PresentedOnce
<1>9. Tabs \subseteq Tab
  BY DEF Tabs
<1> QED BY <1>1, <1>2, <1>3, <1>4, <1>5, <1>6, <1>7, <1>8, <1>9 DEF SessionNext

(* Only the desktop app sends a refresh again. *)
LEMMA DesktopStep ==
    ASSUME resent # {} => native, [SessionNext]_sessionVars
    PROVE  resent' # {} => native'
<1>1. ASSUME NEW t \in Tab, NEW c \in Call, Answered(t, c)
      PROVE  UNCHANGED <<native, resent>>
  BY <1>1 DEF Answered, RefreshServed, JoinRefresh, StartRefresh, Settle, MeReturned, SignedIn,
     NothingChanges, InviteAccepted, InviteFails, SignedOut, history
<1>2. ASSUME NEW t \in Tab, NEW c \in Call,
             SignIn(t, c) \/ SignUp(t, c) \/ PageCall(t, c) \/ AcceptInvite(t, c) \/ SignOut(t, c)
      PROVE  UNCHANGED <<native, resent>>
  BY <1>2 DEF SignIn, SignUp, PageCall, AcceptInvite, SignOut, Launch, history
<1>3. ASSUME NEW t \in Tab,
             StashInvite(t) \/ SignOutBare(t) \/ Reload(t) \/ (\E g \in Gateway : SwitchGateway(t, g))
      PROVE  UNCHANGED <<native, resent>>
  BY <1>3 DEF StashInvite, SignOutBare, Reload, SwitchGateway, Boot, history
<1>4. ASSUME NEW t \in Tab, NEW c \in Call, Resend(t, c)
      PROVE  native /\ native' = native
  BY <1>4 DEF Resend
<1>5. ASSUME NEW q \in stray, StrayServed(q)
      PROVE  UNCHANGED <<native, resent>>
  BY <1>5 DEF StrayServed, history
<1>6. Tabs \subseteq Tab /\ \A t \in Tab : Slots[t] \subseteq Call
  BY PortalAssumption DEF Tabs
<1>7. CASE UNCHANGED sessionVars
  BY <1>7 DEF sessionVars
<1>8. CASE SessionNext
  BY <1>1, <1>2, <1>3, <1>4, <1>5, <1>6, <1>8 DEF SessionNext
<1> QED BY <1>7, <1>8

(* However many calls of however many pages meet a 401 together, and        *)
(* whatever other tabs store meanwhile, no page begins a second refresh     *)
(* with a refresh token (lib/api.ts, the shared promise `refreshing`); one  *)
(* is presented twice only by the desktop app, whose gatewayFetch sent the  *)
(* refresh again (lib/gateway.ts).                                          *)
THEOREM PagesDoNotReplay == PortalSpec => []NoSelfReplay
<1> DEFINE Inv == PresentedOnce /\ (resent # {} => native)
<1>1. PortalInit => Inv
  BY PresentedInitially DEF PortalInit, SessionInit
<1>2. ASSUME Inv, [PortalNext]_portalVars
      PROVE  Inv'
  <2>1. [SessionNext]_sessionVars
    BY <1>2 DEF PortalNext, AtSession, AtEntry, AtPage, AtGate, AtSearch, portalVars
  <2>2. PresentedOnce'
    BY <1>2, <2>1, PresentedStep
  <2>3. resent' # {} => native'
    BY <1>2, <2>1, DesktopStep
  <2> QED BY <2>2, <2>3
<1>3. Inv => NoSelfReplay
  BY DEF PresentedOnce, NoSelfReplay
<1> HIDE DEF Inv
<1> QED BY <1>1, <1>2, <1>3, PTL DEF PortalSpec

-----------------------------------------------------------------------------
LEMMA OfSession ==
    ASSUME [PortalNext]_portalVars
    PROVE  [SessionNext]_sessionVars
  BY DEF PortalNext, AtSession, AtEntry, AtPage, AtGate, AtSearch, portalVars

TokenRow ==
    [gw : Gateway \cup {NoGateway}, family : 0 .. MaxTok, state : {"none", "live", "used", "revoked"}]

(* The tokens issued are the first ones, and a family is named after its    *)
(* first token.                                                             *)
TokensRight ==
    /\ minted \in 0 .. MaxTok
    /\ token \in [Tok -> TokenRow]
    /\ \A k \in Tok : token[k].state # "none" => k <= minted
    /\ \A k \in Tok : k <= minted => token[k].family \in 1 .. minted

FlagsTyped ==
    /\ cached \in BOOLEAN /\ crossed \in BOOLEAN /\ accepted \in BOOLEAN
    /\ signedIn \in [Tab -> BOOLEAN] /\ loading \in [Tab -> BOOLEAN] /\ stash \in [Tab -> BOOLEAN]

(* A tab has one refresh at a time, and what waits for it waits once. *)
OneRefresh ==
    \A t \in Tab, c \in Call :
        /\ Renews(call[t][c]) => \A d \in Call : Renews(call[t][d]) => d = c
        /\ call[t][c] # Idle /\ call[t][c].phase = "waiting" =>
            ~call[t][c].retried /\ \E d \in Call : Renews(call[t][d])

(* A call is addressed to the chosen gateway, as long as nobody changed it  *)
(* under a call; what a refresh has fetched is of the gateway it asked; a   *)
(* sign-out names the family of the token it presents; an invitation that   *)
(* was joined is accepted.                                                  *)
Addressed(q) ==
    q # Idle =>
        /\ q.tok <= minted
        /\ ~crossed => q.gw = store.gw
        /\ q.phase = "refreshed" /\ q.tok # 0 => token[q.tok].gw = q.gw
        /\ q.what = "logout" =>
            /\ q.phase = "sent" /\ q.tok # 0 /\ q.family = token[q.tok].family
            /\ ~crossed => token[q.tok].gw = q.gw
        /\ q.what = "joined" => accepted

CallsRight ==
    /\ call \in [Tab -> [Call -> CallRow \cup {Idle}]]
    /\ \A r \in stray : r.tok \in 0 .. minted /\ r.gw \in Gateway
    /\ OneRefresh
    /\ \A t \in Tab, c \in Call : Addressed(call[t][c])

StoreRight ==
    /\ store \in [gw : Gateway, tok : 0 .. minted]
    /\ ~crossed /\ store.tok # 0 => token[store.tok].gw = store.gw

EndedRight == \A f \in ended : f \in 1 .. minted /\ (crossed \/ f \in unrevoked \/ LiveIn(f) = {})

-----------------------------------------------------------------------------
(* What a step may do to the tokens: issue more, use and revoke; a family   *)
(* without a live token gets none.                                          *)
TokensMove ==
    /\ TokensRight'
    /\ minted <= minted'
    /\ \A k \in Tok : k <= minted => token'[k].gw = token[k].gw /\ token'[k].family = token[k].family
    /\ \A f \in 1 .. minted : LiveIn(f) = {} => LiveIn(f)' = {}

LEMMA TokensStay ==
    ASSUME TokensRight, UNCHANGED <<token, minted>>
    PROVE  TokensMove
  BY DEF TokensRight, TokensMove, LiveIn

LEMMA MintMoves ==
    ASSUME TokensRight, minted < MaxTok, NEW gw \in Gateway, NEW family \in 0 .. minted, NEW kept,
           family = 0 \/ LiveIn(family) # {},
           kept \in [Tok -> TokenRow],
           \A k \in Tok : /\ kept[k].gw = token[k].gw /\ kept[k].family = token[k].family
                          /\ kept[k].state = "none" <=> token[k].state = "none"
                          /\ kept[k].state = "live" => token[k].state = "live",
           Mint(gw, family, kept)
    PROVE  /\ TokensMove
           /\ minted' = minted + 1 /\ minted' \in Tok
           /\ token'[minted'].gw = gw
<1> DEFINE k1 == minted + 1
           row == [gw |-> gw, family |-> IF family = 0 THEN k1 ELSE family, state |-> "live"]
<1>1. minted' = k1 /\ token' = [kept EXCEPT ![k1] = row]
  BY DEF Mint
<1>2. k1 \in Tok /\ k1 \in 1 .. k1 /\ minted \in Nat /\ k1 \in 0 .. MaxTok /\ MaxTok \in Nat
  BY PortalAssumption DEF TokensRight, Tok
<1>3. row \in TokenRow /\ row.family \in 1 .. k1 /\ row.gw = gw /\ row.state = "live"
  BY <1>2 DEF TokenRow
<1>4. row.family = k1 \/ LiveIn(row.family) # {}
  OBVIOUS
<1> HIDE DEF row
<1>5. token' \in [Tok -> TokenRow] /\ token'[k1] = row
      /\ \A k \in Tok : k # k1 => token'[k] = kept[k]
  BY <1>1, <1>2, <1>3
<1>6. \A k \in Tok : k <= minted => k # k1 /\ k <= k1
  BY <1>2 DEF Tok
<1>7. \A k \in Tok : token'[k].state # "none" => k <= minted'
  BY <1>1, <1>2, <1>5, <1>6 DEF TokensRight, Tok
<1>8. \A k \in Tok : k <= minted' => token'[k].family \in 1 .. minted'
  <2> SUFFICES ASSUME NEW k \in Tok, k <= minted' PROVE token'[k].family \in 1 .. minted'
    OBVIOUS
  <2>1. CASE k = k1
    BY <2>1, <1>1, <1>3, <1>5
  <2>2. CASE k # k1
    <3>1. k <= minted
      BY <2>2, <1>1, <1>2 DEF Tok
    <3>2. token'[k].family \in 1 .. minted
      BY <3>1, <2>2, <1>5 DEF TokensRight
    <3> QED BY <3>2, <1>1, <1>2
  <2> QED BY <2>1, <2>2
<1>9. TokensRight'
  BY <1>1, <1>2, <1>5, <1>7, <1>8 DEF TokensRight, TokenRow, Tok
<1>10. ASSUME NEW f \in 1 .. minted, LiveIn(f) = {}
       PROVE  LiveIn(f)' = {}
  <2>1. f # row.family
    BY <1>2, <1>4, <1>10
  <2>2. \A k \in Tok : ~(token'[k].state = "live" /\ token'[k].family = f)
    BY <1>5, <1>10, <2>1 DEF LiveIn
  <2> QED BY <2>2 DEF LiveIn
<1> QED BY <1>1, <1>2, <1>3, <1>5, <1>6, <1>9, <1>10 DEF TokensMove

LEMMA WithoutMoves ==
    ASSUME TokensRight, NEW g, token' = Without(g), minted' = minted
    PROVE  TokensMove /\ LiveIn(g)' = {}
<1>1. \A k \in Tok : token[k] \in TokenRow
  BY DEF TokensRight
<1>2. \A k \in Tok : token'[k] = IF k \in LiveIn(g) THEN [token[k] EXCEPT !.state = "revoked"] ELSE token[k]
  BY DEF Without
<1>3. \A k \in Tok : /\ token'[k] \in TokenRow
                     /\ token'[k].gw = token[k].gw /\ token'[k].family = token[k].family
                     /\ token'[k].state = IF k \in LiveIn(g) THEN "revoked" ELSE token[k].state
  BY <1>1, <1>2 DEF TokenRow
<1>4. token' = [k \in Tok |-> token'[k]]
  BY DEF Without
<1>5. token' \in [Tok -> TokenRow]
  BY <1>3, <1>4
<1>6. TokensRight'
  BY <1>3, <1>5 DEF TokensRight, LiveIn, TokenRow, Tok
<1> QED BY <1>3, <1>6 DEF TokensMove, LiveIn, TokensRight

(* The rotation of a refresh token and the revocation of its family: what   *)
(* RefreshServed and StrayServed have in common.                            *)
LEMMA RotationMoves ==
    ASSUME TokensRight, NEW q, q.tok \in 0 .. minted, q.gw \in Gateway,
           \/ Live(q) /\ minted < MaxTok /\ Mint(q.gw, Family(q.tok), [token EXCEPT ![q.tok].state = "used"])
           \/ ~Live(q) /\ token' = (IF Known(q) THEN Without(Family(q.tok)) ELSE token) /\ UNCHANGED minted
           \/ UNCHANGED <<token, minted>>
    PROVE  /\ TokensMove
           /\ minted' # minted => minted' = minted + 1 /\ minted' \in Tok /\ token'[minted'].gw = q.gw
<1>1. CASE Live(q) /\ minted < MaxTok /\ Mint(q.gw, Family(q.tok), [token EXCEPT ![q.tok].state = "used"])
  <2> DEFINE kept == [token EXCEPT ![q.tok].state = "used"]
             k1 == q.tok
  <2>1. k1 \in Tok /\ k1 <= minted /\ minted \in 0 .. MaxTok /\ MaxTok \in Nat
    BY <1>1, PortalAssumption DEF Live, Known, TokensRight, Tok
  <2>2. token[k1] \in TokenRow /\ token[k1].state = "live"
    BY <1>1, <2>1 DEF TokensRight, Live
  <2>3. /\ Family(k1) = token[k1].family
        /\ Family(k1) \in 0 .. minted
    BY <2>1 DEF Family, TokensRight, Tok
  <2>4. LiveIn(Family(k1)) # {}
    BY <2>1, <2>2, <2>3 DEF LiveIn
  <2> HIDE DEF k1
  <2>5. \A k \in Tok : [token EXCEPT ![k1].state = "used"][k] =
                         IF k = k1 THEN [token[k] EXCEPT !.state = "used"] ELSE token[k]
    BY <2>1 DEF TokensRight
  <2>6. \A k \in Tok : kept[k] = IF k = k1 THEN [token[k] EXCEPT !.state = "used"] ELSE token[k]
    BY <2>5 DEF k1
  <2>7. kept = [k \in Tok |-> kept[k]]
    BY DEF TokensRight
  <2> HIDE DEF kept
  <2>8. \A k \in Tok : /\ kept[k] \in TokenRow
                       /\ kept[k].gw = token[k].gw /\ kept[k].family = token[k].family
                       /\ kept[k].state = "none" <=> token[k].state = "none"
                       /\ kept[k].state = "live" => token[k].state = "live"
    <3> SUFFICES ASSUME NEW k \in Tok
                 PROVE  /\ kept[k] \in TokenRow
                        /\ kept[k].gw = token[k].gw /\ kept[k].family = token[k].family
                        /\ kept[k].state = "none" <=> token[k].state = "none"
                        /\ kept[k].state = "live" => token[k].state = "live"
      OBVIOUS
    <3>1. token[k] \in TokenRow
      BY DEF TokensRight
    <3>2. CASE k = k1
      BY <2>2, <2>6, <3>1, <3>2 DEF TokenRow
    <3>3. CASE k # k1
      BY <2>6, <3>1, <3>3
    <3> QED BY <3>2, <3>3
  <2>9. kept \in [Tok -> TokenRow]
    BY <2>7, <2>8
  <2>10. Mint(q.gw, Family(k1), kept)
    BY <1>1 DEF kept, k1
  <2>11. TokensMove /\ minted' = minted + 1 /\ minted' \in Tok /\ token'[minted'].gw = q.gw
    BY <1>1, <2>3, <2>4, <2>8, <2>9, <2>10, MintMoves
  <2> QED BY <2>11
<1>2. CASE token' = Without(Family(q.tok)) /\ UNCHANGED minted
  BY <1>2, WithoutMoves
<1>3. CASE UNCHANGED <<token, minted>>
  BY <1>3, TokensStay
<1> QED BY <1>1, <1>2, <1>3

-----------------------------------------------------------------------------
(* A record that a step leaves, read after the step. *)
AddressedThen(q) ==
    q # Idle =>
        /\ q.tok <= minted'
        /\ ~crossed => q.gw = store.gw
        /\ q.phase = "refreshed" /\ q.tok # 0 => token'[q.tok].gw = q.gw
        /\ q.what = "logout" =>
            /\ q.phase = "sent" /\ q.tok # 0 /\ q.family = token'[q.tok].family
            /\ ~crossed => token'[q.tok].gw = q.gw
        /\ q.what = "joined" => accepted'

LEMMA StaysAddressed ==
    ASSUME TokensRight, TokensMove, accepted => accepted',
           NEW q \in CallRow \cup {Idle}, Addressed(q)
    PROVE  AddressedThen(q)
<1> SUFFICES ASSUME q # Idle PROVE AddressedThen(q)
  BY DEF AddressedThen
<1>1. /\ q.tok \in 0 .. MaxTok /\ q.tok <= minted /\ minted \in Nat /\ minted' \in Nat /\ minted <= minted'
  BY PortalAssumption DEF CallRow, Addressed, TokensRight, TokensMove
<1>2. q.tok # 0 => q.tok \in Tok /\ token'[q.tok].gw = token[q.tok].gw /\ token'[q.tok].family = token[q.tok].family
  BY <1>1 DEF TokensMove, Tok
<1>3. q.tok <= minted'
  BY <1>1
<1> QED BY <1>2, <1>3 DEF Addressed, AddressedThen

(* A step of one call. *)
LEMMA OneCall ==
    ASSUME TokensRight, TokensMove, CallsRight, NEW t \in Tab, NEW c \in Call,
           NEW rec \in CallRow \cup {Idle}, SetCall(t, c, rec),
           store'.gw = store.gw, accepted => accepted', UNCHANGED crossed,
           stray' = stray \/ (call[t][c] # Idle /\ stray' = stray \cup {OnWire(call[t][c])}),
           AddressedThen(rec),
           Renews(call[t][c]) => Renews(rec),
           Renews(rec) => Renews(call[t][c]) \/ \A d \in Call : ~Renews(call[t][d]),
           rec # Idle /\ rec.phase = "waiting" => ~rec.retried /\ \E d \in Call : Renews(call[t][d])
    PROVE  CallsRight'
<1>1. call \in [Tab -> [Call -> CallRow \cup {Idle}]]
  BY DEF CallsRight
<1>2. call' = [call EXCEPT ![t] = [call[t] EXCEPT ![c] = rec]]
  BY DEF SetCall
<1>3. call' \in [Tab -> [Call -> CallRow \cup {Idle}]]
  BY <1>1, <1>2
<1>4. \A u \in Tab, d \in Call : call'[u][d] = IF u = t /\ d = c THEN rec ELSE call[u][d]
  BY <1>1, <1>2
<1>5. \A u \in Tab, d \in Call : Addressed(call[u][d])'
  <2> SUFFICES ASSUME NEW u \in Tab, NEW d \in Call PROVE Addressed(call[u][d])'
    OBVIOUS
  <2>1. AddressedThen(call'[u][d])
    <3>1. call[u][d] \in CallRow \cup {Idle} /\ Addressed(call[u][d])
      BY <1>1 DEF CallsRight
    <3>2. AddressedThen(call[u][d])
      BY <3>1, StaysAddressed
    <3> QED BY <1>4, <3>2
  <2> QED BY <2>1 DEF AddressedThen, Addressed
<1>6. OneRefresh'
  <2>1. OneRefresh
    BY DEF CallsRight
  <2>2. \A u \in Tab, d \in Call : Renews(call'[u][d]) <=> IF u = t /\ d = c THEN Renews(rec) ELSE Renews(call[u][d])
    BY <1>4
  <2>3. \A u \in Tab, d, e \in Call : Renews(call'[u][d]) /\ Renews(call'[u][e]) => e = d
    BY <2>1, <2>2 DEF OneRefresh
  <2>4. ASSUME NEW u \in Tab, NEW d \in Call, call'[u][d] # Idle, call'[u][d].phase = "waiting"
        PROVE  ~call'[u][d].retried /\ \E e \in Call : Renews(call'[u][e])
    <3>1. \E e \in Call : Renews(call[u][e])
      BY <1>4, <2>1, <2>4 DEF OneRefresh
    <3>2. \E e \in Call : Renews(call'[u][e])
      BY <2>2, <3>1
    <3>3. ~call'[u][d].retried
      BY <1>4, <2>1, <2>4 DEF OneRefresh
    <3> QED BY <3>2, <3>3
  <2> QED BY <2>3, <2>4 DEF OneRefresh, Renews
<1>7. \A r \in stray' : r.tok \in 0 .. minted' /\ r.gw \in Gateway
  <2>1. minted \in Nat /\ minted' \in Nat /\ minted <= minted'
    BY PortalAssumption DEF TokensRight, TokensMove
  <2>2. \A r \in stray : r.tok \in 0 .. minted /\ r.gw \in Gateway
    BY DEF CallsRight
  <2>3. ASSUME call[t][c] # Idle
        PROVE  OnWire(call[t][c]).tok \in 0 .. minted /\ OnWire(call[t][c]).gw \in Gateway
    <3>1. call[t][c] \in CallRow /\ Addressed(call[t][c])
      BY <1>1, <2>3 DEF CallsRight
    <3> QED BY <2>1, <2>3, <3>1, PortalAssumption DEF CallRow, Addressed, OnWire
  <2> QED BY <2>1, <2>2, <2>3
<1> QED BY <1>3, <1>5, <1>6, <1>7 DEF CallsRight, Renews, Addressed

LEMMA StoreStays ==
    ASSUME TokensRight, TokensMove, StoreRight, crossed' = crossed,
           store' = store \/ store' = [store EXCEPT !.tok = 0]
    PROVE  StoreRight' /\ store'.gw = store.gw
<1>1. minted \in Nat /\ minted' \in Nat /\ minted <= minted'
  BY PortalAssumption DEF TokensRight, TokensMove
<1>2. store' \in [gw : Gateway, tok : 0 .. minted'] /\ store'.gw = store.gw /\ store'.tok \in {store.tok, 0}
  BY <1>1 DEF StoreRight
<1>3. store.tok # 0 => store.tok \in Tok /\ store.tok <= minted
  BY PortalAssumption DEF StoreRight, TokensRight, Tok
<1> QED BY <1>2, <1>3 DEF StoreRight, TokensMove

LEMMA EndedStays ==
    ASSUME TokensRight, TokensMove, EndedRight, crossed => crossed', ended' = ended, unrevoked' = unrevoked
    PROVE  EndedRight'
<1>1. minted \in Nat /\ minted' \in Nat /\ minted <= minted'
  BY PortalAssumption DEF TokensRight, TokensMove
<1> QED BY <1>1 DEF EndedRight, TokensMove

LEMMA FlagsInitially == SessionInit => FlagsTyped
  BY DEF SessionInit, FlagsTyped

(* The flags of the tabs; an invitation accepted stays accepted, and is     *)
(* forgotten only then.                                                     *)
LEMMA FlagsStep ==
    ASSUME FlagsTyped, CallsRight, dropped # {} => accepted, [SessionNext]_sessionVars
    PROVE  FlagsTyped' /\ (accepted => accepted') /\ (dropped' # {} => accepted')
<1> USE DEF FlagsTyped
<1>1. ASSUME NEW t \in Tab, NEW c \in Call, NEW what, Launch(t, c, what)
      PROVE  FlagsTyped' /\ (accepted => accepted') /\ (dropped' # {} => accepted')
  BY <1>1 DEF Launch, server, view, history, endings
<1>2. ASSUME NEW t \in Tab, NEW c \in Call, SignOut(t, c)
      PROVE  FlagsTyped' /\ (accepted => accepted') /\ (dropped' # {} => accepted')
  BY <1>2 DEF SignOut, server, view, history, endings
<1>3. ASSUME NEW t \in Tab, StashInvite(t) \/ SignOutBare(t)
      PROVE  FlagsTyped' /\ (accepted => accepted') /\ (dropped' # {} => accepted')
  BY <1>3 DEF StashInvite, SignOutBare, server, view, history, endings
<1>4. ASSUME NEW t \in Tab, NEW pair, NEW cache \in BOOLEAN, Boot(t, pair, cache)
      PROVE  cached' \in BOOLEAN /\ signedIn' \in [Tab -> BOOLEAN] /\ loading' \in [Tab -> BOOLEAN]
  BY <1>4 DEF Boot
<1>5. ASSUME NEW t \in Tab, Reload(t)
      PROVE  FlagsTyped' /\ (accepted => accepted') /\ (dropped' # {} => accepted')
  BY <1>4, <1>5 DEF Reload, Boot, server
<1>6. ASSUME NEW t \in Tab, NEW g \in Gateway, SwitchGateway(t, g)
      PROVE  FlagsTyped' /\ (accepted => accepted') /\ (dropped' # {} => accepted')
  BY <1>4, <1>6 DEF SwitchGateway, Boot, server
<1>7. ASSUME NEW q \in stray, StrayServed(q)
      PROVE  FlagsTyped' /\ (accepted => accepted') /\ (dropped' # {} => accepted')
  BY <1>7 DEF StrayServed, view, server, history, endings
<1>8. ASSUME NEW t \in Tab, NEW c \in Call,
             \/ RefreshServed(t, c) \/ JoinRefresh(t, c) \/ StartRefresh(t, c) \/ Settle(t, c)
             \/ SignedIn(t, c) \/ NothingChanges(t, c) \/ InviteFails(t, c)
      PROVE  FlagsTyped' /\ (accepted => accepted') /\ (dropped' # {} => accepted')
  BY <1>8 DEF RefreshServed, JoinRefresh, StartRefresh, Settle, SignedIn, NothingChanges, InviteFails,
     Known, server, view, history, endings
<1>14. ASSUME NEW t \in Tab, NEW c \in Call, Resend(t, c)
       PROVE  FlagsTyped' /\ (accepted => accepted') /\ (dropped' # {} => accepted')
  BY <1>14 DEF Resend, server, view
<1>15. Tabs \subseteq Tab
  BY PortalAssumption DEF Tabs
<1>9. ASSUME NEW t \in Tab, NEW c \in Call, SignedOut(t, c)
      PROVE  FlagsTyped' /\ (accepted => accepted') /\ (dropped' # {} => accepted')
  BY <1>9 DEF SignedOut
<1>10. ASSUME NEW t \in Tab, NEW c \in Call, InviteAccepted(t, c)
      PROVE  FlagsTyped' /\ (accepted => accepted') /\ (dropped' # {} => accepted')
  BY <1>10 DEF InviteAccepted, Dropped
<1>11. ASSUME NEW t \in Tab, NEW c \in Call, MeReturned(t, c)
      PROVE  FlagsTyped' /\ (accepted => accepted') /\ (dropped' # {} => accepted')
  <2>1. call[t][c].what = "joined" => accepted
    BY <1>11 DEF MeReturned, Returning, Calling, CallsRight, Addressed
  <2>2. accepted' = accepted /\ crossed' = crossed
    BY <1>11 DEF MeReturned, server
  <2>3. PICK ans : /\ signedIn' = (IF ans = "error" THEN signedIn ELSE [signedIn EXCEPT ![t] = (ans = "ok")])
                   /\ cached' = (IF ans = "error" THEN cached ELSE ans = "ok")
                   /\ Dropped(t, call[t][c].what = "joined" /\ ans # "error")
                   /\ loading' = Over(t, c, ans)
    BY <1>11 DEF MeReturned
  <2>4. signedIn' \in [Tab -> BOOLEAN] /\ cached' \in BOOLEAN
    BY <2>3
  <2>5. loading' \in [Tab -> BOOLEAN]
    BY <2>3 DEF Over
  <2>6. stash' \in [Tab -> BOOLEAN] /\ (dropped' # {} => accepted)
    BY <2>1, <2>3 DEF Dropped
  <2> QED BY <2>2, <2>4, <2>5, <2>6
<1>12. CASE UNCHANGED sessionVars
  BY <1>12 DEF sessionVars
<1>13. ASSUME NEW t \in Tab, NEW c \in Slots[t]
       PROVE  c \in Call
  BY PortalAssumption
<1> QED BY <1>1, <1>2, <1>3, <1>5, <1>6, <1>7, <1>8, <1>9, <1>10, <1>11, <1>12, <1>13,
           <1>14, <1>15
        DEF SessionNext, Answered, SignIn, SignUp, PageCall, AcceptInvite

(* What every step keeps beside the flags. *)
PairsRight == TokensRight /\ CallsRight /\ StoreRight /\ EndedRight

LEMMA RequestAddressed ==
    ASSUME TokensRight, TokensMove, StoreRight, crossed' = crossed, NEW retried \in BOOLEAN,
           NEW what \in {"boot", "me", "page", "login", "register", "join", "joined", "accept"},
           what = "joined" => accepted'
    PROVE  /\ Request(what, retried, store) \in CallRow
           /\ AddressedThen(Request(what, retried, store))
           /\ ~Renews(Request(what, retried, store)) /\ Request(what, retried, store).phase = "sent"
<1>1. minted \in Nat /\ minted' \in Nat /\ minted <= minted' /\ MaxTok \in Nat /\ minted <= MaxTok
  BY PortalAssumption DEF TokensRight, TokensMove
<1>2. store.tok \in 0 .. MaxTok /\ store.tok <= minted' /\ store.gw \in Gateway
  BY <1>1 DEF StoreRight
<1> QED BY <1>1, <1>2 DEF Request, CallRow, AddressedThen, Renews

LEMMA LaunchKeeps ==
    ASSUME PairsRight, NEW t \in Tab, NEW c \in Call,
           NEW what \in {"page", "login", "register", "accept"}, Launch(t, c, what)
    PROVE  PairsRight'
<1>1. /\ SetCall(t, c, Request(what, FALSE, store)) /\ call[t][c] = Idle
      /\ UNCHANGED <<token, minted, accepted, store, stray, ended, unrevoked, crossed>>
  BY DEF Launch, server, history, endings
<1>2. TokensMove
  BY <1>1, TokensStay DEF PairsRight
<1>3. /\ Request(what, FALSE, store) \in CallRow
      /\ AddressedThen(Request(what, FALSE, store))
      /\ ~Renews(Request(what, FALSE, store)) /\ Request(what, FALSE, store).phase = "sent"
  BY <1>1, <1>2, RequestAddressed DEF PairsRight
<1>4. ~Renews(call[t][c])
  BY <1>1 DEF Renews
<1>5. CallsRight'
  BY <1>1, <1>2, <1>3, <1>4, OneCall DEF PairsRight
<1> QED BY <1>1, <1>2, <1>5, StoreStays, EndedStays DEF PairsRight, TokensMove

LEMMA SignOutKeeps ==
    ASSUME PairsRight, NEW t \in Tab, NEW c \in Call, SignOut(t, c)
    PROVE  PairsRight'
<1> DEFINE rec == [Request("logout", FALSE, SignedOff(store)) EXCEPT !.family = Family(store.tok)]
<1>1. /\ SetCall(t, c, rec) /\ call[t][c] = Idle /\ store.tok # 0
      /\ UNCHANGED <<token, minted, accepted, store, stray, ended, unrevoked, crossed>>
  BY DEF SignOut, server, history, endings
<1>2. TokensMove
  BY <1>1, TokensStay DEF PairsRight
<1>3. /\ store.tok \in 1 .. MaxTok /\ store.tok <= minted' /\ store.gw \in Gateway /\ store.tok \in Tok
      /\ token[store.tok].family \in 0 .. MaxTok /\ Family(store.tok) = token[store.tok].family
  BY <1>1, PortalAssumption DEF PairsRight, StoreRight, TokensRight, Tok, TokenRow, Family
<1>4. /\ rec \in CallRow /\ rec.phase = "sent" /\ rec.what = "logout" /\ rec.tok = store.tok
      /\ rec.gw = store.gw /\ rec.family = token[store.tok].family
  <2> DEFINE r == Request("logout", FALSE, SignedOff(store))
             f == Family(store.tok)
  <2>1. 0 \in 0 .. MaxTok /\ store.tok \in 0 .. MaxTok /\ MaxTok \in Nat /\ f = token[store.tok].family
    BY <1>3, PortalAssumption
  <2>2. r \in CallRow /\ r.phase = "sent" /\ r.what = "logout" /\ r.tok = store.tok /\ r.gw = store.gw
    BY <1>3, <2>1 DEF Request, CallRow, SignedOff
  <2>3. rec = [r EXCEPT !.family = f]
    OBVIOUS
  <2> HIDE DEF r, f, rec
  <2> QED BY <1>3, <2>1, <2>2, <2>3 DEF CallRow
<1> HIDE DEF rec
<1>5. AddressedThen(rec)
  BY <1>1, <1>3, <1>4 DEF AddressedThen, PairsRight, StoreRight
<1>6. ~Renews(call[t][c]) /\ ~Renews(rec)
  BY <1>1, <1>4 DEF Renews
<1>7. CallsRight'
  BY <1>1, <1>2, <1>4, <1>5, <1>6, OneCall DEF PairsRight
<1> QED BY <1>1, <1>2, <1>7, StoreStays, EndedStays DEF PairsRight, TokensMove

LEMMA JoinKeeps ==
    ASSUME PairsRight, NEW t \in Tab, NEW c \in Call, JoinRefresh(t, c)
    PROVE  PairsRight'
<1> DEFINE q == call[t][c]
           rec == [q EXCEPT !.phase = "waiting", !.tok = 0, !.again = FALSE]
<1>1. /\ q # Idle /\ q.phase = "sent" /\ q.what # "logout" /\ ~q.retried /\ SetCall(t, c, rec)
      /\ Refreshing(t)
      /\ UNCHANGED <<token, minted, accepted, store, stray, ended, unrevoked, crossed>>
  BY DEF JoinRefresh, Meets401, Sent, Retriable, Calling, server, history, endings
<1>2. TokensMove
  BY <1>1, TokensStay DEF PairsRight
<1>3. q \in CallRow /\ Addressed(q)
  BY <1>1 DEF PairsRight, CallsRight
<1>4. /\ rec \in CallRow /\ rec.phase = "waiting" /\ rec.what = q.what /\ rec.tok = 0
      /\ rec.gw = q.gw /\ ~rec.retried
  <2>1. 0 \in 0 .. MaxTok
    BY PortalAssumption
  <2> HIDE DEF q
  <2> QED BY <1>1, <1>3, <2>1 DEF CallRow
<1>5. \E d \in Call : Renews(call[t][d])
  BY <1>1 DEF Refreshing, Renews, Calling
<1>6. ~Renews(q)
  BY <1>1 DEF Renews
<1> HIDE DEF rec, q
<1>7. 0 <= minted'
  BY <1>1, PortalAssumption DEF PairsRight, TokensRight
<1>8. AddressedThen(rec) /\ ~Renews(rec)
  BY <1>1, <1>3, <1>4, <1>7 DEF AddressedThen, Addressed, Renews
<1>9. CallsRight'
  BY <1>1, <1>2, <1>4, <1>5, <1>6, <1>8, OneCall DEF PairsRight, q
<1> QED BY <1>1, <1>2, <1>9, StoreStays, EndedStays DEF PairsRight, TokensMove

LEMMA StartKeeps ==
    ASSUME PairsRight, NEW t \in Tab, NEW c \in Call, StartRefresh(t, c)
    PROVE  PairsRight'
<1> DEFINE q == call[t][c]
           rec == [q EXCEPT !.phase = "refreshing", !.tok = store.tok, !.gw = store.gw, !.again = FALSE]
<1>1. /\ q # Idle /\ q.phase = "sent" /\ q.what # "logout" /\ SetCall(t, c, rec) /\ ~Refreshing(t)
      /\ UNCHANGED <<token, minted, accepted, store, stray, ended, unrevoked, crossed>>
  BY DEF StartRefresh, Meets401, Sent, Retriable, Calling, server, endings
<1>2. TokensMove
  BY <1>1, TokensStay DEF PairsRight
<1>3. q \in CallRow /\ Addressed(q)
  BY <1>1 DEF PairsRight, CallsRight
<1>4. store.tok \in 0 .. MaxTok /\ store.gw \in Gateway /\ store.tok <= minted'
  BY <1>1, PortalAssumption DEF PairsRight, StoreRight, TokensRight
<1>5. /\ rec \in CallRow /\ rec.phase = "refreshing" /\ rec.what = q.what /\ rec.tok = store.tok
      /\ rec.gw = store.gw
  <2> HIDE DEF q
  <2> QED BY <1>1, <1>3, <1>4 DEF CallRow
<1>6. \A d \in Call : ~Renews(call[t][d])
  BY <1>1 DEF Refreshing, Renews, Calling
<1> HIDE DEF rec, q
<1>7. AddressedThen(rec)
  BY <1>1, <1>3, <1>4, <1>5 DEF AddressedThen, Addressed
<1>8. CallsRight'
  BY <1>1, <1>2, <1>5, <1>6, <1>7, OneCall DEF PairsRight, q
<1> QED BY <1>1, <1>2, <1>8, StoreStays, EndedStays DEF PairsRight, TokensMove

LEMMA ServeKeeps ==
    ASSUME PairsRight, NEW t \in Tab, NEW c \in Call, RefreshServed(t, c)
    PROVE  PairsRight'
<1> DEFINE q == call[t][c]
<1>1. /\ q # Idle /\ q.phase = "refreshing"
      /\ UNCHANGED <<accepted, store, stray, ended, unrevoked, crossed>>
  BY DEF RefreshServed, Calling, history, endings
<1>2. q \in CallRow /\ Addressed(q)
  BY <1>1 DEF PairsRight, CallsRight
<1>3. /\ TokensMove
      /\ minted' # minted => minted' = minted + 1 /\ minted' \in Tok /\ token'[minted'].gw = q.gw
  <2>1. /\ q.tok \in 0 .. minted /\ q.gw \in Gateway
    BY <1>1, <1>2, PortalAssumption DEF CallRow, Addressed, PairsRight, TokensRight
  <2>2. \/ Live(q) /\ minted < MaxTok /\ Mint(q.gw, Family(q.tok), [token EXCEPT ![q.tok].state = "used"])
        \/ ~Live(q) /\ token' = (IF Known(q) THEN Without(Family(q.tok)) ELSE token) /\ UNCHANGED minted
        \/ UNCHANGED <<token, minted>>
    BY DEF RefreshServed
  <2> HIDE DEF q
  <2>3. TokensRight
    BY DEF PairsRight
  <2> QED BY <2>1, <2>2, <2>3, RotationMoves
<1>4. minted \in Nat
  BY PortalAssumption DEF PairsRight, TokensRight
<1> PICK ok \in BOOLEAN : Refreshed(t, c, ok) /\ (ok => minted' = minted + 1)
  BY DEF RefreshServed, Mint
<1> DEFINE tok == IF ok THEN minted' ELSE 0
<1>5. \E rec \in CallRow :
        /\ SetCall(t, c, rec) /\ rec.phase = "refreshed" /\ rec.what = q.what /\ rec.gw = q.gw
        /\ rec.tok = 0 \/ (rec.tok = minted' /\ minted' = minted + 1)
  <2> DEFINE rec == [q EXCEPT !.phase = "refreshed", !.ok = ok, !.tok = tok, !.again = FALSE]
  <2>1. SetCall(t, c, rec)
    BY DEF Refreshed
  <2>2. tok \in 0 .. MaxTok /\ (tok = 0 \/ (tok = minted' /\ minted' = minted + 1))
    BY <1>3, <1>4, PortalAssumption DEF TokensMove, TokensRight
  <2> HIDE DEF q, tok
  <2>3. rec \in CallRow /\ rec.phase = "refreshed" /\ rec.what = q.what /\ rec.gw = q.gw /\ rec.tok = tok
    BY <1>2, <1>1, <2>2 DEF CallRow
  <2> HIDE DEF rec
  <2> QED BY <2>1, <2>2, <2>3
<1> PICK rec \in CallRow :
        /\ SetCall(t, c, rec) /\ rec.phase = "refreshed" /\ rec.what = q.what /\ rec.gw = q.gw
        /\ rec.tok = 0 \/ (rec.tok = minted' /\ minted' = minted + 1)
  BY <1>5
<1>6. Renews(q) /\ Renews(rec)
  BY <1>1 DEF Renews, CallRow, Idle
<1>7. q.what # "logout"
  BY <1>1, <1>2 DEF Addressed
<1>8. AddressedThen(rec)
  BY <1>1, <1>2, <1>3, <1>4, <1>7 DEF AddressedThen, Addressed
<1>9. CallsRight'
  BY <1>1, <1>3, <1>6, <1>8, OneCall DEF PairsRight
<1> QED BY <1>1, <1>3, <1>9, StoreStays, EndedStays DEF PairsRight, TokensMove

(* A call that ends with nothing new, and the store as it was or cleared. *)
LEMMA IdleKeeps ==
    ASSUME PairsRight, NEW t \in Tab, NEW c \in Call, SetCall(t, c, Idle), ~Renews(call[t][c]),
           TokensMove, accepted => accepted', UNCHANGED <<stray, crossed>>,
           store' = store \/ store' = [store EXCEPT !.tok = 0]
    PROVE  CallsRight' /\ StoreRight'
<1>1. AddressedThen(Idle) /\ ~Renews(Idle) /\ Idle \in CallRow \cup {Idle}
  BY DEF AddressedThen, Renews
<1>2. StoreRight' /\ store'.gw = store.gw
  BY StoreStays DEF PairsRight
<1> HIDE DEF Idle
<1> QED BY <1>1, <1>2, OneCall DEF PairsRight, Idle

LEMMA EndKeeps ==
    ASSUME PairsRight, NEW t \in Tab, NEW c \in Call, accepted => accepted',
           MeReturned(t, c) \/ NothingChanges(t, c) \/ InviteFails(t, c)
    PROVE  PairsRight'
<1>1. /\ SetCall(t, c, Idle) /\ UNCHANGED <<token, minted, stray, ended, unrevoked, crossed>>
      /\ store' = store \/ store' = [store EXCEPT !.tok = 0]
  BY DEF MeReturned, NothingChanges, InviteFails, server, history, endings
<1>2. ~Renews(call[t][c])
  BY DEF MeReturned, NothingChanges, InviteFails, Returning, Renews
<1>3. TokensMove
  BY <1>1, TokensStay DEF PairsRight
<1> QED BY <1>1, <1>2, <1>3, IdleKeeps, EndedStays DEF PairsRight, TokensMove

(* The session that was signed out of has no live token left, if the        *)
(* gateway revoked it.                                                      *)
LEMMA SignedOutKeeps ==
    ASSUME PairsRight, NEW t \in Tab, NEW c \in Call, SignedOut(t, c)
    PROVE  PairsRight'
<1> DEFINE q == call[t][c]
<1>1. /\ q # Idle /\ q.phase = "sent" /\ q.what = "logout" /\ SetCall(t, c, Idle)
      /\ store' = [store EXCEPT !.tok = 0]
      /\ UNCHANGED <<minted, accepted, stray, crossed>>
  BY DEF SignedOut, Sent, Calling
<1>2. \/ /\ token' = IF Known(q) THEN Without(Family(q.tok)) ELSE token
         /\ ended' = ended \cup {q.family} /\ unrevoked' = unrevoked
      \/ /\ token' = token
         /\ ended' = ended \cup {q.family} /\ unrevoked' = unrevoked \cup {q.family}
      \/ /\ token' = token \/ (Known(q) /\ token' = Without(Family(q.tok)))
         /\ ended' = ended /\ unrevoked' = unrevoked
  BY DEF SignedOut, endings
<1>3. q \in CallRow /\ Addressed(q) /\ ~Renews(q)
  BY <1>1 DEF PairsRight, CallsRight, Renews
<1>4. /\ q.tok # 0 /\ q.tok \in Tok /\ q.tok <= minted /\ q.family = Family(q.tok)
      /\ ~crossed => Known(q)
  BY <1>1, <1>3, PortalAssumption DEF Addressed, CallRow, Family, Known, Tok
<1>5. q.family \in 1 .. minted
  BY <1>4 DEF PairsRight, TokensRight, Family
<1> HIDE DEF q
<1> PICK g : g = q.family
  OBVIOUS
<1>6. TokensMove /\ (ended' # ended /\ ~crossed => g \in unrevoked' \/ LiveIn(g)' = {})
  <2>1. CASE token' = Without(Family(q.tok)) /\ Known(q)
    <3>1. token' = Without(g) /\ minted' = minted /\ TokensRight
      BY <1>1, <1>4, <2>1 DEF PairsRight
    <3>2. TokensMove /\ LiveIn(g)' = {}
      BY <3>1, WithoutMoves
    <3> QED BY <3>2
  <2>2. CASE token' = token /\ (Known(q) => ended' = ended \/ g \in unrevoked')
    BY <1>1, <1>4, <2>2, TokensStay DEF PairsRight
  <2> QED BY <1>2, <2>1, <2>2
<1>7. CallsRight' /\ StoreRight'
  BY <1>1, <1>3, <1>6, IdleKeeps DEF q
<1>8. EndedRight'
  <2>1. minted \in Nat /\ minted' = minted
    BY <1>1, PortalAssumption DEF PairsRight, TokensRight
  <2>2. \A f \in 1 .. minted : LiveIn(f) = {} => LiveIn(f)' = {}
    BY <1>6 DEF TokensMove
  <2>3. \A f \in ended : f \in 1 .. minted /\ (crossed \/ f \in unrevoked \/ LiveIn(f) = {})
    BY DEF PairsRight, EndedRight
  <2>4. ended' = ended \/ ended' = ended \cup {q.family}
    BY <1>2
  <2>5. unrevoked \subseteq unrevoked'
    BY <1>2
  <2>6. crossed' = crossed
    BY <1>1
  <2>7. \A f \in ended' : f \in 1 .. minted /\ (crossed \/ f \in unrevoked' \/ LiveIn(f)' = {})
    <3> SUFFICES ASSUME NEW f \in ended'
                 PROVE  f \in 1 .. minted /\ (crossed \/ f \in unrevoked' \/ LiveIn(f)' = {})
      OBVIOUS
    <3>1. CASE f \in ended
      BY <2>2, <2>3, <2>5, <3>1
    <3>2. CASE f \notin ended
      <4>1. f = g /\ ended' # ended
        BY <2>4, <3>2
      <4> QED BY <1>5, <1>6, <4>1
    <3> QED BY <3>1, <3>2
  <2> QED BY <2>1, <2>6, <2>7 DEF EndedRight
<1> QED BY <1>6, <1>7, <1>8 DEF PairsRight, TokensMove

(* A new session: of a family of its own, at the gateway of the call.       *)
LEMMA SignedInKeeps ==
    ASSUME PairsRight, NEW t \in Tab, NEW c \in Call, SignedIn(t, c)
    PROVE  PairsRight'
<1> DEFINE q == call[t][c]
<1>1. /\ q # Idle /\ q.phase = "sent" /\ minted < MaxTok /\ Mint(q.gw, 0, token)
      /\ UNCHANGED <<accepted, stray, ended, unrevoked, crossed>>
  BY DEF SignedIn, Sent, Calling, history, endings
<1>2. q \in CallRow /\ Addressed(q) /\ ~Renews(q)
  BY <1>1 DEF PairsRight, CallsRight, Renews
<1>3. q.gw \in Gateway /\ (~crossed => q.gw = store.gw)
  BY <1>1, <1>2 DEF CallRow, Addressed
<1>4. /\ TokensMove
      /\ minted' = minted + 1 /\ minted' \in Tok
      /\ token'[minted'].gw = q.gw
  <2>1. 0 \in 0 .. minted /\ token \in [Tok -> TokenRow] /\ TokensRight
    BY PortalAssumption DEF PairsRight, TokensRight
  <2> HIDE DEF q
  <2> QED BY <1>1, <1>3, <2>1, MintMoves
<1>5. \/ store' = [store EXCEPT !.tok = minted']
         /\ SetCall(t, c, Request(IF q.what = "login" THEN "me" ELSE AfterRegister(t), FALSE, store'))
      \/ store' = store /\ SetCall(t, c, Idle)
  BY DEF SignedIn
<1>6. CASE store' = store /\ SetCall(t, c, Idle)
  BY <1>1, <1>2, <1>4, <1>6, IdleKeeps, EndedStays DEF PairsRight, TokensMove
<1>7. CASE /\ store' = [store EXCEPT !.tok = minted']
           /\ SetCall(t, c, Request(IF q.what = "login" THEN "me" ELSE AfterRegister(t), FALSE, store'))
  <2>1. minted' \in 0 .. MaxTok /\ minted' \in 0 .. minted'
    BY <1>4, PortalAssumption DEF TokensMove, TokensRight
  <2>6. 0 \in 0 .. MaxTok
    BY PortalAssumption
  <2>2. store' \in [gw : Gateway, tok : 0 .. minted'] /\ store'.gw = store.gw /\ store'.tok = minted'
    BY <1>7, <2>1 DEF PairsRight, StoreRight
  <2>3. StoreRight'
    BY <1>1, <1>3, <1>4, <2>2 DEF StoreRight
  <2>4. \E rec \in CallRow : SetCall(t, c, rec) /\ AddressedThen(rec) /\ ~Renews(rec) /\ rec.phase = "sent"
    <3> DEFINE what == IF q.what = "login" THEN "me" ELSE AfterRegister(t)
               rec == Request(what, FALSE, store')
    <3>1. what \in {"me", "join"}
      BY DEF AfterRegister
    <3> HIDE DEF what
    <3>2. /\ rec \in CallRow /\ rec.tok = minted' /\ rec.gw = store.gw /\ rec.phase = "sent"
          /\ rec.what \notin {"logout", "joined"}
      BY <2>1, <2>2, <2>6, <3>1 DEF Request, CallRow
    <3> HIDE DEF rec
    <3>3. minted' <= minted'
      BY <2>1
    <3>4. AddressedThen(rec) /\ ~Renews(rec)
      BY <3>2, <3>3 DEF AddressedThen, Renews
    <3> QED BY <1>7, <3>2, <3>4 DEF rec, what
  <2>5. CallsRight'
    BY <1>1, <1>2, <1>4, <2>2, <2>4, OneCall DEF PairsRight
  <2> QED BY <1>1, <1>4, <2>3, <2>5, EndedStays DEF PairsRight, TokensMove
<1> QED BY <1>5, <1>6, <1>7

LEMMA AcceptedKeeps ==
    ASSUME PairsRight, NEW t \in Tab, NEW c \in Call, InviteAccepted(t, c)
    PROVE  PairsRight'
<1>1. /\ UNCHANGED <<token, minted, store, stray, ended, unrevoked, crossed>> /\ accepted'
      /\ call[t][c].phase = "sent"
  BY DEF InviteAccepted, Sent, endings
<1>2. TokensMove
  BY <1>1, TokensStay DEF PairsRight
<1>3. ~Renews(call[t][c])
  BY <1>1 DEF Renews
<1>4. CASE SetCall(t, c, Idle)
  BY <1>1, <1>2, <1>3, <1>4, IdleKeeps, EndedStays DEF PairsRight, TokensMove
<1>5. ASSUME NEW what \in {"joined", "me"}, SetCall(t, c, Request(what, FALSE, store))
      PROVE  PairsRight'
  <2>1. /\ Request(what, FALSE, store) \in CallRow
        /\ AddressedThen(Request(what, FALSE, store))
        /\ ~Renews(Request(what, FALSE, store)) /\ Request(what, FALSE, store).phase = "sent"
    BY <1>1, <1>2, RequestAddressed DEF PairsRight
  <2>2. CallsRight'
    BY <1>1, <1>2, <1>3, <1>5, <2>1, OneCall DEF PairsRight
  <2> QED BY <1>1, <1>2, <2>2, StoreStays, EndedStays DEF PairsRight, TokensMove
<1> QED BY <1>4, <1>5 DEF InviteAccepted

LEMMA SettleKeeps ==
    ASSUME PairsRight, NEW t \in Tab, NEW c \in Call, Settle(t, c)
    PROVE  PairsRight'
<1> DEFINE q == call[t][c]
           pair == [store EXCEPT !.tok = q.tok]
           Then(d) == IF q.ok THEN Request(call[t][d].what, TRUE, pair)
                      ELSE [call[t][d] EXCEPT !.phase = "denied", !.tok = 0]
           now == [d \in Call |-> IF d \notin Waiters(t, c) THEN call[t][d] ELSE Then(d)]
<1>1. /\ q # Idle /\ q.phase = "refreshed" /\ store' = pair
      /\ call' = [call EXCEPT ![t] = now]
      /\ UNCHANGED <<token, minted, accepted, stray, ended, unrevoked, crossed>>
  BY DEF Settle, Calling, server, history, endings
<1>2. TokensMove
  BY <1>1, TokensStay DEF PairsRight
<1>3. \A u \in Tab, d \in Call : call[u][d] \in CallRow \cup {Idle} /\ Addressed(call[u][d])
  BY DEF PairsRight, CallsRight
<1>4. /\ q \in CallRow /\ q.tok \in 0 .. minted /\ q.tok \in 0 .. MaxTok /\ 0 \in 0 .. MaxTok /\ 0 <= minted
      /\ ~crossed /\ q.tok # 0 => token[q.tok].gw = store.gw
  <2>1. minted \in 0 .. MaxTok /\ MaxTok \in Nat
    BY PortalAssumption DEF PairsRight, TokensRight
  <2>2. q \in CallRow /\ Addressed(q)
    BY <1>1, <1>3
  <2>3. q.tok \in 0 .. MaxTok /\ q.tok <= minted /\ (~crossed /\ q.tok # 0 => token[q.tok].gw = store.gw)
    BY <1>1, <2>2 DEF CallRow, Addressed
  <2> HIDE DEF q
  <2> QED BY <2>1, <2>2, <2>3
<1>5. pair \in [gw : Gateway, tok : 0 .. minted] /\ pair.tok = q.tok /\ pair.gw = store.gw
  <2>1. store \in [gw : Gateway, tok : 0 .. minted]
    BY DEF PairsRight, StoreRight
  <2> HIDE DEF q
  <2> QED BY <1>4, <2>1
<1>6. StoreRight'
  BY <1>1, <1>4, <1>5 DEF StoreRight
<1>7. ASSUME NEW d \in Waiters(t, c)
      PROVE  /\ d \in Call
             /\ Then(d) \in CallRow /\ AddressedThen(Then(d)) /\ Then(d).phase \in {"sent", "denied"}
  <2> DEFINE r == call[t][d]
  <2>1. d \in Call /\ r # Idle /\ r.phase \in {"waiting", "refreshed"}
    BY <1>1 DEF Waiters, Calling
  <2>2. r \in CallRow /\ Addressed(r) /\ r.what # "logout" /\ (r.what = "joined" => accepted)
    BY <1>3, <2>1 DEF Addressed
  <2> HIDE DEF q, pair, r
  <2>3. CASE q.ok
    <3>1. Then(d) = Request(r.what, TRUE, pair)
      BY <2>3 DEF r
    <3>2. pair.tok \in 0 .. MaxTok /\ pair.tok <= minted /\ pair.gw = store.gw /\ pair.gw \in Gateway
      BY <1>4, <1>5
    <3>3. /\ Then(d) \in CallRow /\ Then(d).phase = "sent" /\ Then(d).what = r.what
          /\ Then(d).tok = pair.tok /\ Then(d).gw = store.gw
      BY <1>4, <2>2, <3>1, <3>2 DEF Request, CallRow
    <3> HIDE DEF Then
    <3> QED BY <1>1, <2>1, <2>2, <3>2, <3>3 DEF AddressedThen
  <2>4. CASE ~q.ok
    <3>1. Then(d) = [r EXCEPT !.phase = "denied", !.tok = 0]
      BY <2>4 DEF r
    <3>2. /\ Then(d) \in CallRow /\ Then(d).phase = "denied" /\ Then(d).what = r.what
          /\ Then(d).tok = 0 /\ Then(d).gw = r.gw
      BY <1>4, <2>2, <3>1 DEF CallRow
    <3> HIDE DEF Then
    <3>3. ~crossed => r.gw = store.gw
      BY <2>1, <2>2 DEF Addressed, r
    <3> QED BY <1>1, <1>4, <2>1, <2>2, <3>2, <3>3 DEF AddressedThen
  <2> QED BY <2>1, <2>3, <2>4
<1> HIDE DEF Then, pair
<1>8. /\ \A u \in Tab : u # t => call'[u] = call[u]
      /\ call'[t] = now
      /\ call' \in [Tab -> [Call -> CallRow \cup {Idle}]]
  <2>1. now \in [Call -> CallRow \cup {Idle}]
    BY <1>3, <1>7
  <2> HIDE DEF now
  <2> QED BY <1>1, <2>1 DEF PairsRight, CallsRight
<1>9. \A u \in Tab, d \in Call : Addressed(call[u][d])'
  <2>1. \A u \in Tab, d \in Call : AddressedThen(call'[u][d])
    <3>1. \A u \in Tab, d \in Call : AddressedThen(call[u][d])
      BY <1>1, <1>2, <1>3, StaysAddressed DEF PairsRight
    <3> QED BY <1>7, <1>8, <3>1
  <2> QED BY <1>1, <1>5, <2>1 DEF AddressedThen, Addressed
<1>10. /\ c \in Waiters(t, c) /\ Renews(q)
       /\ \A d \in Call : call[t][d] # Idle /\ call[t][d].phase = "waiting" => d \in Waiters(t, c)
       /\ \A d \in Call : Renews(call[t][d]) => d = c
  BY <1>1 DEF Waiters, Calling, Renews, PairsRight, CallsRight, OneRefresh
<1>11. \A d \in Call : ~Renews(call'[t][d]) /\ ~(call'[t][d] # Idle /\ call'[t][d].phase = "waiting")
  BY <1>7, <1>8, <1>10 DEF Renews
<1>12. OneRefresh'
  <2>1. OneRefresh
    BY DEF PairsRight, CallsRight
  <2> HIDE DEF now
  <2> QED BY <1>8, <1>11, <2>1 DEF OneRefresh, Renews
<1>13. CallsRight'
  BY <1>1, <1>8, <1>9, <1>12 DEF CallsRight, PairsRight
<1> QED BY <1>1, <1>2, <1>6, <1>13, EndedStays DEF PairsRight, TokensMove

(* A page load that keeps the gateway, or one that changes it under no call *)
(* of another tab.                                                          *)
LEMMA BootKeeps ==
    ASSUME PairsRight, NEW t \in Tab, NEW pair \in [gw : Gateway, tok : {store.tok, 0}], NEW cache,
           Boot(t, pair, cache), UNCHANGED <<token, minted, accepted, ended, unrevoked>>,
           crossed => crossed',
           ~crossed' => \/ pair.gw = store.gw
                        \/ pair.tok = 0 /\ \A u \in Tab, d \in Call : u # t => call[u][d] = Idle
    PROVE  PairsRight'
<1> DEFINE now == BootCalls(t, pair)
<1>1. /\ store' = pair /\ call' = [call EXCEPT ![t] = now]
      /\ stray' = stray \cup {OnWire(call[t][c]) : c \in {d \in Call : Changes(call[t][d])}}
  BY DEF Boot
<1>2. TokensMove
  BY TokensStay DEF PairsRight
<1>3. \A u \in Tab, d \in Call : call[u][d] \in CallRow \cup {Idle} /\ Addressed(call[u][d])
  BY DEF PairsRight, CallsRight
<1>4. /\ store \in [gw : Gateway, tok : 0 .. minted] /\ minted \in 0 .. MaxTok /\ MaxTok \in Nat
      /\ 0 \in 0 .. MaxTok /\ 0 <= minted
  BY PortalAssumption DEF PairsRight, StoreRight, TokensRight
<1>5. pair \in [gw : Gateway, tok : 0 .. minted] /\ pair.tok \in 0 .. MaxTok /\ pair.tok <= minted
  BY <1>4
<1>6. StoreRight'
  BY <1>1, <1>5 DEF StoreRight, PairsRight
<1>7. \A d \in Call : /\ now[d] \in CallRow \cup {Idle} 
                      /\ now[d] # Idle => /\ now[d] \in CallRow /\ now[d].what = "boot" /\ now[d].phase = "sent"
                                          /\ now[d].tok = pair.tok /\ now[d].gw = pair.gw
  BY <1>4, <1>5 DEF BootCalls, Request, CallRow
<1>8. now \in [Call -> CallRow \cup {Idle}]
  BY <1>7 DEF BootCalls
<1> HIDE DEF now
<1>9. /\ \A u \in Tab : u # t => call'[u] = call[u]
      /\ call'[t] = now
      /\ call' \in [Tab -> [Call -> CallRow \cup {Idle}]]
  BY <1>1, <1>8 DEF PairsRight, CallsRight
<1>10. \A u \in Tab, d \in Call : Addressed(call[u][d])'
  <2> SUFFICES ASSUME NEW u \in Tab, NEW d \in Call PROVE Addressed(call[u][d])'
    OBVIOUS
  <2>1. CASE u = t
    BY <1>1, <1>5, <1>7, <1>9, <2>1 DEF Addressed
  <2>2. CASE u # t
    BY <1>1, <1>3, <1>9, <2>2 DEF Addressed
  <2> QED BY <2>1, <2>2
<1>11. OneRefresh'
  <2>1. OneRefresh
    BY DEF PairsRight, CallsRight
  <2>2. \A d \in Call : ~Renews(call'[t][d]) /\ ~(call'[t][d] # Idle /\ call'[t][d].phase = "waiting")
    BY <1>7, <1>9 DEF Renews
  <2> QED BY <1>9, <2>1, <2>2 DEF OneRefresh, Renews
<1>12. \A r \in stray' : r.tok \in 0 .. minted' /\ r.gw \in Gateway
  <2>1. ASSUME NEW d \in Call, Changes(call[t][d])
        PROVE  OnWire(call[t][d]).tok \in 0 .. minted /\ OnWire(call[t][d]).gw \in Gateway
    <3>1. call[t][d] \in CallRow /\ Addressed(call[t][d]) /\ call[t][d] # Idle
      BY <1>3, <2>1 DEF Changes
    <3> QED BY <1>4, <3>1 DEF CallRow, Addressed, OnWire
  <2>2. \A r \in stray : r.tok \in 0 .. minted /\ r.gw \in Gateway
    BY DEF PairsRight, CallsRight
  <2>3. \A r \in stray' : r \in stray \/ \E d \in Call : Changes(call[t][d]) /\ r = OnWire(call[t][d])
    BY <1>1
  <2> QED BY <2>1, <2>2, <2>3
<1>13. CallsRight'
  BY <1>9, <1>10, <1>11, <1>12 DEF CallsRight
<1> QED BY <1>2, <1>6, <1>13, EndedStays DEF PairsRight, TokensMove

(* A step that leaves the calls and the pair alone. *)
LEMMA CallsStay ==
    ASSUME PairsRight, TokensMove, accepted => accepted', UNCHANGED <<call, store, ended, unrevoked, crossed>>,
           stray' \subseteq stray
    PROVE  PairsRight'
<1>1. minted \in Nat /\ minted' \in Nat /\ minted <= minted'
  BY PortalAssumption DEF PairsRight, TokensRight, TokensMove
<1>2. \A u \in Tab, d \in Call : Addressed(call[u][d])'
  <2>1. \A u \in Tab, d \in Call : AddressedThen(call[u][d])
    BY StaysAddressed DEF PairsRight, CallsRight
  <2> QED BY <2>1 DEF Addressed, AddressedThen
<1>3. CallsRight'
  BY <1>1, <1>2 DEF PairsRight, CallsRight, OneRefresh, Renews
<1> QED BY <1>3, StoreStays, EndedStays DEF PairsRight, TokensMove

(* A request that is sent again, and what arrives of those that were.       *)
LEMMA ResendKeeps ==
    ASSUME PairsRight, NEW t \in Tab, NEW c \in Call, Resend(t, c)
    PROVE  PairsRight'
<1> DEFINE q == call[t][c]
           rec == [q EXCEPT !.again = TRUE]
<1>1. /\ q # Idle /\ SetCall(t, c, rec) /\ stray' = stray \cup {OnWire(q)}
      /\ q.phase \in {"sent", "refreshing"}
      /\ UNCHANGED <<token, minted, accepted, store, ended, unrevoked, crossed>>
  BY DEF Resend, Changes, server, endings
<1>2. TokensMove
  BY <1>1, TokensStay DEF PairsRight
<1>3. q \in CallRow /\ Addressed(q)
  BY <1>1 DEF PairsRight, CallsRight
<1>4. /\ rec \in CallRow /\ rec.phase = q.phase /\ rec.what = q.what /\ rec.tok = q.tok
      /\ rec.gw = q.gw /\ rec.family = q.family
  <2> HIDE DEF q
  <2> QED BY <1>3 DEF CallRow
<1>5. rec # Idle /\ (Renews(q) <=> Renews(rec))
  <2>1. \A r \in CallRow : r # Idle
    BY DEF CallRow, Idle
  <2> QED BY <1>1, <1>4, <2>1 DEF Renews
<1> HIDE DEF rec, q
<1>6. AddressedThen(rec)
  BY <1>1, <1>3, <1>4 DEF AddressedThen, Addressed
<1>7. CallsRight'
  BY <1>1, <1>2, <1>4, <1>5, <1>6, OneCall DEF PairsRight, q
<1> QED BY <1>1, <1>2, <1>7, StoreStays, EndedStays DEF PairsRight, TokensMove

LEMMA StrayKeeps ==
    ASSUME PairsRight, accepted => accepted', NEW r \in stray, StrayServed(r)
    PROVE  PairsRight'
<1>1. UNCHANGED <<call, store, ended, unrevoked, crossed>> /\ stray' \subseteq stray
  BY DEF StrayServed, history, endings
<1>2. r.tok \in 0 .. minted /\ r.gw \in Gateway /\ TokensRight
  BY DEF PairsRight, CallsRight
<1>3. TokensMove
  <2>1. CASE Live(r) /\ minted < MaxTok /\ Mint(r.gw, Family(r.tok), [token EXCEPT ![r.tok].state = "used"])
    BY <1>2, <2>1, RotationMoves
  <2>2. CASE token' = Without(Family(r.tok)) /\ UNCHANGED minted
    BY <1>2, <2>2, WithoutMoves
  <2>3. CASE minted < MaxTok /\ Mint(r.gw, 0, token)
    <3>1. 0 \in 0 .. minted /\ token \in [Tok -> TokenRow]
      BY <1>2, PortalAssumption DEF TokensRight
    <3> QED BY <1>2, <2>3, <3>1, MintMoves
  <2>4. CASE UNCHANGED <<token, minted>>
    BY <1>2, <2>4, TokensStay
  <2> QED BY <2>1, <2>2, <2>3, <2>4 DEF StrayServed, server
<1> QED BY <1>1, <1>3, CallsStay

LEMMA PairsInitially == SessionInit => PairsRight
<1> SUFFICES ASSUME SessionInit PROVE PairsRight
  OBVIOUS
<1> PICK g \in Gateway, signed \in BOOLEAN :
        /\ minted = IF signed THEN 1 ELSE 0
        /\ token = [k \in Tok |-> IF k = minted THEN [gw |-> g, family |-> k, state |-> "live"] ELSE NoToken]
        /\ store = [gw |-> g, tok |-> minted]
  BY DEF SessionInit
<1>1. /\ call = [t \in Tab |-> [c \in Call |-> Idle]] /\ stray = {} /\ ended = {} /\ crossed = FALSE
  BY DEF SessionInit
<1>2. minted \in 0 .. MaxTok /\ MaxTok \in Nat /\ minted \in {0, 1} /\ 0 \in 0 .. MaxTok
  BY PortalAssumption
<1>3. TokensRight
  <2>1. \A k \in Tok : token[k] = (IF k = minted THEN [gw |-> g, family |-> k, state |-> "live"] ELSE NoToken)
    OBVIOUS
  <2>2. \A k \in Tok : k \in 0 .. MaxTok /\ k # 0 /\ (k <= minted => k = minted)
    BY <1>2 DEF Tok
  <2>3. NoToken \in TokenRow /\ NoToken.state = "none"
    BY <1>2 DEF NoToken, TokenRow
  <2>4. \A k \in Tok : [gw |-> g, family |-> k, state |-> "live"] \in TokenRow
    BY <2>2 DEF TokenRow
  <2>5. token \in [Tok -> TokenRow]
    BY <2>1, <2>3, <2>4
  <2>6. \A k \in Tok : token[k].state # "none" => k <= minted
    BY <1>2, <2>1, <2>3
  <2>7. \A k \in Tok : k <= minted => token[k].family \in 1 .. minted
    BY <1>2, <2>1, <2>2
  <2> QED BY <1>2, <2>5, <2>6, <2>7 DEF TokensRight
<1>4. StoreRight
  BY <1>2 DEF StoreRight, Tok
<1>5. CallsRight
  BY <1>1 DEF CallsRight, OneRefresh, Renews, Addressed
<1> QED BY <1>1, <1>3, <1>4, <1>5 DEF PairsRight, EndedRight

LEMMA PairsStep ==
    ASSUME PairsRight, accepted => accepted', crossed \in BOOLEAN, [SessionNext]_sessionVars
    PROVE  PairsRight'
<1>1. ASSUME NEW t \in Tab, NEW c \in Slots[t], Answered(t, c)
      PROVE  PairsRight'
  <2>1. c \in Call
    BY PortalAssumption
  <2> QED BY <1>1, <2>1, ServeKeeps, JoinKeeps, StartKeeps, SettleKeeps, EndKeeps, SignedOutKeeps,
          SignedInKeeps, AcceptedKeeps DEF Answered
<1>2. ASSUME NEW t \in Tab, NEW c \in Slots[t],
             SignIn(t, c) \/ SignUp(t, c) \/ PageCall(t, c) \/ AcceptInvite(t, c) \/ SignOut(t, c)
      PROVE  PairsRight'
  <2>1. c \in Call
    BY PortalAssumption
  <2> QED BY <1>2, <2>1, LaunchKeeps, SignOutKeeps DEF SignIn, SignUp, PageCall, AcceptInvite
<1>3. ASSUME NEW t \in Tab, StashInvite(t) \/ SignOutBare(t)
      PROVE  PairsRight'
  <2>1. UNCHANGED <<call, store, ended, unrevoked, crossed, stray, token, minted>>
    BY <1>3 DEF StashInvite, SignOutBare, server, history, endings
  <2> QED BY <2>1, TokensStay, CallsStay DEF PairsRight
<1>4. store \in [gw : Gateway, tok : 0 .. minted]
  BY DEF PairsRight, StoreRight
<1>5. ASSUME NEW t \in Tab, Reload(t)
      PROVE  PairsRight'
  <2>1. Boot(t, store, cached) /\ UNCHANGED <<token, minted, accepted, ended, unrevoked, crossed>>
    BY <1>5 DEF Reload, Boot, server, endings
  <2>2. store \in [gw : Gateway, tok : {store.tok, 0}]
    BY <1>4
  <2> QED BY <2>1, <2>2, BootKeeps
<1>6. ASSUME NEW t \in Tab, NEW g \in Gateway, SwitchGateway(t, g)
      PROVE  PairsRight'
  <2> DEFINE pair == PerGateway(store, g)
  <2>1. /\ g # store.gw /\ Boot(t, pair, FALSE) /\ UNCHANGED <<token, minted, accepted, ended, unrevoked>>
        /\ crossed' = (crossed \/ \E u \in Tab \ {t} : Calling(u) # {})
    BY <1>6 DEF SwitchGateway, Boot, server, endings
  <2>2. pair \in [gw : Gateway, tok : {store.tok, 0}] /\ pair.tok = 0
    BY <2>1 DEF PerGateway
  <2>3. ~crossed' => \A u \in Tab, d \in Call : u # t => call[u][d] = Idle
    BY <2>1 DEF Calling
  <2> HIDE DEF pair
  <2> QED BY <2>1, <2>2, <2>3, BootKeeps
<1>7. ASSUME NEW r \in stray, StrayServed(r)
      PROVE  PairsRight'
  BY <1>7, StrayKeeps
<1>8. ASSUME NEW t \in Tab, NEW c \in Slots[t], Resend(t, c)
      PROVE  PairsRight'
  <2>1. c \in Call
    BY PortalAssumption
  <2> QED BY <1>8, <2>1, ResendKeeps
<1>9. CASE UNCHANGED sessionVars
  <2>1. UNCHANGED <<call, store, ended, unrevoked, crossed, stray, token, minted>>
    BY <1>9 DEF sessionVars
  <2> QED BY <2>1, TokensStay, CallsStay DEF PairsRight
<1>10. Tabs \subseteq Tab
  BY PortalAssumption DEF Tabs
<1> QED BY <1>1, <1>2, <1>3, <1>5, <1>6, <1>7, <1>8, <1>9, <1>10 DEF SessionNext

SessionRight == PairsRight /\ FlagsTyped /\ (dropped # {} => accepted)

LEMMA SessionInitially == SessionInit => SessionRight
  BY PairsInitially, FlagsInitially DEF SessionInit, SessionRight

LEMMA SessionStep ==
    ASSUME SessionRight, [SessionNext]_sessionVars
    PROVE  SessionRight'
<1>1. FlagsTyped' /\ (accepted => accepted') /\ (dropped' # {} => accepted')
  BY FlagsStep DEF SessionRight, PairsRight
<1>2. PairsRight'
  BY <1>1, PairsStep DEF SessionRight, FlagsTyped
<1> QED BY <1>1, <1>2 DEF SessionRight

LEMMA SessionIsTyped ==
    ASSUME PairsRight, FlagsTyped
    PROVE  PortalSessionTypeOK
<1>1. \A t \in Tab, c \in Call : call[t][c] \in CallRow \cup {Idle}
  BY DEF PairsRight, CallsRight
<1>2. minted \in Nat /\ MaxTok \in Nat /\ minted <= MaxTok
  BY PortalAssumption DEF PairsRight, TokensRight
<1>3. minted \in 0 .. MaxTok /\ store \in [gw : Gateway, tok : 0 .. MaxTok]
  BY <1>2 DEF PairsRight, StoreRight
<1>4. OneRefresh
  BY DEF PairsRight, CallsRight
<1>5. ASSUME NEW t \in Tab, NEW c \in Calling(t)
      PROVE  /\ call[t][c] \in CallRow
             /\ call[t][c].phase = "waiting" => Refreshing(t) /\ ~call[t][c].retried
  <2>1. c \in Call /\ call[t][c] # Idle
    BY DEF Calling
  <2> QED BY <1>1, <1>4, <2>1 DEF OneRefresh, Renews, Refreshing, Calling
<1>6. ASSUME NEW t \in Tab
      PROVE  Cardinality({c \in Calling(t) : call[t][c].phase = "refreshing"}) <= 1
  <2> DEFINE R == {c \in Calling(t) : call[t][c].phase = "refreshing"}
  <2>1. \A c, d \in R : c = d
    BY <1>4 DEF Calling, OneRefresh, Renews
  <2>2. R = {} \/ \E c : R = {c}
    BY <2>1
  <2> HIDE DEF R
  <2>3. Cardinality(R) = 0 \/ Cardinality(R) = 1
    BY <2>2, FS_EmptySet, FS_Singleton
  <2> QED BY <2>3 DEF R
<1> QED BY <1>3, <1>5, <1>6 DEF PortalSessionTypeOK, FlagsTyped

(* Tokens of another gateway than the chosen one are stored only when the   *)
(* choice was changed under a call of another tab (lib/gateway.ts); and a   *)
(* sign-out the gateway answered leaves no usable refresh token of that     *)
(* session, whatever refreshes were under way in whatever tabs, unless a    *)
(* tab sent it to another gateway (lib/auth.tsx), or the gateway, which     *)
(* answers 200 all the same, failed to look the token up or to revoke its   *)
(* family (gateway/internal/httpapi/auth.go:244).                           *)
THEOREM TokensBelong == PortalSpec => []TokensOfGateway
<1>1. PortalInit => SessionRight
  BY SessionInitially DEF PortalInit
<1>2. ASSUME SessionRight, [PortalNext]_portalVars
      PROVE  SessionRight'
  BY <1>2, OfSession, SessionStep
<1>3. SessionRight => TokensOfGateway
  BY DEF SessionRight, PairsRight, StoreRight, TokensOfGateway
<1> QED BY <1>1, <1>2, <1>3, PTL DEF PortalSpec

(* The sign-out, as above.                                                  *)
THEOREM SignOutsReach == PortalSpec => []SignOutReaches
<1>1. PortalInit => SessionRight
  BY SessionInitially DEF PortalInit
<1>2. ASSUME SessionRight, [PortalNext]_portalVars
      PROVE  SessionRight'
  BY <1>2, OfSession, SessionStep
<1>3. SessionRight => SignOutReaches
  BY DEF SessionRight, PairsRight, EndedRight, SignOutReaches
<1> QED BY <1>1, <1>2, <1>3, PTL DEF PortalSpec

-----------------------------------------------------------------------------
(* What comes before a page.                                                *)

ProbeRow == [by : {"boot", "test", "connect"}, url : Url, old : BOOLEAN]
QueryRow == [acct : Acct, none : BOOLEAN, latest : BOOLEAN]
SaveRow == [step : {"renaming", "creating", "rereading", "stuck"}, acct : Acct, left : SUBSET Whole]

(* The picker and its probes: the build's address is probed once, before    *)
(* anything else; a lock has the probe that takes it off.                   *)
PickerRight ==
    /\ deep \in Url \cup {NoUrl} /\ stored \in Url \cup {NoUrl} /\ typed \in Url \cup {NoUrl}
    /\ boot \in {"probe", "picker", "ready"}
    /\ test \in {"idle", "testing", "ok", "failed"}
    /\ connecting \in BOOLEAN
    /\ probe \in [Probe -> ProbeRow \cup {NoProbe}]
    /\ \A p \in Probe : Open(p) /\ probe[p].by = "boot" =>
        boot = "probe" /\ \A r \in Probe : Open(r) /\ probe[r].by = "boot" => r = p
    /\ connecting => \E p \in Probe : Open(p) /\ probe[p].by = "connect" /\ ~probe[p].old

(* The app is there with a session, and asks who is signed in.              *)
AppRight ==
    /\ session \in {"absent", "loading", "in", "out"} /\ current \in Acct \cup {NoAcct}
    /\ boot = "ready" <=> session # "absent"
    /\ meAsked \in BOOLEAN /\ (meAsked => session # "absent")
    /\ setup \in {"checking", "needed", "done", "away"}
    /\ query \in [Query -> QueryRow \cup {NoQuery}]
    /\ save \in [Save -> SaveRow \cup {NoSave}]
    /\ homes \in [Acct -> Nat]
    /\ unsure \in SUBSET (Acct \cup {NoAcct})

Held(s) == Saving(s) /\ "form" \in save[s].left
Unwritten(s) == save[s].step \in {"renaming", "creating"}
Last(q) == query[q] # NoQuery /\ query[q].latest

(* The form that is up is that of the account in force, and holds one save  *)
(* at most.                                                                 *)
FormRight ==
    /\ \A s \in Save : Held(s) =>
        save[s].left = Whole /\ session = "in" /\ setup = "needed" /\ current = save[s].acct
    /\ \A s, r \in Save : Held(s) /\ Held(r) => s = r
    /\ \A s \in Save : save[s].step = "stuck" => Held(s)

(* The latest question is about the account in force.                       *)
AskedRight ==
    /\ \A q \in Query : Last(q) => current \in {NoAcct, query[q].acct}
    /\ \A q, r \in Query : Last(q) /\ Last(r) => q = r
    /\ setup = "away" => \A q \in Query : query[q] = NoQuery

(* What is known of an account that nothing has become unsure of: a save    *)
(* that has not created a location yet has its form, and there is none; a   *)
(* form that holds no save stands over an account without any, and nothing  *)
(* is asked any more; a question that was answered by "none" has that       *)
(* answer still, and nobody is about to change it.                          *)
HomesRight ==
    /\ \A s \in Save : Unwritten(s) /\ save[s].acct \notin unsure => Held(s) /\ homes[save[s].acct] = 0
    /\ setup = "needed" /\ current \notin unsure \cup {NoAcct} =>
        /\ (\E s \in Save : Held(s)) \/ homes[current] = 0
        /\ \A q \in Query : ~Last(q)
    /\ \A q \in Query : Last(q) /\ query[q].none /\ query[q].acct \notin unsure =>
        /\ homes[query[q].acct] = 0
        /\ \A s \in Save : Unwritten(s) => save[s].acct # query[q].acct
    /\ \A a \in Acct \ unsure : homes[a] <= 1

SetupRight == AppRight /\ FormRight /\ AskedRight /\ HomesRight
EntryInv == PickerRight /\ SetupRight

-----------------------------------------------------------------------------
LEMMA FirstIsOne ==
    ASSUME NEW free \in SUBSET Nat, NEW n, NEW m, FirstOf(free, n), FirstOf(free, m)
    PROVE  n = m
  BY DEF FirstOf

LEMMA DecidedTyped ==
    ASSUME PickerRight, NEW choice \in Url \cup {NoUrl}
    PROVE  Decided(choice).mode \in {"probe", "picker", "ready"} /\ Decided(choice).prefill \in Url \cup {NoUrl}
  BY DEF PickerRight, Decided, Ask, Ready

LEMMA ProbingRight ==
    ASSUME NEW b
    PROVE  /\ Probing(b) \in [Probe -> ProbeRow \cup {NoProbe}]
           /\ \A p \in Probe : Probing(b)[p] # NoProbe =>
                /\ b.mode = "probe"
                /\ Probing(b)[p].by = "boot"
                /\ \A r \in Probe : Probing(b)[r] # NoProbe => r = p
<1>1. Probe \subseteq Nat /\ Home \in Url
  BY PortalEntryAssumption
<1>2. \A p \in Probe : Probing(b)[p] = IF b.mode = "probe" /\ FirstOf(Probe, p)
                                       THEN [by |-> "boot", url |-> Home, old |-> FALSE] ELSE NoProbe
  BY DEF Probing
<1>3. [by |-> "boot", url |-> Home, old |-> FALSE] \in ProbeRow
  BY <1>1 DEF ProbeRow
<1>4. \A p \in Probe : Probing(b)[p] \in ProbeRow \cup {NoProbe}
  BY <1>2, <1>3
<1>5. \A p \in Probe : Probing(b)[p] # NoProbe =>
        b.mode = "probe" /\ FirstOf(Probe, p) /\ Probing(b)[p].by = "boot"
  BY <1>2
<1>6. \A p, r \in Probe : FirstOf(Probe, p) /\ FirstOf(Probe, r) => r = p
  BY <1>1, FirstIsOne
<1>7. Probing(b) \in [Probe -> ProbeRow \cup {NoProbe}]
  BY <1>4 DEF Probing
<1> HIDE DEF Probing
<1> QED BY <1>5, <1>6, <1>7

(* One question at most is asked anew, about the account in force.          *)
AsksAnew(a) ==
    /\ query' \in [Query -> QueryRow \cup {NoQuery}]
    /\ \A q \in Query : query'[q] # NoQuery /\ query'[q].latest => a # NoAcct /\ query'[q] = Question(a)
    /\ \A q, r \in Query : query'[q] # NoQuery /\ query'[q].latest
                          /\ query'[r] # NoQuery /\ query'[r].latest => q = r

LEMMA QuestionTyped ==
    ASSUME AppRight, NEW a \in Acct
    PROVE  /\ Question(a) \in QueryRow /\ Question(a) # NoQuery /\ Question(a).acct = a
           /\ Question(a).latest /\ (Question(a).none => homes[a] = 0)
  BY PortalEntryAssumption DEF Question, QueryRow, NoQuery

LEMMA AskingRight ==
    ASSUME AppRight, NEW a \in Acct \cup {NoAcct}, query' = Asking(a) \/ query' = NoQueries
    PROVE  AsksAnew(a)
<1>1. CASE query' = NoQueries
  BY <1>1 DEF AsksAnew, NoQueries
<1>2. CASE query' = Asking(a)
  <2>1. \A q \in Query : query'[q] = IF a # NoAcct /\ FirstOf(Query, q) THEN Question(a) ELSE NoQuery
    BY <1>2 DEF Asking
  <2>2. a # NoAcct => Question(a) \in QueryRow
    BY QuestionTyped
  <2>3. query' \in [Query -> QueryRow \cup {NoQuery}]
    <3>1. \A q \in Query : query'[q] \in QueryRow \cup {NoQuery}
      BY <2>1, <2>2
    <3> QED BY <1>2, <3>1 DEF Asking
  <2>4. \A q, r \in Query : FirstOf(Query, q) /\ FirstOf(Query, r) => q = r
    BY FirstIsOne, PortalEntryAssumption
  <2>5. \A q \in Query : query'[q] # NoQuery => a # NoAcct /\ FirstOf(Query, q) /\ query'[q] = Question(a)
    BY <2>1
  <2> QED BY <2>3, <2>4, <2>5 DEF AsksAnew
<1> QED BY <1>1, <1>2

(* There is no form any more, and what it has not told anybody is unknown.  *)
FormIsGone ==
    /\ save' \in [Save -> SaveRow \cup {NoSave}]
    /\ \A s \in Save : save'[s] # NoSave => "form" \notin save'[s].left /\ save'[s].step # "stuck"
    /\ \A s \in Save : save'[s].step \in {"renaming", "creating"} => save'[s].acct \in unsure'
    /\ unsure \subseteq unsure' /\ unsure' \in SUBSET (Acct \cup {NoAcct})

LEMMA UnmountRight ==
    ASSUME AppRight, FormRight, HomesRight,
           NEW kept, \A s \in Save : kept[s] = save[s] \/ kept[s] = NoSave,
           NEW parts \in SUBSET Whole, "form" \in parts, Unmount(kept, parts)
    PROVE  FormIsGone
<1> DEFINE left(s) == [kept[s] EXCEPT !.left = @ \ parts]
<1>1. /\ save' = [s \in Save |-> IF kept[s].step \in {"none", "stuck"} THEN NoSave ELSE left(s)]
      /\ unsure' = unsure \cup Interrupted(kept)
  BY DEF Unmount, Unmounts
<1>2. \A s \in Save : kept[s].step \notin {"none", "stuck"} => kept[s] = save[s] /\ save[s] \in SaveRow
  BY DEF NoSave, AppRight
<1>3. \A s \in Save : kept[s].step \notin {"none", "stuck"} =>
        /\ left(s) \in SaveRow /\ left(s).step = save[s].step /\ left(s).acct = save[s].acct
        /\ "form" \notin left(s).left
  BY <1>2 DEF SaveRow
<1> HIDE DEF left
<1>4. \A s \in Save : save'[s] = NoSave \/ (kept[s].step \notin {"none", "stuck"} /\ save'[s] = left(s))
  BY <1>1
<1>5. save' \in [Save -> SaveRow \cup {NoSave}]
  <2>1. \A s \in Save : save'[s] \in SaveRow \cup {NoSave}
    BY <1>3, <1>4
  <2> QED BY <1>1, <2>1
<1>6. \A s \in Save : save'[s] # NoSave => "form" \notin save'[s].left /\ save'[s].step # "stuck"
  BY <1>2, <1>3, <1>4
<1>7. Interrupted(kept) \in SUBSET Acct
  BY <1>2 DEF Interrupted, SaveRow
<1>8. ASSUME NEW s \in Save, save'[s].step \in {"renaming", "creating"}
      PROVE  save'[s].acct \in unsure'
  <2>1. save'[s] # NoSave
    BY <1>8 DEF NoSave
  <2>2. kept[s] = save[s] /\ Unwritten(s) /\ save'[s].acct = save[s].acct /\ Saving(s)
    BY <1>2, <1>3, <1>4, <1>8, <2>1 DEF Unwritten, Saving, NoSave
  <2>3. CASE "form" \in save[s].left
    <3>1. save[s].acct \in Interrupted(kept)
      BY <2>2, <2>3 DEF Interrupted, Unwritten
    <3> QED BY <1>1, <2>2, <3>1
  <2>4. CASE "form" \notin save[s].left
    BY <1>1, <2>2, <2>4 DEF HomesRight, Held
  <2> QED BY <2>3, <2>4
<1> QED BY <1>1, <1>5, <1>6, <1>7, <1>8 DEF FormIsGone, AppRight

LEMMA NoFormRight ==
    ASSUME AppRight, FormRight, HomesRight, session # "in" \/ setup # "needed", UNCHANGED <<save, unsure>>
    PROVE  FormIsGone
<1>1. \A s \in Save : ~Held(s)
  BY DEF FormRight
<1>2. \A s \in Save : save[s] # NoSave => "form" \notin save[s].left /\ save[s].step # "stuck"
  BY <1>1 DEF FormRight, Held, Saving
<1>3. \A s \in Save : save[s].step \in {"renaming", "creating"} => save[s].acct \in unsure
  BY <1>1 DEF HomesRight, Unwritten
<1> QED BY <1>2, <1>3 DEF FormIsGone, AppRight

(* Without a form everything is found out anew, or nothing is asked.        *)
LEMMA SetupRegained ==
    ASSUME SetupRight, FormIsGone, homes' = homes, NEW a \in Acct \cup {NoAcct}, current' = a,
           session' \in {"absent", "loading", "in", "out"}, boot' = "ready" <=> session' # "absent",
           meAsked' \in BOOLEAN, meAsked' => session' # "absent",
           setup' \in {"checking", "needed", "done", "away"}, setup' = "needed" => a = NoAcct,
           setup' = "away" => \A q \in Query : query'[q] = NoQuery,
           query' \in [Query -> QueryRow \cup {NoQuery}],
           AsksAnew(a) \/ (a \in {NoAcct, current} /\ \A q \in Query : query'[q] \in {query[q], NoQuery})
    PROVE  SetupRight'
<1>1. AppRight'
  BY DEF SetupRight, AppRight, FormIsGone
<1>2. FormRight'
  <2>1. \A s \in Save : save'[s].step = "stuck" => save'[s] # NoSave
    BY DEF NoSave
  <2> QED BY <2>1 DEF FormIsGone, FormRight, Held, Saving
<1>3. \A q \in Query : query'[q] # NoQuery /\ query'[q].latest =>
        /\ a \in {NoAcct, query'[q].acct}
        /\ \/ a # NoAcct /\ query'[q] = Question(a)
           \/ Last(q) /\ query'[q] = query[q]
  <2>1. CASE AsksAnew(a)
    <3>1. a # NoAcct => Question(a).acct = a
      BY QuestionTyped DEF SetupRight
    <3> QED BY <2>1, <3>1 DEF AsksAnew
  <2>2. CASE a \in {NoAcct, current} /\ \A q \in Query : query'[q] \in {query[q], NoQuery}
    BY <2>2 DEF SetupRight, AskedRight, Last
  <2> QED BY <2>1, <2>2
<1>4. \A q, r \in Query : query'[q] # NoQuery /\ query'[q].latest
                         /\ query'[r] # NoQuery /\ query'[r].latest => q = r
  <2>1. CASE AsksAnew(a)
    BY <2>1 DEF AsksAnew
  <2>2. CASE a \in {NoAcct, current} /\ \A q \in Query : query'[q] \in {query[q], NoQuery}
    BY <2>2 DEF SetupRight, AskedRight, Last
  <2> QED BY <2>1, <2>2
<1>5. AskedRight'
  BY <1>3, <1>4 DEF AskedRight, Last
<1>6. HomesRight'
  <2>1. \A s \in Save : save'[s].step \in {"renaming", "creating"} => save'[s].acct \in unsure'
    BY DEF FormIsGone
  <2>2. ASSUME NEW q \in Query, query'[q] # NoQuery, query'[q].latest, query'[q].none, query'[q].acct \notin unsure'
        PROVE  homes'[query'[q].acct] = 0
    <3>1. CASE a # NoAcct /\ query'[q] = Question(a)
      BY <2>2, <3>1, QuestionTyped DEF SetupRight
    <3>2. CASE Last(q) /\ query'[q] = query[q]
      BY <2>2, <3>2 DEF SetupRight, HomesRight, FormIsGone
    <3> QED BY <1>3, <2>2, <3>1, <3>2
  <2>3. \A b \in Acct \ unsure' : homes'[b] <= 1
    BY DEF SetupRight, HomesRight, FormIsGone
  <2> QED BY <2>1, <2>2, <2>3 DEF HomesRight, Unwritten, Last
<1> QED BY <1>1, <1>2, <1>5, <1>6 DEF SetupRight

-----------------------------------------------------------------------------
(* What the provider of the session comes up with.                          *)
LEMMA RememberedRight ==
    ASSUME SetupRight, NEW a \in Acct \cup {NoAcct}, Remembered(a), boot' = "ready",
           FormIsGone, homes' = homes
    PROVE  SetupRight'
<1>1. /\ session' \in {"loading", "in"} /\ current' = a /\ meAsked' = TRUE /\ setup' = "checking"
      /\ query' = Asking(a)
  BY DEF Remembered
<1>2. AsksAnew(a)
  BY <1>1, AskingRight DEF SetupRight
<1> QED BY <1>1, <1>2, SetupRegained DEF AsksAnew

LEMMA UnmountedRight ==
    ASSUME SetupRight, Unmounted, boot' # "ready", FormIsGone, homes' = homes
    PROVE  SetupRight'
<1>1. /\ session' = "absent" /\ current' = NoAcct /\ meAsked' = FALSE /\ setup' = "checking"
      /\ query' = NoQueries
  BY DEF Unmounted
<1>2. AsksAnew(NoAcct)
  BY <1>1, AskingRight DEF SetupRight
<1> QED BY <1>1, <1>2, SetupRegained DEF AsksAnew

(* A new page, whatever was under way.                                      *)
LEMMA RestartRight ==
    ASSUME EntryInv, NEW choice \in Url \cup {NoUrl}, Restart(choice)
    PROVE  EntryInv'
<1> DEFINE b == Decided(choice)
           kept == [s \in Save |-> IF save[s].step = "creating" THEN save[s] ELSE NoSave]
<1>1. /\ boot' = b.mode /\ typed' = b.prefill /\ probe' = Probing(b)
      /\ stored' = choice /\ test' = "idle" /\ connecting' = FALSE
      /\ Unmount(kept, Whole) /\ deep' = deep /\ homes' = homes
  BY DEF Restart
<1>2. b.mode \in {"probe", "picker", "ready"} /\ b.prefill \in Url \cup {NoUrl}
  BY DecidedTyped DEF EntryInv
<1>3. b.mode = "ready" => \E a \in Acct \cup {NoAcct} : Remembered(a)
  BY DEF Restart
<1>4. b.mode # "ready" => Unmounted
  BY DEF Restart
<1>5. \A s \in Save : kept[s] = save[s] \/ kept[s] = NoSave
  OBVIOUS
<1> HIDE DEF b, kept
<1>6. FormIsGone
  BY <1>1, <1>5, UnmountRight DEF EntryInv, SetupRight, Whole
<1>7. PickerRight'
  BY <1>1, <1>2, ProbingRight DEF EntryInv, PickerRight, Open
<1>8. SetupRight'
  BY <1>1, <1>3, <1>4, <1>6, RememberedRight, UnmountedRight DEF EntryInv
<1> QED BY <1>7, <1>8 DEF EntryInv

LEMMA OpenPickerRight ==
    ASSUME EntryInv, OpenPicker
    PROVE  EntryInv'
<1>1. PickerRight'
  BY PortalEntryAssumption DEF OpenPicker, EntryInv, PickerRight, Open
<1>2. Unmounted /\ boot' = "picker" /\ homes' = homes /\ Unmount(save, Whole)
  BY DEF OpenPicker
<1>3. FormIsGone
  BY <1>2, UnmountRight DEF EntryInv, SetupRight, Whole
<1>4. SetupRight'
  BY <1>2, <1>3, UnmountedRight DEF EntryInv
<1> QED BY <1>1, <1>4 DEF EntryInv

LEMMA CancelRight ==
    ASSUME EntryInv, Cancel
    PROVE  EntryInv'
<1>1. /\ boot = "picker" /\ boot' = "ready" /\ connecting' = FALSE /\ test' = "idle"
      /\ probe' = [p \in Probe |-> IF Open(p) THEN [probe[p] EXCEPT !.old = TRUE] ELSE NoProbe]
      /\ UNCHANGED <<deep, stored, typed, save, homes, unsure>>
  BY DEF Cancel
<1>2. SetupRight'
  <2>1. PICK a \in Acct \cup {NoAcct} : Remembered(a)
    BY DEF Cancel
  <2>2. session = "absent"
    BY <1>1 DEF EntryInv, SetupRight, AppRight
  <2>3. FormIsGone
    BY <1>1, <2>2, NoFormRight DEF EntryInv, SetupRight
  <2> QED BY <1>1, <2>1, <2>3, RememberedRight DEF EntryInv
<1>3. \A p \in Probe : Open(p) => probe[p] \in ProbeRow
  BY DEF EntryInv, PickerRight, Open
<1>4. \A p \in Probe :
        /\ probe'[p] \in ProbeRow \cup {NoProbe}
        /\ probe'[p] # NoProbe => Open(p) /\ probe'[p].by = probe[p].by
  BY <1>1, <1>3 DEF ProbeRow
<1>5. probe' \in [Probe -> ProbeRow \cup {NoProbe}]
  BY <1>1, <1>4
<1>6. \A p \in Probe : Open(p) => probe[p].by # "boot"
  BY <1>1 DEF EntryInv, PickerRight
<1>7. PickerRight'
  BY <1>1, <1>4, <1>5, <1>6 DEF EntryInv, PickerRight, Open
<1> QED BY <1>2, <1>7 DEF EntryInv

(* A step of the picker: app stays. *)
LEMMA AppStays ==
    ASSUME SetupRight, UNCHANGED app, boot' = "ready" <=> boot = "ready"
    PROVE  SetupRight'
<1>1. UNCHANGED <<session, current, meAsked, setup, query, save, homes, unsure>>
  BY DEF app
<1>2. AppRight'
  BY <1>1 DEF SetupRight, AppRight
<1>3. FormRight'
  BY <1>1 DEF SetupRight, FormRight, Held, Saving
<1>4. AskedRight'
  BY <1>1 DEF SetupRight, AskedRight, Last
<1>5. HomesRight'
  BY <1>1 DEF SetupRight, HomesRight, Held, Saving, Unwritten, Last
<1> QED BY <1>2, <1>3, <1>4, <1>5 DEF SetupRight

LEMMA TypeRight ==
    ASSUME EntryInv, NEW url \in Url \cup {NoUrl}, Type(url)
    PROVE  EntryInv'
<1>1. PickerRight'
  BY DEF Type, EntryInv, PickerRight, Open
<1> QED BY <1>1, AppStays DEF Type, EntryInv

LEMMA TriesRight ==
    ASSUME EntryInv, NEW p \in Probe, NEW by \in {"test", "connect"}, Tries(p, by),
           connecting' \in BOOLEAN, by = "test" => connecting' = FALSE
    PROVE  EntryInv'
<1> DEFINE row == [by |-> by, url |-> typed, old |-> FALSE]
<1>1. /\ boot = "picker" /\ typed # NoUrl /\ ~Open(p)
      /\ probe' = [probe EXCEPT ![p] = row] /\ test' = "testing"
      /\ UNCHANGED <<deep, stored, boot, typed, app>>
  BY DEF Tries, FirstOf
<1>2. row \in ProbeRow /\ row.by = by /\ ~row.old /\ row # NoProbe
  BY <1>1 DEF EntryInv, PickerRight, ProbeRow, NoProbe
<1> HIDE DEF row
<1>3. /\ probe' \in [Probe -> ProbeRow \cup {NoProbe}]
      /\ \A r \in Probe : probe'[r] = IF r = p THEN row ELSE probe[r]
  BY <1>1, <1>2 DEF EntryInv, PickerRight
<1>4. PickerRight'
  BY <1>1, <1>2, <1>3 DEF EntryInv, PickerRight, Open
<1> QED BY <1>1, <1>4, AppStays DEF EntryInv

LEMMA ProbeAnsweredRight ==
    ASSUME EntryInv, NEW p \in Probe, ProbeAnswered(p)
    PROVE  EntryInv'
<1> DEFINE q == probe[p]
           frees == [probe EXCEPT ![p] = NoProbe]
<1>1. q \in ProbeRow /\ Open(p)
  BY DEF ProbeAnswered, EntryInv, PickerRight, Open
<1>2. /\ frees \in [Probe -> ProbeRow \cup {NoProbe}]
      /\ \A r \in Probe : frees[r] # NoProbe => r # p /\ frees[r] = probe[r]
      /\ \A r \in Probe : r # p => frees[r] = probe[r]
  BY DEF EntryInv, PickerRight
<1> HIDE DEF frees
<1>3. CASE q.by = "connect" /\ Restart(q.url)
  BY <1>1, <1>3, RestartRight DEF ProbeRow
<1>4. CASE /\ q.by = "connect"
           /\ IF q.old THEN UNCHANGED test ELSE test' = "failed"
           /\ connecting' = (connecting /\ q.old)
           /\ probe' = frees
           /\ UNCHANGED <<deep, stored, boot, typed, app>>
  <2>1. q.old \in BOOLEAN /\ connecting \in BOOLEAN
    BY <1>1 DEF ProbeRow, EntryInv, PickerRight
  <2>2. connecting' => \E r \in Probe : r # p /\ Open(r) /\ probe[r].by = "connect" /\ ~probe[r].old
    BY <1>4, <2>1 DEF EntryInv, PickerRight
  <2>3. connecting' => \E r \in Probe : probe'[r] # NoProbe /\ probe'[r].by = "connect" /\ ~probe'[r].old
    BY <1>2, <1>4, <2>2 DEF Open
  <2>4. test' \in {"idle", "testing", "ok", "failed"} /\ connecting' \in BOOLEAN
    BY <1>4, <2>1 DEF EntryInv, PickerRight
  <2>5. PickerRight'
    BY <1>2, <1>4, <2>3, <2>4 DEF EntryInv, PickerRight, Open
  <2> QED BY <1>4, <2>5, AppStays DEF EntryInv
<1>5. CASE /\ q.by = "test" /\ \E ok \in BOOLEAN : IF q.old THEN UNCHANGED test ELSE test' = IF ok THEN "ok" ELSE "failed"
           /\ probe' = frees
           /\ UNCHANGED <<connecting, deep, stored, boot, typed, app>>
  <2>1. connecting' => \E r \in Probe : probe'[r] # NoProbe /\ probe'[r].by = "connect" /\ ~probe'[r].old
    BY <1>2, <1>5 DEF EntryInv, PickerRight, Open
  <2>2. test' \in {"idle", "testing", "ok", "failed"}
    BY <1>5 DEF EntryInv, PickerRight
  <2>3. PickerRight'
    BY <1>2, <1>5, <2>1, <2>2 DEF EntryInv, PickerRight, Open
  <2> QED BY <1>5, <2>3, AppStays DEF EntryInv
<1>6. CASE /\ q.by = "boot" /\ probe' = frees
           /\ \/ boot' = "ready" /\ \E a \in Acct \cup {NoAcct} : Remembered(a)
              \/ boot' = "picker" /\ UNCHANGED <<session, current, meAsked, setup, query>>
           /\ UNCHANGED <<deep, stored, picker, save, homes, unsure>>
  <2>1. boot = "probe" /\ \A r \in Probe : Open(r) /\ probe[r].by = "boot" => r = p
    BY <1>1, <1>6 DEF EntryInv, PickerRight
  <2>2. connecting' => \E r \in Probe : probe'[r] # NoProbe /\ probe'[r].by = "connect" /\ ~probe'[r].old
    BY <1>2, <1>6 DEF EntryInv, PickerRight, Open, picker
  <2>3. PickerRight'
    BY <1>2, <1>6, <2>1, <2>2 DEF EntryInv, PickerRight, Open, picker
  <2>4. CASE boot' = "ready" /\ \E a \in Acct \cup {NoAcct} : Remembered(a)
    <3>1. session = "absent"
      BY <2>1 DEF EntryInv, SetupRight, AppRight
    <3>2. FormIsGone
      BY <1>6, <3>1, NoFormRight DEF EntryInv, SetupRight
    <3>3. SetupRight'
      BY <1>6, <2>4, <3>2, RememberedRight DEF EntryInv
    <3> QED BY <2>3, <3>3 DEF EntryInv
  <2>5. CASE boot' = "picker" /\ UNCHANGED <<session, current, meAsked, setup, query>>
    <3>1. UNCHANGED app
      BY <1>6, <2>5 DEF app
    <3> QED BY <2>1, <2>3, <2>5, <3>1, AppStays DEF EntryInv
  <2> QED BY <1>6, <2>4, <2>5
<1> QED BY <1>3, <1>4, <1>5, <1>6 DEF ProbeAnswered, frees

-----------------------------------------------------------------------------
(* The steps of the app leave the picker alone.                             *)
LEMMA PickerStays ==
    ASSUME PickerRight, UNCHANGED gateway
    PROVE  PickerRight' /\ boot' = boot
  BY DEF gateway, picker, PickerRight, Open

(* Another account is in force, or the user has come to be signed in.       *)
LEMMA SignedRight ==
    ASSUME EntryInv, UNCHANGED <<gateway, homes>>, meAsked' \in BOOLEAN, session # "absent",
           NEW a \in Acct \cup {NoAcct}, a # current \/ session # "in",
           NEW kept, \A s \in Save : kept[s] = save[s] \/ kept[s] = NoSave, Signed(a, kept)
    PROVE  EntryInv'
<1>1. PickerRight' /\ boot' = boot
  BY PickerStays DEF EntryInv
<1>2. current' = a /\ session' = "in" /\ Check(a) /\ Unmount(kept, {"form"})
  BY DEF Signed
<1>3. FormIsGone
  BY <1>2, UnmountRight DEF EntryInv, SetupRight, Whole
<1>4. /\ setup' \in {"checking", "needed", "done", "away"} /\ (setup' = "needed" => a = NoAcct)
      /\ setup' = "away" => \A q \in Query : query'[q] = NoQuery
      /\ query' \in [Query -> QueryRow \cup {NoQuery}]
      /\ AsksAnew(a) \/ (a \in {NoAcct, current} /\ \A q \in Query : query'[q] \in {query[q], NoQuery})
  <2>1. CASE setup = "away"
    <3>1. setup' = "away" /\ query' = query /\ \A q \in Query : query[q] = NoQuery
      BY <1>2, <2>1 DEF Check, EntryInv, SetupRight, AskedRight
    <3>2. AsksAnew(a)
      BY <3>1 DEF AsksAnew, EntryInv, SetupRight, AppRight
    <3> QED BY <3>1, <3>2 DEF EntryInv, SetupRight, AppRight
  <2>2. CASE setup # "away" /\ a = NoAcct
    BY <1>2, <2>2 DEF Check, EntryInv, SetupRight, AppRight
  <2>3. CASE setup # "away" /\ a # NoAcct
    <3>1. setup' = "checking"
      BY <1>2, <2>3 DEF Check
    <3>2. PICK q \in Query :
            query' = [x \in Query |-> IF x = q THEN Question(a)
                                      ELSE IF query[x] = NoQuery THEN NoQuery
                                      ELSE [query[x] EXCEPT !.latest = FALSE]]
      BY <1>2, <2>3 DEF Check
    <3>3. Question(a) \in QueryRow
      BY <2>3, QuestionTyped DEF EntryInv, SetupRight
    <3>4. \A x \in Query : x # q =>
            /\ query'[x] \in QueryRow \cup {NoQuery}
            /\ query'[x] # NoQuery => ~query'[x].latest
      <4>1. \A x \in Query : query[x] # NoQuery =>
              /\ [query[x] EXCEPT !.latest = FALSE] \in QueryRow
              /\ ~[query[x] EXCEPT !.latest = FALSE].latest
        BY DEF EntryInv, SetupRight, AppRight, QueryRow
      <4> QED BY <3>2, <4>1
    <3>5. query'[q] = Question(a)
      BY <3>2
    <3>6. query' \in [Query -> QueryRow \cup {NoQuery}]
      <4>1. \A x \in Query : query'[x] \in QueryRow \cup {NoQuery}
        BY <3>3, <3>4, <3>5
      <4> QED BY <3>2, <4>1
    <3>7. AsksAnew(a)
      BY <2>3, <3>4, <3>5, <3>6 DEF AsksAnew
    <3> QED BY <3>1, <3>6, <3>7
  <2> QED BY <2>1, <2>2, <2>3
<1>5. boot' = "ready" <=> session' # "absent"
  BY <1>1, <1>2 DEF EntryInv, SetupRight, AppRight
<1>6. SetupRight'
  BY <1>2, <1>3, <1>4, <1>5, SetupRegained DEF EntryInv
<1> QED BY <1>1, <1>6 DEF EntryInv

(* The layout goes away, with the session or without.                       *)
LEMMA AwayRight ==
    ASSUME EntryInv, UNCHANGED <<gateway, homes>>, meAsked' \in BOOLEAN, session # "absent",
           NEW kept, \A s \in Save : kept[s] = save[s] \/ kept[s] = NoSave,
           Unmount(kept, {"form", "layout"}), setup' = "away", query' = NoQueries,
           session' \in {"loading", "in", "out"}, current' \in {NoAcct, current}
    PROVE  EntryInv'
<1>1. PickerRight' /\ boot' = boot
  BY PickerStays DEF EntryInv
<1>2. FormIsGone
  BY UnmountRight DEF EntryInv, SetupRight, Whole
<1>3. boot' = "ready" <=> session' # "absent"
  BY <1>1 DEF EntryInv, SetupRight, AppRight
<1>4. PICK a \in Acct \cup {NoAcct} : current' = a
  BY DEF EntryInv, SetupRight, AppRight
<1>5. AsksAnew(a)
  BY AskingRight DEF EntryInv, SetupRight
<1>6. \A q \in Query : query'[q] = NoQuery
  BY DEF NoQueries
<1>7. SetupRight'
  BY <1>2, <1>3, <1>4, <1>5, <1>6, SetupRegained DEF EntryInv, AsksAnew
<1> QED BY <1>1, <1>7 DEF EntryInv

(* The layout comes, and asks.                                              *)
LEMMA EnterRight ==
    ASSUME EntryInv, UNCHANGED <<gateway, homes, meAsked, save, unsure>>, session # "absent",
           session # "in" \/ setup # "needed",
           NEW a \in Acct \cup {NoAcct}, current' = a, session' \in {"loading", "in"},
           setup' = "checking", query' = Asking(a)
    PROVE  EntryInv'
<1>1. PickerRight' /\ boot' = boot
  BY PickerStays DEF EntryInv
<1>2. FormIsGone
  BY NoFormRight DEF EntryInv, SetupRight
<1>3. /\ boot' = "ready" <=> session' # "absent"
      /\ meAsked' \in BOOLEAN
  BY <1>1 DEF EntryInv, SetupRight, AppRight
<1>4. AsksAnew(a)
  BY AskingRight DEF EntryInv, SetupRight
<1>5. SetupRight'
  BY <1>2, <1>3, <1>4, SetupRegained DEF EntryInv, AsksAnew
<1> QED BY <1>1, <1>5 DEF EntryInv

LEMMA MeAnsweredRight ==
    ASSUME EntryInv, MeAnswered
    PROVE  EntryInv'
<1>1. meAsked' = FALSE /\ UNCHANGED <<gateway, homes>> /\ session # "absent"
  BY DEF MeAnswered, EntryInv, SetupRight, AppRight
<1>2. ASSUME NEW a \in Acct \cup {NoAcct}, Signed(a, save), a # current \/ session # "in"
      PROVE  EntryInv'
  BY <1>1, <1>2, SignedRight
<1>3. CASE LoggedOut(save)
  BY <1>1, <1>3, AwayRight DEF LoggedOut
<1>4. CASE session = "in" /\ UNCHANGED <<session, current, setup, query, save, unsure>>
  <2>1. PickerRight' /\ boot' = boot
    BY <1>1, PickerStays DEF EntryInv
  <2>2. AppRight'
    BY <1>1, <1>4, <2>1 DEF EntryInv, SetupRight, AppRight
  <2>3. FormRight'
    BY <1>4 DEF EntryInv, SetupRight, FormRight, Held, Saving
  <2>4. AskedRight'
    BY <1>4 DEF EntryInv, SetupRight, AskedRight, Last
  <2>5. HomesRight'
    BY <1>1, <1>4 DEF EntryInv, SetupRight, HomesRight, Held, Saving, Unwritten, Last
  <2> QED BY <2>1, <2>2, <2>3, <2>4, <2>5 DEF EntryInv, SetupRight
<1>5. ASSUME NEW a \in Acct \cup {NoAcct}, Signed(a, save), a = current, session = "in"
      PROVE  EntryInv'
  <2>1. UNCHANGED <<session, current, setup, query, save, unsure>>
    BY <1>5 DEF Signed
  <2> QED BY <1>4, <1>5, <2>1
<1> QED BY <1>2, <1>3, <1>4, <1>5 DEF MeAnswered

LEMMA CheckAnsweredRight ==
    ASSUME EntryInv, NEW q \in Query, CheckAnswered(q)
    PROVE  EntryInv'
<1> DEFINE asked == query[q]
<1>1. /\ asked \in QueryRow /\ query' = [query EXCEPT ![q] = NoQuery]
      /\ UNCHANGED <<gateway, session, current, meAsked, homes>>
  BY DEF CheckAnswered, EntryInv, SetupRight, AppRight
<1>2. PickerRight' /\ boot' = boot
  BY <1>1, PickerStays DEF EntryInv
<1>3. /\ query' \in [Query -> QueryRow \cup {NoQuery}]
      /\ \A x \in Query : query'[x] \in {query[x], NoQuery} /\ (query'[x] # NoQuery => x # q)
  BY <1>1 DEF EntryInv, SetupRight, AppRight
<1>4. CASE setup' = "done" /\ Unmount(save, {"form"})
  <2>1. FormIsGone
    BY <1>4, UnmountRight DEF EntryInv, SetupRight, Whole
  <2>2. PICK a \in Acct \cup {NoAcct} : a = current
    BY DEF EntryInv, SetupRight, AppRight
  <2>3. /\ session' \in {"absent", "loading", "in", "out"} /\ (boot' = "ready" <=> session' # "absent")
        /\ meAsked' \in BOOLEAN /\ (meAsked' => session' # "absent")
    BY <1>1, <1>2 DEF EntryInv, SetupRight, AppRight
  <2>4. SetupRight'
    BY <1>1, <1>3, <1>4, <2>1, <2>2, <2>3, SetupRegained DEF EntryInv
  <2> QED BY <1>2, <2>4 DEF EntryInv
<1>5. CASE /\ asked.none /\ setup' = "needed" /\ UNCHANGED save
           /\ unsure' = IF asked.latest THEN unsure ELSE unsure \cup {current}
  <2>1. /\ unsure \subseteq unsure' /\ unsure' \in SUBSET (Acct \cup {NoAcct})
        /\ unsure' = unsure \/ current \in unsure'
    BY <1>5 DEF EntryInv, SetupRight, AppRight
  <2>2. AppRight'
    BY <1>1, <1>2, <1>3, <1>5, <2>1 DEF EntryInv, SetupRight, AppRight
  <2>3. FormRight'
    BY <1>1, <1>5 DEF EntryInv, SetupRight, FormRight, Held, Saving
  <2>4. AskedRight'
    BY <1>1, <1>3, <1>5 DEF EntryInv, SetupRight, AskedRight, Last
  <2>5. Last(q) \/ current \in unsure'
    BY <1>1, <1>5 DEF Last, CheckAnswered
  <2>6. Last(q) => \A x \in Query : query'[x] # NoQuery => ~query'[x].latest
    BY <1>3 DEF EntryInv, SetupRight, AskedRight, Last
  <2>7. Last(q) /\ current \notin unsure \cup {NoAcct} => homes[current] = 0
    BY <1>5 DEF EntryInv, SetupRight, AskedRight, HomesRight
  <2>8. current \notin unsure' \cup {NoAcct} =>
          homes[current] = 0 /\ \A x \in Query : query'[x] # NoQuery => ~query'[x].latest
    BY <2>1, <2>5, <2>6, <2>7
  <2>9. \A s \in Save : Unwritten(s) /\ save[s].acct \notin unsure' => Held(s) /\ homes[save[s].acct] = 0
    BY <2>1 DEF EntryInv, SetupRight, HomesRight
  <2>10. \A x \in Query : query'[x] # NoQuery /\ query'[x].latest /\ query'[x].none /\ query'[x].acct \notin unsure' =>
          /\ homes[query'[x].acct] = 0
          /\ \A s \in Save : Unwritten(s) => save[s].acct # query'[x].acct
    BY <1>3, <2>1 DEF EntryInv, SetupRight, HomesRight, Last
  <2>11. \A a \in Acct \ unsure' : homes[a] <= 1
    BY <2>1 DEF EntryInv, SetupRight, HomesRight
  <2>12. HomesRight'
    BY <1>1, <1>5, <2>8, <2>9, <2>10, <2>11 DEF HomesRight, Held, Saving, Unwritten, Last
  <2> QED BY <1>2, <2>2, <2>3, <2>4, <2>12 DEF EntryInv, SetupRight
<1> QED BY <1>4, <1>5 DEF CheckAnswered, CheckFailed

LEMMA SubmitRight ==
    ASSUME EntryInv, NEW s \in Save, SubmitFirst(s)
    PROVE  EntryInv'
<1> DEFINE row == [step |-> "renaming", acct |-> current, left |-> Whole]
<1>1. /\ session = "in" /\ setup = "needed" /\ current # NoAcct /\ ~Saving(s)
      /\ save' = [save EXCEPT ![s] = row]
      /\ UNCHANGED <<gateway, session, current, meAsked, setup, query, homes, unsure>>
  BY DEF SubmitFirst, FirstOf
<1>2. PickerRight' /\ boot' = boot
  BY <1>1, PickerStays DEF EntryInv
<1>3. current \in Acct
  BY <1>1 DEF EntryInv, SetupRight, AppRight
<1>4. row \in SaveRow /\ row # NoSave /\ row.left = Whole /\ "form" \in Whole /\ row.acct = current
      /\ row.step = "renaming"
  BY <1>3 DEF SaveRow, NoSave, Whole
<1>5. \A r \in Save : ~Held(r)
  BY DEF SubmitFirst, Submitting, Held
<1> HIDE DEF row
<1>6. /\ save' \in [Save -> SaveRow \cup {NoSave}]
      /\ \A r \in Save : save'[r] = IF r = s THEN row ELSE save[r]
  BY <1>1, <1>4 DEF EntryInv, SetupRight, AppRight
<1>7. AppRight'
  BY <1>1, <1>2, <1>6 DEF EntryInv, SetupRight, AppRight
<1>8. FormRight'
  BY <1>1, <1>4, <1>5, <1>6 DEF EntryInv, SetupRight, FormRight, Held, Saving
<1>9. AskedRight'
  BY <1>1 DEF EntryInv, SetupRight, AskedRight, Last
<1>10. current \notin unsure => homes[current] = 0 /\ \A q \in Query : ~Last(q)
  BY <1>1, <1>5 DEF EntryInv, SetupRight, HomesRight
<1>11. \A r \in Save : save'[r].step \in {"renaming", "creating"} /\ save'[r].acct \notin unsure =>
        /\ save'[r] # NoSave /\ "form" \in save'[r].left
        /\ homes[save'[r].acct] = 0
  BY <1>4, <1>5, <1>6, <1>10 DEF EntryInv, SetupRight, HomesRight, Unwritten
<1>12. \A q \in Query : Last(q) /\ query[q].acct \notin unsure => query[q].acct # current
  BY <1>10
<1>13. \A q \in Query : Last(q) /\ query[q].none /\ query[q].acct \notin unsure =>
        /\ homes[query[q].acct] = 0
        /\ \A r \in Save : save'[r].step \in {"renaming", "creating"} => save'[r].acct # query[q].acct
  BY <1>4, <1>6, <1>12 DEF EntryInv, SetupRight, HomesRight, Unwritten
<1>14. HomesRight'
  BY <1>1, <1>10, <1>11, <1>13 DEF EntryInv, SetupRight, HomesRight, Held, Saving, Unwritten, Last
<1> QED BY <1>2, <1>7, <1>8, <1>9, <1>14 DEF EntryInv, SetupRight

(* One save ends or takes its next step; the kept change under it only.     *)
LEMMA SaveStep ==
    ASSUME EntryInv, NEW s \in Save, Saving(s), NEW row \in SaveRow \cup {NoSave},
           save' = [save EXCEPT ![s] = row],
           row # NoSave => row.acct = save[s].acct /\ row.left = save[s].left,
           row.step = "stuck" => Held(s),
           UNCHANGED <<gateway, session, current, meAsked, setup, query>>,
           unsure' = unsure \/ unsure' = unsure \cup {save[s].acct},
           \/ /\ homes' = homes
              /\ row.step \in {"renaming", "creating"} => Unwritten(s)
              /\ Held(s) => row # NoSave \/ Unwritten(s)
           \/ /\ homes' = [homes EXCEPT ![save[s].acct] = @ + 1]
              /\ Unwritten(s) /\ row.step \notin {"renaming", "creating"}
              /\ row # NoSave \/ save[s].acct \in unsure'
    PROVE  EntryInv'
<1>1. PickerRight' /\ boot' = boot
  BY PickerStays DEF EntryInv
<1> DEFINE b == save[s].acct
<1>2. b \in Acct
  BY DEF EntryInv, SetupRight, AppRight, SaveRow, Saving
<1>3. /\ save' \in [Save -> SaveRow \cup {NoSave}]
      /\ \A r \in Save : save'[r] = IF r = s THEN row ELSE save[r]
  BY DEF EntryInv, SetupRight, AppRight
<1>4. /\ unsure \subseteq unsure' /\ unsure' \in SUBSET (Acct \cup {NoAcct})
  BY <1>2 DEF EntryInv, SetupRight, AppRight
<1>5. homes' \in [Acct -> Nat] /\ \A a \in Acct : a # b => homes'[a] = homes[a]
  BY <1>2 DEF EntryInv, SetupRight, AppRight
<1>6. AppRight'
  BY <1>1, <1>3, <1>4, <1>5 DEF EntryInv, SetupRight, AppRight
<1>7. \A r \in Save : save'[r] # NoSave /\ "form" \in save'[r].left => Held(r) /\ save'[r].acct = save[r].acct /\ save'[r].left = save[r].left
  BY <1>3 DEF Held, Saving
<1>8. \A r \in Save : save'[r].step = "stuck" => save'[r] # NoSave /\ "form" \in save'[r].left
  BY <1>3 DEF EntryInv, SetupRight, FormRight, Held, Saving, NoSave
<1>9. FormRight'
  BY <1>7, <1>8 DEF EntryInv, SetupRight, FormRight, Held, Saving
<1>10. AskedRight'
  BY DEF EntryInv, SetupRight, AskedRight, Last
<1>11. \A r \in Save : Held(r) => (save'[r] # NoSave /\ "form" \in save'[r].left) \/ (r = s /\ row = NoSave)
  BY <1>3 DEF Held, Saving
<1>12. \A r \in Save : save'[r].step \in {"renaming", "creating"} =>
        Unwritten(r) /\ save'[r].acct = save[r].acct /\ (r = s => homes' = homes /\ row # NoSave)
  BY <1>3 DEF Unwritten, NoSave
<1>13. Unwritten(s) /\ b \notin unsure => Held(s) /\ homes[b] = 0
  BY DEF EntryInv, SetupRight, HomesRight
<1>14. ASSUME homes' # homes
       PROVE  /\ homes'[b] = homes[b] + 1 /\ Unwritten(s)
              /\ row # NoSave \/ b \in unsure'
              /\ \A r \in Save : save'[r].step \in {"renaming", "creating"} => r # s
  BY <1>2, <1>3, <1>14 DEF EntryInv, SetupRight, AppRight
<1>15. \A r \in Save : save'[r].step \in {"renaming", "creating"} /\ save'[r].acct \notin unsure' =>
        /\ save'[r] # NoSave /\ "form" \in save'[r].left
        /\ homes'[save'[r].acct] = 0
  <2> SUFFICES ASSUME NEW r \in Save, save'[r].step \in {"renaming", "creating"}, save'[r].acct \notin unsure'
               PROVE  /\ save'[r] # NoSave /\ "form" \in save'[r].left
                      /\ homes'[save'[r].acct] = 0
    OBVIOUS
  <2>1. Unwritten(r) /\ save'[r].acct = save[r].acct /\ save[r].acct \notin unsure
    BY <1>4, <1>12
  <2>2. Held(r) /\ homes[save[r].acct] = 0
    BY <2>1 DEF EntryInv, SetupRight, HomesRight
  <2>3. save'[r] # NoSave /\ "form" \in save'[r].left
    BY <1>11, <1>12, <2>2
  <2>4. CASE homes' = homes
    BY <2>1, <2>2, <2>3, <2>4
  <2>5. CASE homes' # homes
    <3>1. r # s /\ Unwritten(s)
      BY <1>14, <2>5
    <3>2. save[r].acct # b
      <4>1. save[r].acct = b => Held(s)
        BY <1>13, <2>1, <3>1
      <4> QED BY <2>2, <3>1, <4>1 DEF EntryInv, SetupRight, FormRight
    <3>3. save[r].acct \in Acct
      BY <2>2 DEF EntryInv, SetupRight, AppRight, Held, Saving, SaveRow
    <3> QED BY <1>5, <2>1, <2>2, <2>3, <3>2, <3>3
  <2> QED BY <2>4, <2>5
<1>16. setup = "needed" /\ current \notin unsure' \cup {NoAcct} =>
        /\ (\E r \in Save : save'[r] # NoSave /\ "form" \in save'[r].left) \/ homes'[current] = 0
        /\ \A q \in Query : ~Last(q)
  <2> SUFFICES ASSUME setup = "needed", current \notin unsure' \cup {NoAcct},
                      ~\E r \in Save : save'[r] # NoSave /\ "form" \in save'[r].left
               PROVE  homes'[current] = 0
    BY <1>4 DEF EntryInv, SetupRight, HomesRight
  <2>1. current \in Acct \ unsure
    BY <1>4 DEF EntryInv, SetupRight, AppRight
  <2>2. CASE Held(s)
    <3>1. row = NoSave /\ b = current
      BY <1>11, <2>2 DEF EntryInv, SetupRight, FormRight
    <3>2. homes' = homes
      BY <1>14, <3>1
    <3>3. Unwritten(s)
      BY <1>14, <2>2, <3>1, <3>2
    <3> QED BY <1>13, <2>1, <3>1, <3>2, <3>3
  <2>3. CASE ~Held(s)
    <3>1. \A r \in Save : ~Held(r)
      BY <1>11, <2>3
    <3>2. homes[current] = 0
      BY <2>1, <3>1 DEF EntryInv, SetupRight, HomesRight
    <3>3. homes' # homes => b # current
      BY <1>13, <1>14, <2>1, <2>3
    <3> QED BY <1>5, <2>1, <3>2, <3>3
  <2> QED BY <2>2, <2>3
<1>17. \A q \in Query : Last(q) /\ query[q].none /\ query[q].acct \notin unsure' =>
        /\ homes'[query[q].acct] = 0
        /\ \A r \in Save : save'[r].step \in {"renaming", "creating"} => save'[r].acct # query[q].acct
  <2> SUFFICES ASSUME NEW q \in Query, Last(q), query[q].none, query[q].acct \notin unsure'
               PROVE  /\ homes'[query[q].acct] = 0
                      /\ \A r \in Save : save'[r].step \in {"renaming", "creating"} => save'[r].acct # query[q].acct
    OBVIOUS
  <2>1. homes[query[q].acct] = 0 /\ \A r \in Save : Unwritten(r) => save[r].acct # query[q].acct
    BY <1>4 DEF EntryInv, SetupRight, HomesRight
  <2>2. query[q].acct \in Acct
    BY DEF EntryInv, SetupRight, AppRight, Last, QueryRow
  <2>3. homes' # homes => query[q].acct # b
    BY <1>14, <2>1
  <2> QED BY <1>5, <1>12, <2>1, <2>2, <2>3
<1>18. \A a \in Acct \ unsure' : homes'[a] <= 1
  <2>1. homes' # homes /\ b \notin unsure' => homes'[b] = 1
    BY <1>4, <1>13, <1>14
  <2>2. \A a \in Acct \ unsure' : homes[a] <= 1
    BY <1>4 DEF EntryInv, SetupRight, HomesRight
  <2> QED BY <1>5, <2>1, <2>2
<1>19. HomesRight'
  BY <1>15, <1>16, <1>17, <1>18 DEF HomesRight, Held, Saving, Unwritten, Last
<1> QED BY <1>1, <1>6, <1>9, <1>10, <1>19 DEF EntryInv, SetupRight

LEMMA RenamedRight ==
    ASSUME EntryInv, NEW s \in Save, Renamed(s) \/ Created(s)
    PROVE  EntryInv'
<1>1. /\ Saving(s) /\ Unwritten(s) /\ save[s] \in SaveRow
      /\ UNCHANGED <<gateway, session, current, meAsked, setup, query>>
  BY DEF Renamed, Created, Saving, Unwritten, NoSave, EntryInv, SetupRight, AppRight
<1>2. NoSave.step = "none"
  BY DEF NoSave
<1>3. CASE Renamed(s)
  <2> DEFINE row == [save[s] EXCEPT !.step = "creating"]
  <2>1. UNCHANGED <<homes, unsure>>
    BY <1>3 DEF Renamed
  <2>2. row \in SaveRow /\ row.acct = save[s].acct /\ row.left = save[s].left /\ row.step = "creating"
    BY <1>1 DEF SaveRow
  <2>3. save' = [save EXCEPT ![s] = NoSave] \/ save' = [save EXCEPT ![s] = row]
    BY <1>3 DEF Renamed
  <2> HIDE DEF row
  <2> QED BY <1>1, <1>2, <2>1, <2>2, <2>3, SaveStep
<1>4. CASE Created(s)
  <2> DEFINE row == [save[s] EXCEPT !.step = "rereading"]
             b == save[s].acct
  <2>1. row \in SaveRow /\ row.acct = b /\ row.left = save[s].left /\ row.step = "rereading" /\ row # NoSave
    BY <1>1 DEF SaveRow, NoSave
  <2>2. \/ /\ homes' = [homes EXCEPT ![b] = @ + 1]
           /\ save' = [save EXCEPT ![s] = row] /\ UNCHANGED unsure
        \/ /\ homes' = [homes EXCEPT ![b] = @ + 1]
           /\ save' = [save EXCEPT ![s] = NoSave] /\ unsure' = unsure \cup {b}
        \/ save' = [save EXCEPT ![s] = NoSave] /\ UNCHANGED <<homes, unsure>>
    BY <1>4 DEF Created
  <2> HIDE DEF row
  <2> QED BY <1>1, <1>2, <2>1, <2>2, SaveStep
<1> QED BY <1>3, <1>4

LEMMA RereadRight ==
    ASSUME EntryInv, NEW s \in Save, Reread(s)
    PROVE  EntryInv'
<1> DEFINE mine == save[s]
           rest == [save EXCEPT ![s] = NoSave]
<1>1. /\ mine.step = "rereading" /\ Saving(s) /\ mine \in SaveRow /\ UNCHANGED <<gateway, meAsked, homes>>
  BY DEF Reread, Saving, NoSave, EntryInv, SetupRight, AppRight
<1>2. NoSave.step = "none"
  BY DEF NoSave
<1>3. \A r \in Save : rest[r] = save[r] \/ rest[r] = NoSave
  BY DEF EntryInv, SetupRight, AppRight
<1>4. Held(s) => mine.left = Whole /\ session = "in" /\ current = mine.acct
  BY DEF EntryInv, SetupRight, FormRight
<1>5. meAsked \in BOOLEAN /\ mine.acct \in Acct
  BY <1>1 DEF EntryInv, SetupRight, AppRight, SaveRow
<1>6. CASE save' = rest /\ ~Held(s) /\ UNCHANGED <<session, current, setup, query, unsure>>
  BY <1>1, <1>2, <1>6, SaveStep
<1>7. CASE session = "in" /\ mine.acct # current /\ Signed(mine.acct, rest)
  <2> HIDE DEF rest
  <2> QED BY <1>1, <1>3, <1>5, <1>7, SignedRight
<1>8. CASE mine.acct = current /\ setup' = "done" /\ Unmount(rest, {"form"}) /\ UNCHANGED <<session, current, query>>
  <2>1. PickerRight' /\ boot' = boot
    BY <1>1, PickerStays DEF EntryInv
  <2> HIDE DEF rest
  <2>2. FormIsGone
    BY <1>3, <1>8, UnmountRight DEF EntryInv, SetupRight, Whole
  <2>3. /\ session' \in {"absent", "loading", "in", "out"} /\ (boot' = "ready" <=> session' # "absent")
        /\ meAsked' \in BOOLEAN /\ (meAsked' => session' # "absent")
        /\ query' \in [Query -> QueryRow \cup {NoQuery}]
    BY <1>1, <1>8, <2>1 DEF EntryInv, SetupRight, AppRight
  <2>4. SetupRight'
    BY <1>1, <1>5, <1>8, <2>2, <2>3, SetupRegained DEF EntryInv
  <2> QED BY <2>1, <2>4 DEF EntryInv
<1>9. CASE session = "in" /\ LoggedOut(rest)
  <2> HIDE DEF rest
  <2> QED BY <1>1, <1>3, <1>5, <1>9, AwayRight DEF LoggedOut
<1>10. CASE /\ Held(s) /\ save' = [save EXCEPT ![s].step = "stuck"]
            /\ UNCHANGED <<session, current, setup, query, unsure>>
  <2> DEFINE row == [save[s] EXCEPT !.step = "stuck"]
  <2>1. row \in SaveRow /\ row.acct = mine.acct /\ row.left = mine.left /\ row.step = "stuck" /\ row # NoSave
    BY <1>1 DEF SaveRow, NoSave
  <2>2. save' = [save EXCEPT ![s] = row]
    BY <1>10
  <2> HIDE DEF row
  <2> QED BY <1>1, <1>10, <2>1, <2>2, SaveStep
<1>11. "form" \in mine.left <=> Held(s)
  BY <1>1 DEF Held
<1>12. "session" \in Whole /\ "layout" \in Whole
  BY DEF Whole
<1>13. CASE "session" \notin mine.left \/ session # "in"
  <2>1. ~Held(s)
    BY <1>4, <1>12, <1>13
  <2> QED BY <1>6, <1>13, <2>1 DEF Reread
<1>14. CASE "session" \in mine.left /\ session = "in"
  <2>1. \/ mine.acct # current /\ Signed(mine.acct, rest)
        \/ /\ mine.acct = current
           /\ IF "layout" \in mine.left
              THEN setup' = "done" /\ Unmount(rest, {"form"})
              ELSE save' = rest /\ UNCHANGED <<setup, unsure>>
           /\ UNCHANGED <<session, current, query>>
        \/ LoggedOut(rest)
        \/ /\ save' = IF "form" \in mine.left THEN [save EXCEPT ![s].step = "stuck"] ELSE rest
           /\ UNCHANGED <<session, current, setup, query, unsure>>
    BY <1>14 DEF Reread
  <2>2. "layout" \notin mine.left => ~Held(s)
    BY <1>4, <1>12
  <2> QED BY <1>6, <1>7, <1>8, <1>9, <1>10, <1>11, <1>14, <2>1, <2>2
<1> QED BY <1>13, <1>14

LEMMA EntryInitially == EntryInit => EntryInv
<1> SUFFICES ASSUME EntryInit PROVE EntryInv
  OBVIOUS
<1> DEFINE b == Decided(stored)
<1>1. /\ deep \in Url \cup {NoUrl} /\ stored \in Url \cup {NoUrl}
      /\ boot = b.mode /\ typed = b.prefill /\ probe = Probing(b)
      /\ session = (IF b.mode = "ready" THEN "loading" ELSE "absent")
      /\ meAsked = (b.mode = "ready")
      /\ test = "idle" /\ connecting = FALSE
      /\ current = NoAcct /\ setup = "checking" /\ query = NoQueries
      /\ save = [s \in Save |-> NoSave] /\ homes \in [Acct -> 0 .. 1] /\ unsure = {}
  BY DEF EntryInit
<1>2. b.mode \in {"probe", "picker", "ready"} /\ b.prefill \in Url \cup {NoUrl}
  BY <1>1 DEF Decided, Ask, Ready
<1> HIDE DEF b
<1>3. PickerRight
  BY <1>1, <1>2, ProbingRight DEF PickerRight, Open
<1>4. AppRight
  <2>1. query \in [Query -> QueryRow \cup {NoQuery}] /\ homes \in [Acct -> Nat]
    BY <1>1 DEF NoQueries
  <2>2. save \in [Save -> SaveRow \cup {NoSave}]
    BY <1>1
  <2>3. session \in {"absent", "loading"} /\ meAsked \in BOOLEAN
    BY <1>1
  <2>4. boot = "ready" <=> session # "absent"
    BY <1>1
  <2>5. meAsked => session # "absent"
    BY <1>1
  <2> QED BY <1>1, <2>1, <2>2, <2>3, <2>4, <2>5 DEF AppRight
<1>5. FormRight /\ AskedRight
  BY <1>1 DEF FormRight, AskedRight, Held, Last, Saving, NoSave, NoQueries
<1>6. HomesRight
  BY <1>1 DEF HomesRight, Held, Last, Saving, Unwritten, NoSave, NoQueries
<1> QED BY <1>3, <1>4, <1>5, <1>6 DEF EntryInv, SetupRight

LEMMA EntryStep ==
    ASSUME EntryInv, [EntryNext]_entryVars
    PROVE  EntryInv'
<1>1. CASE ReloadPage \/ ConnectAnyway \/ UseDefault
  BY <1>1, RestartRight DEF ReloadPage, ConnectAnyway, UseDefault, EntryInv, PickerRight
<1>2. CASE OpenPicker \/ Cancel
  BY <1>2, OpenPickerRight, CancelRight
<1>3. ASSUME NEW url \in Url \cup {NoUrl}, Type(url)
      PROVE  EntryInv'
  BY <1>3, TypeRight
<1>4. ASSUME NEW p \in Probe, RunTest(p) \/ OnConnect(p)
      PROVE  EntryInv'
  <2>1. CASE RunTest(p)
    <3>1. Tries(p, "test") /\ connecting' = FALSE
      BY <2>1 DEF RunTest, Tries, EntryInv, PickerRight
    <3> QED BY <3>1, TriesRight
  <2>2. CASE OnConnect(p)
    BY <2>2, TriesRight DEF OnConnect
  <2> QED BY <1>4, <2>1, <2>2
<1>5. CASE LeaveApp
  <2>1. /\ session \in {"loading", "in"} /\ setup' = "away" /\ query' = NoQueries
        /\ Unmount(save, {"form", "layout"})
        /\ UNCHANGED <<gateway, session, current, meAsked, homes>>
    BY <1>5 DEF LeaveApp
  <2>2. meAsked \in BOOLEAN
    BY DEF EntryInv, SetupRight, AppRight
  <2> QED BY <2>1, <2>2, AwayRight
<1>6. CASE EnterApp
  <2>1. PICK a \in Acct \cup {NoAcct} : a = current
    BY DEF EntryInv, SetupRight, AppRight
  <2>2. /\ session \in {"loading", "in"} /\ setup = "away" /\ setup' = "checking" /\ query' = Asking(a)
        /\ UNCHANGED <<gateway, session, current, meAsked, save, homes, unsure>>
    BY <1>6, <2>1 DEF EnterApp
  <2> QED BY <2>1, <2>2, EnterRight
<1>7. ASSUME NEW a \in Acct \cup {NoAcct}, SignInAgain(a)
      PROVE  EntryInv'
  BY <1>7, EnterRight DEF SignInAgain
<1>8. ASSUME NEW a \in Acct, SwitchAccount(a)
      PROVE  EntryInv'
  <2>1. session = "in" /\ current # a /\ Signed(a, save) /\ UNCHANGED <<gateway, meAsked, homes>>
    BY <1>8 DEF SwitchAccount
  <2>2. meAsked \in BOOLEAN
    BY DEF EntryInv, SetupRight, AppRight
  <2> QED BY <2>1, <2>2, SignedRight
<1>9. ASSUME NEW s \in Save, SubmitFirst(s) \/ Renamed(s) \/ Created(s) \/ Reread(s)
      PROVE  EntryInv'
  BY <1>9, SubmitRight, RenamedRight, RereadRight
<1>10. ASSUME NEW p \in Probe, ProbeAnswered(p)
       PROVE  EntryInv'
  BY <1>10, ProbeAnsweredRight
<1>11. CASE MeAnswered
  BY <1>11, MeAnsweredRight
<1>12. ASSUME NEW q \in Query, CheckAnswered(q)
       PROVE  EntryInv'
  BY <1>12, CheckAnsweredRight
<1>13. CASE UNCHANGED entryVars
  <2>1. UNCHANGED app /\ PickerRight' /\ boot' = boot
    BY <1>13, PickerStays DEF entryVars, EntryInv
  <2> QED BY <2>1, AppStays DEF EntryInv
<1> QED BY <1>1, <1>2, <1>3, <1>4, <1>5, <1>6, <1>7, <1>8, <1>9, <1>10, <1>11, <1>12, <1>13 DEF EntryNext, EntryAlone

LEMMA EntryIsTyped ==
    ASSUME EntryInv
    PROVE  EntryTypeOK /\ OneFirstHome
<1>1. \A p \in Probe : Open(p) => probe[p].by \in {"boot", "test", "connect"}
  BY DEF EntryInv, PickerRight, ProbeRow, Open
<1>2. \A s \in Save : Saving(s) =>
        /\ save[s].acct \in Acct /\ save[s].left \subseteq Whole
        /\ "form" \in save[s].left => session = "in" /\ setup = "needed" /\ current = save[s].acct
  <2>1. \A s \in Save : Saving(s) => save[s].acct \in Acct /\ save[s].left \subseteq Whole
    BY DEF EntryInv, SetupRight, AppRight, SaveRow, Saving
  <2>2. \A s \in Save : Saving(s) /\ "form" \in save[s].left =>
          session = "in" /\ setup = "needed" /\ current = save[s].acct
    BY DEF EntryInv, SetupRight, FormRight, Held
  <2> QED BY <2>1, <2>2
<1>3. OneFirstHome
  <2>1. \A a \in Acct : homes[a] \in Nat
    BY DEF EntryInv, SetupRight, AppRight
  <2> QED BY <2>1 DEF EntryInv, SetupRight, HomesRight, OneFirstHome
<1>4. EntryTypeOK
  BY <1>1, <1>2 DEF EntryInv, PickerRight, SetupRight, AppRight, EntryTypeOK
<1> QED BY <1>3, <1>4

(* However answers, other accounts, pages left and reloads come: an account *)
(* that was being set up has one location, unless the answer to a creation  *)
(* was lost, its form was taken away with the save under way, or the form   *)
(* was put up by an answer that another question had followed (PortalEntry: *)
(* OneFirstHome).                                                           *)
THEOREM OneHomeIsMade == PortalSpec => []OneFirstHome
<1>1. PortalInit => EntryInv
  BY EntryInitially DEF PortalInit
<1>2. ASSUME EntryInv, [PortalNext]_portalVars PROVE EntryInv'
  <2>1. [EntryNext]_entryVars
    BY <1>2 DEF PortalNext, AtSession, AtEntry, AtPage, AtGate, AtSearch, portalVars
  <2> QED BY <1>2, <2>1, EntryStep
<1>3. EntryInv => OneFirstHome
  BY EntryIsTyped
<1> QED BY <1>1, <1>2, <1>3, PTL DEF PortalSpec

-----------------------------------------------------------------------------
(* The pages.                                                               *)

ReqRow ==
    [what : {"load", "change"}, key : Key, val : Val, prev : Val, number : Nat, mount : Nat,
     form : Nat, phase : {"sent", "served"}, ok : BOOLEAN]

PageTyped ==
    /\ page \in Pages /\ at \in Key /\ truth \in [Key -> Val]
    /\ shown = Blank \/ shown \in [key : Key, val : Val]
    /\ failed \in BOOLEAN /\ busy \in BOOLEAN /\ excused \in BOOLEAN
    /\ mount \in Nat /\ load \in Nat /\ opened \in Nat /\ dialog \in 0 .. opened
    /\ req \in [Slot -> ReqRow \cup {NoReq}]
    /\ \A s \in Active :
        /\ req[s].number <= load /\ req[s].mount <= mount
        /\ req[s].what = "change" => page.form.after # "nothing"

(* What holds a lock is under way; a form's lock is held by the form's own  *)
(* change.  Rows that an answer is written into are on the screen.          *)
LocksRight ==
    /\ busy => \E s \in Active :
        /\ req[s].mount = mount
        /\ req[s].what = "change" \/ page.form.after = "awaited load"
        /\ page.form.lock = "form" => req[s].what = "change" /\ req[s].form = dialog /\ dialog # 0
    /\ page.form.after = "answer" =>
        /\ dialog # 0 => shown # Blank
        /\ \A s \in Active : req[s].what = "change" /\ req[s].mount = mount => shown # Blank

Overtaken(q) == q.what = "load" /\ page.data.cancels /\ q.number # load

Agrees == ~failed /\ shown # Blank => shown = [key |-> at, val |-> truth[at]]

(* As long as nothing excuses the page: only loads that are dropped are     *)
(* under way beside another request, a request is for what the page is on,  *)
(* an answer on its way is what the gateway has, and what is shown agrees,  *)
(* or will with the answer that is awaited.                                 *)
RowsRight ==
    ~excused =>
        /\ \A s \in Active : req[s].mount = mount
        /\ \A s, r \in Active : s # r =>
            page.data.cancels /\ req[s].what = "load" /\ req[r].what = "load"
        /\ \A s \in Active : ~Overtaken(req[s]) => req[s].key = at
        /\ \A s \in Active : req[s].what = "load" /\ req[s].phase = "served" /\ req[s].ok =>
            req[s].val = truth[req[s].key]
        /\ (\A s \in Active : Overtaken(req[s])) => Agrees
        /\ \A s \in Active : req[s].what = "change" /\ ~failed /\ shown # Blank =>
            IF req[s].phase = "served" /\ req[s].ok
            THEN /\ shown.key = at
                 /\ page.form.after = "answer" => truth[at] = req[s].val
                 /\ page.form.after = "told" => shown.val = truth[at]
            ELSE Reverted(req[s]) = [key |-> at, val |-> truth[at]]

PagesInv == PageTyped /\ LocksRight /\ RowsRight

-----------------------------------------------------------------------------
(* What the kinds of pages and forms have in common.                        *)
LEMMA PageFacts ==
    ASSUME page \in Pages
    PROVE  /\ page.form.after \in {"nothing", "told", "answer", "load", "awaited load"}
           /\ page.form.lock \in {"none", "form", "page", "card"}
           /\ page.form.ahead \in BOOLEAN /\ page.data.cancels \in BOOLEAN
           /\ page.form.after = "answer" => page.data.fails # "blank" /\ page.form.lock \in {"page", "none"}
           /\ page.form.lock = "form" => page.form.after \in {"load", "told"}
           /\ page.form.ahead => page.form.after = "answer"
<1> DEFINE Kinds(f) ==
           /\ f.after \in {"nothing", "told", "answer", "load", "awaited load"}
           /\ f.lock \in {"none", "form", "page", "card"}
           /\ f.ahead \in BOOLEAN
           /\ f.after = "answer" => f.lock \in {"page", "none"}
           /\ f.lock = "form" => f.after \in {"load", "told"}
           /\ f.ahead => f.after = "answer"
           Data(d) == d.cancels \in BOOLEAN /\ d.fails \in {"kept", "blank"}
<1>1. /\ Kinds(Modal) /\ Kinds(GrantCard) /\ Kinds(ProfileSection) /\ Kinds(InviteModal)
      /\ Kinds(PasswordSection) /\ Kinds(ConfirmModal) /\ Kinds(AccountDrawer)
      /\ Kinds(LimitsEditor) /\ Kinds(NoForm)
  BY DEF Modal, GrantCard, ProfileSection, InviteModal, PasswordSection, ConfirmModal, AccountDrawer,
         LimitsEditor, NoForm
<1>2. /\ Modal.after # "answer" /\ NoForm.after # "answer"
  BY DEF Modal, NoForm
<1>3. /\ Data(AccountList) /\ Data(Dashboard) /\ Data(AccessPoint) /\ Data(AdminTable)
      /\ Data(AdminLimits) /\ Data(LimitsPanel)
      /\ AccountList.fails = "kept" /\ AccessPoint.fails = "kept" /\ AdminTable.fails = "kept"
      /\ AdminLimits.fails = "kept" /\ LimitsPanel.fails = "kept"
  BY DEF AccountList, Dashboard, AccessPoint, AdminTable, AdminLimits, LimitsPanel
<1> HIDE DEF Kinds, Data
<1>4. Kinds(page.form) /\ Data(page.data) /\ (page.form.after = "answer" => page.data.fails # "blank")
  BY <1>1, <1>2, <1>3
  DEF Pages, With, Members, Devices, Grants, AccessPoints, Locations, Analytics, Session, AdminUsers,
      AdminAccounts, AdminAudit, AdminOverview, CreateDeviceModal, CreateGrantModal,
      CreateAccessPointModal, MaintenanceModal, ServiceModal, RenameLocationModal,
      DeleteLocationModal, CreateLocationModal, ContactSection, ClaimScreen, ForgotPassword,
      ResetPassword
<1> QED BY <1>4 DEF Kinds, Data

LEMMA ShownRow ==
    ASSUME NEW k \in Key, NEW v
    PROVE  [key |-> k, val |-> v] # Blank
<1>1. Blank.key = "nothing" /\ [key |-> k, val |-> v].key = k
  BY DEF Blank
<1> QED BY <1>1, PortalPagesAssumption

(* What is not blank is a row of an account or a search, also when its      *)
(* contents change.                                                         *)
LEMMA ChangedRow ==
    ASSUME PageTyped, shown # Blank, NEW v \in Val
    PROVE  /\ shown \in [key : Key, val : Val] /\ shown.key \in Key /\ shown.val \in Val
           /\ [shown EXCEPT !.val = v] = [key |-> shown.key, val |-> v]
           /\ [shown EXCEPT !.val = v] \in [key : Key, val : Val]
           /\ [shown EXCEPT !.val = v] # Blank
<1>1. shown \in [key : Key, val : Val]
  BY DEF PageTyped
<1>2. /\ shown.key \in Key /\ shown.val \in Val
      /\ [shown EXCEPT !.val = v] = [key |-> shown.key, val |-> v]
  BY <1>1
<1> QED BY <1>1, <1>2, ShownRow

LEMMA Rows ==
    ASSUME PageTyped
    PROVE  /\ \A s \in Active : s \in Slot /\ req[s] \in ReqRow
           /\ \A s \in Slot : s \notin Active => req[s] = NoReq
           /\ NoReq \notin ReqRow
  BY DEF PageTyped, Active, ReqRow, NoReq

LEMMA LoadRow ==
    ASSUME NEW k \in Key, NEW n \in Nat, NEW m \in Nat
    PROVE  /\ Load(k, n, m) \in ReqRow
           /\ Load(k, n, m).what = "load" /\ Load(k, n, m).key = k /\ Load(k, n, m).number = n
           /\ Load(k, n, m).mount = m /\ Load(k, n, m).phase = "sent"
  BY PortalPagesAssumption DEF Load, ReqRow, Val

(* One request is put in, changed or taken off.                             *)
LEMMA OneRow ==
    ASSUME PageTyped, NEW s \in Slot, NEW row \in ReqRow \cup {NoReq}, req' = [req EXCEPT ![s] = row]
    PROVE  /\ req' \in [Slot -> ReqRow \cup {NoReq}]
           /\ req'[s] = row
           /\ \A r \in Slot : r # s => req'[r] = req[r]
           /\ Active' = IF row = NoReq THEN Active \ {s} ELSE Active \cup {s}
<1>1. req \in [Slot -> ReqRow \cup {NoReq}]
  BY DEF PageTyped
<1>2. req' \in [Slot -> ReqRow \cup {NoReq}] /\ req'[s] = row /\ \A r \in Slot : r # s => req'[r] = req[r]
  BY <1>1
<1>3. Active' = {r \in Slot : req'[r] # NoReq}
  BY DEF Active
<1>4. Active' = IF row = NoReq THEN Active \ {s} ELSE Active \cup {s}
  BY <1>2, <1>3 DEF Active
<1> QED BY <1>2, <1>4

(* Nothing else is under way, or loads that are dropped.                    *)
LEMMA NotOverlapping ==
    ASSUME NEW s, NEW what, ~Overlaps(s, what)
    PROVE  \A r \in Active \ {s} : page.data.cancels /\ what = "load" /\ req[r].what = "load"
  BY DEF Overlaps

-----------------------------------------------------------------------------
LEMMA TurnKeeps ==
    ASSUME PagesInv, NEW s \in Slot, NEW k \in Key, Turn(s, k)
    PROVE  PagesInv'
<1> DEFINE row == Load(k, load + 1, mount)
<1>0. /\ PageTyped /\ LocksRight /\ RowsRight
      /\ load \in Nat /\ mount \in Nat /\ page \in Pages
  BY DEF PagesInv, PageTyped
<1>1. /\ req[s] = NoReq /\ req' = [req EXCEPT ![s] = row] /\ at' = k /\ load' = load + 1
      /\ excused' = (excused \/ Overlaps(s, "load"))
      /\ UNCHANGED <<page, mount, shown, failed, dialog, opened, busy, truth>>
  BY DEF Turn, NextSlot, rows, forms
<1>2. row \in ReqRow /\ row # NoReq /\ row.what = "load" /\ row.number = load + 1 /\ row.mount = mount
      /\ row.key = k /\ row.phase = "sent"
  BY <1>0, LoadRow, Rows
<1> HIDE DEF row
<1>3. /\ req' \in [Slot -> ReqRow \cup {NoReq}] /\ req'[s] = row /\ Active' = Active \cup {s} /\ s \notin Active
      /\ \A r \in Active : r # s /\ req'[r] = req[r]
  <2>1. s \notin Active
    BY <1>1 DEF Active
  <2> QED BY <1>0, <1>1, <1>2, <2>1, OneRow, Rows
<1>4. \A r \in Active : req[r] \in ReqRow /\ req[r].number \in Nat
  BY <1>0, Rows DEF ReqRow
<1>5. PageTyped'
  <2>1. \A r \in Active : req[r].number <= load'
    BY <1>0, <1>1, <1>4 DEF PageTyped
  <2>2. excused' \in BOOLEAN
    BY <1>1 DEF Overlaps
  <2> QED BY <1>0, <1>1, <1>2, <1>3, <2>1, <2>2 DEF PageTyped
<1>6. LocksRight'
  BY <1>0, <1>1, <1>2, <1>3 DEF LocksRight
<1>7. ASSUME ~excused' PROVE RowsRight'
  <2>1. \A r \in Active : page.data.cancels /\ req[r].what = "load" /\ req[r].number # load'
    <3>1. \A r \in Active : page.data.cancels /\ req[r].what = "load"
      BY <1>1, <1>3, <1>7, NotOverlapping
    <3>2. \A r \in Active : req[r].number <= load
      BY <1>0 DEF PageTyped
    <3> QED BY <1>0, <1>1, <1>4, <3>1, <3>2
  <2>2. \A r \in Active' : r = s \/ (r \in Active /\ Overtaken(req[r])')
    BY <1>1, <1>3, <2>1 DEF Overtaken
  <2>3. ~Overtaken(req[s])' /\ req'[s].key = at' /\ req'[s].mount = mount' /\ req'[s].what = "load"
    BY <1>1, <1>2, <1>3 DEF Overtaken
  <2>4. ~excused
    BY <1>1, <1>7
  <2>5. \A r \in Active' : req'[r].what = "load" /\ req'[r].mount = mount'
    BY <1>0, <1>1, <1>2, <1>3, <2>1, <2>4 DEF RowsRight
  <2>6. \A r, q \in Active' : r # q => page.data.cancels
    BY <1>3, <2>1
  <2>7. \A r \in Active' : req'[r].phase = "served" /\ req'[r].ok => req'[r].val = truth'[req'[r].key]
    BY <1>0, <1>1, <1>2, <1>3, <2>1, <2>4 DEF RowsRight
  <2> QED BY <1>1, <1>3, <2>2, <2>3, <2>5, <2>6, <2>7 DEF RowsRight
<1>8. RowsRight'
  BY <1>7 DEF RowsRight
<1> QED BY <1>5, <1>6, <1>8 DEF PagesInv

LEMMA RemountKeeps ==
    ASSUME PagesInv, NEW s \in Slot, Remount(s)
    PROVE  PagesInv'
<1> DEFINE row == Load(at, load + 1, mount + 1)
<1>0. PageTyped /\ LocksRight /\ load \in Nat /\ mount \in Nat /\ at \in Key
  BY DEF PagesInv, PageTyped
<1>1. /\ req[s] = NoReq /\ req' = [req EXCEPT ![s] = row] /\ load' = load + 1 /\ mount' = mount + 1
      /\ shown' = Blank /\ failed' = FALSE /\ dialog' = 0 /\ busy' = FALSE
      /\ excused' = (Active # {})
      /\ UNCHANGED <<page, at, opened, truth>>
  BY DEF Remount, NextSlot
<1>2. row \in ReqRow /\ row # NoReq /\ row.what = "load" /\ row.number = load + 1 /\ row.mount = mount + 1
      /\ row.key = at /\ row.phase = "sent"
  BY <1>0, LoadRow, Rows
<1> HIDE DEF row
<1>3. /\ req' \in [Slot -> ReqRow \cup {NoReq}] /\ req'[s] = row /\ Active' = Active \cup {s} /\ s \notin Active
      /\ \A r \in Active : r # s /\ req'[r] = req[r]
  <2>1. s \notin Active
    BY <1>1 DEF Active
  <2> QED BY <1>0, <1>1, <1>2, <2>1, OneRow, Rows
<1>4. \A r \in Active : req[r].number \in Nat /\ req[r].mount \in Nat /\ req[r].number <= load /\ req[r].mount <= mount
  BY <1>0, Rows DEF ReqRow, PageTyped
<1>5. PageTyped'
  <2>1. \A r \in Active : req[r].number <= load' /\ req[r].mount <= mount'
    BY <1>0, <1>1, <1>4
  <2>2. excused' \in BOOLEAN
    BY <1>1
  <2>3. opened \in Nat /\ 0 \in 0 .. opened
    BY <1>0 DEF PageTyped
  <2>4. load' \in Nat /\ mount' \in Nat
    BY <1>0, <1>1
  <2>5. \A r \in Active' :
            /\ req'[r].number <= load' /\ req'[r].mount <= mount'
            /\ req'[r].what = "change" => page'.form.after # "nothing"
    <3>1. \A r \in Active : req[r].what = "change" => page.form.after # "nothing"
      BY <1>0 DEF PageTyped
    <3>2. req'[s].number <= load' /\ req'[s].mount <= mount' /\ req'[s].what = "load"
      BY <1>0, <1>1, <1>2, <1>3
    <3>3. page' = page
      BY <1>1
    <3> QED BY <1>3, <2>1, <3>1, <3>2, <3>3
  <2>6. page' \in Pages /\ at' \in Key /\ truth' \in [Key -> Val] /\ failed' \in BOOLEAN /\ busy' \in BOOLEAN
    BY <1>0, <1>1 DEF PageTyped
  <2>7. opened' \in Nat /\ dialog' \in 0 .. opened' /\ shown' = Blank
    BY <1>1, <2>3
  <2>8. req' \in [Slot -> ReqRow \cup {NoReq}]
    BY <1>3
  <2> QED BY <2>2, <2>4, <2>5, <2>6, <2>7, <2>8 DEF PageTyped
<1>6. LocksRight'
  <2>1. \A r \in Active' : req'[r].what = "change" => req'[r].mount # mount'
    BY <1>0, <1>1, <1>2, <1>3, <1>4
  <2> QED BY <1>1, <2>1 DEF LocksRight
<1>7. RowsRight'
  <2>1. ~excused' => Active' = {s}
    BY <1>1, <1>3
  <2> QED BY <1>1, <1>2, <1>3, <2>1 DEF RowsRight, Overtaken
<1> QED BY <1>5, <1>6, <1>7 DEF PagesInv

LEMMA DialogKeeps ==
    ASSUME PagesInv, OpenDialog \/ CloseDialog
    PROVE  PagesInv'
<1>0. PageTyped /\ LocksRight /\ RowsRight /\ dialog \in 0 .. opened /\ opened \in Nat
  BY DEF PagesInv, PageTyped
<1>1. UNCHANGED <<page, mount, at, shown, failed, load, req, truth, excused>>
  BY DEF OpenDialog, CloseDialog, rows
<1>2. Active' = Active
  BY <1>1 DEF Active
<1>3. RowsRight'
  BY <1>0, <1>1, <1>2 DEF RowsRight, Overtaken, Agrees, Reverted
<1>4. dialog' \in 0 .. opened' /\ opened' \in Nat /\ busy' \in BOOLEAN
  <2>1. CASE OpenDialog
    BY <1>0, <2>1 DEF OpenDialog, PageTyped
  <2>2. CASE CloseDialog
    BY <1>0, <2>2 DEF CloseDialog
  <2> QED BY <2>1, <2>2
<1>5. PageTyped'
  BY <1>0, <1>1, <1>2, <1>4 DEF PageTyped
<1>6. LocksRight'
  <2>1. CASE OpenDialog
    BY <1>0, <1>1, <1>2, <2>1 DEF OpenDialog, LocksRight
  <2>2. CASE CloseDialog
    BY <1>0, <1>1, <1>2, <2>2 DEF CloseDialog, LocksRight
  <2> QED BY <2>1, <2>2
<1> QED BY <1>3, <1>5, <1>6 DEF PagesInv

(* What a change is shown as before it is answered, and is after.           *)
LEMMA SubmitKeeps ==
    ASSUME PagesInv, NEW s \in Slot, NEW v \in Val, Submit(s, v)
    PROVE  PagesInv'
<1> DEFINE row == [Load(at, load, mount) EXCEPT !.what = "change", !.val = v, !.prev = shown.val, !.form = dialog]
<1>0. /\ PageTyped /\ LocksRight /\ RowsRight /\ page \in Pages
      /\ load \in Nat /\ mount \in Nat /\ at \in Key /\ opened \in Nat /\ dialog \in 0 .. opened
      /\ shown.val \in Val
  BY PortalPagesAssumption DEF PagesInv, PageTyped, Blank, Val
<1>1. /\ req[s] = NoReq /\ req' = [req EXCEPT ![s] = row]
      /\ page.form.after # "nothing" /\ (page.form.lock = "card" \/ dialog # 0) /\ ~busy
      /\ shown' = (IF page.form.ahead THEN [shown EXCEPT !.val = v] ELSE shown)
      /\ busy' = (page.form.lock # "none")
      /\ dialog' = (IF page.form.lock = "none" THEN 0 ELSE dialog)
      /\ excused' = (excused \/ Overlaps(s, "change"))
      /\ UNCHANGED <<page, mount, at, failed, opened, load, truth>>
  BY DEF Submit, NextSlot
<1>2. row \in ReqRow /\ row # NoReq /\ row.what = "change" /\ row.number = load /\ row.mount = mount
      /\ row.key = at /\ row.phase = "sent" /\ row.prev = shown.val /\ row.form = dialog
  <2> DEFINE row0 == Load(at, load, mount)
  <2>1. /\ dialog \in Nat /\ row0 \in ReqRow
        /\ row0.number = load /\ row0.mount = mount /\ row0.key = at /\ row0.phase = "sent"
    BY <1>0, LoadRow
  <2>2. row = [row0 EXCEPT !.what = "change", !.val = v, !.prev = shown.val, !.form = dialog]
    OBVIOUS
  <2> HIDE DEF row0, row
  <2>3. /\ row \in ReqRow /\ row.what = "change" /\ row.prev = shown.val /\ row.form = dialog
        /\ row.key = row0.key /\ row.number = row0.number /\ row.mount = row0.mount
        /\ row.phase = row0.phase
    BY <1>0, <2>1, <2>2 DEF ReqRow
  <2> QED BY <1>0, <2>1, <2>3, Rows
<1> HIDE DEF row
<1>3. /\ req' \in [Slot -> ReqRow \cup {NoReq}] /\ req'[s] = row /\ Active' = Active \cup {s} /\ s \notin Active
      /\ \A r \in Active : r # s /\ req'[r] = req[r]
  <2>1. s \notin Active
    BY <1>1 DEF Active
  <2> QED BY <1>0, <1>1, <1>2, <2>1, OneRow, Rows
<1>4. page.form.ahead => shown # Blank
  BY <1>0, <1>1, PageFacts DEF LocksRight
<1>5. /\ shown' = Blank \/ shown' \in [key : Key, val : Val]
      /\ shown # Blank <=> shown' # Blank
      /\ page.form.ahead => shown' = [key |-> shown.key, val |-> v]
  BY <1>0, <1>1, <1>4, ChangedRow DEF PageTyped
<1>6. PageTyped'
  <2>1. dialog' \in 0 .. opened' /\ busy' \in BOOLEAN /\ excused' \in BOOLEAN
    BY <1>0, <1>1 DEF Overlaps
  <2> QED BY <1>0, <1>1, <1>2, <1>3, <1>5, <2>1 DEF PageTyped
<1>7. LocksRight'
  <2>1. busy' => req'[s].mount = mount' /\ req'[s].what = "change" /\ s \in Active'
               /\ (page'.form.lock = "form" => req'[s].form = dialog' /\ dialog' # 0)
    BY <1>1, <1>2, <1>3
  <2>2. page.form.after = "answer" => shown' # Blank
    BY <1>0, <1>1, <1>5, PageFacts DEF LocksRight
  <2> QED BY <1>1, <2>1, <2>2 DEF LocksRight
<1>8. ASSUME ~excused' PROVE RowsRight'
  <2>1. Active = {} /\ Active' = {s} /\ ~excused
    <3>1. ~excused /\ ~Overlaps(s, "change")
      BY <1>1, <1>8
    <3>2. \A r \in Active \ {s} : "change" = "load"
      BY <3>1, NotOverlapping
    <3>3. "change" # "load"
      OBVIOUS
    <3>4. Active \ {s} = {}
      BY <3>2, <3>3
    <3> QED BY <1>3, <3>1, <3>4
  <2>2. Agrees
    BY <1>0, <2>1 DEF RowsRight
  <2>3. ~failed' /\ shown' # Blank => Reverted(req[s])' = [key |-> at', val |-> truth'[at']]
    <3> SUFFICES ASSUME ~failed', shown' # Blank PROVE Reverted(req[s])' = [key |-> at', val |-> truth'[at']]
      OBVIOUS
    <3>1. shown = [key |-> at, val |-> truth[at]]
      BY <1>1, <1>5, <2>2 DEF Agrees
    <3>2. CASE page.form.ahead
      <4>1. Reverted(req[s])' = [shown' EXCEPT !.val = shown.val]
        BY <1>1, <1>2, <1>3, <3>2 DEF Reverted
      <4>2. shown' = [key |-> shown.key, val |-> v]
        BY <1>5, <3>2
      <4> QED BY <1>1, <3>1, <4>1, <4>2
    <3>3. CASE ~page.form.ahead
      <4>1. Reverted(req[s])' = shown
        BY <1>1, <3>3 DEF Reverted
      <4> QED BY <1>1, <3>1, <4>1
    <3> QED BY <3>2, <3>3
  <2>4. ~Overtaken(req[s])' /\ req'[s].key = at' /\ req'[s].mount = mount' /\ req'[s].what = "change"
        /\ req'[s].phase = "sent"
    BY <1>1, <1>2, <1>3 DEF Overtaken
  <2> QED BY <2>1, <2>3, <2>4 DEF RowsRight
<1>9. RowsRight'
  BY <1>8 DEF RowsRight
<1> QED BY <1>6, <1>7, <1>9 DEF PagesInv

(* An answer is on its way.                                                 *)
LEMMA PageServeKeeps ==
    ASSUME PagesInv, NEW s \in Slot, Serve(s)
    PROVE  PagesInv'
<1> DEFINE q == req[s]
<1>0. /\ PageTyped /\ LocksRight /\ RowsRight /\ page \in Pages
      /\ s \in Active /\ q \in ReqRow /\ q.phase = "sent"
      /\ UNCHANGED <<page, mount, at, shown, failed, dialog, opened, busy, load>>
  BY Rows DEF PagesInv, PageTyped, Serve, rows, forms
<1>1. PICK ok \in BOOLEAN, v \in Val :
        /\ req' = [req EXCEPT ![s].phase = "served", ![s].ok = ok, ![s].val = v]
        /\ \/ q.what = "load" /\ (ok => v = truth[q.key]) /\ UNCHANGED <<truth, excused>>
           \/ /\ q.what = "change" /\ truth' = Written(q.key, q.val)
              /\ v = q.val /\ excused' = (excused \/ ~ok)
           \/ q.what = "change" /\ ok = FALSE /\ v = q.val /\ UNCHANGED <<truth, excused>>
  <2>0. truth \in [Key -> Val] /\ q.key \in Key /\ q.val \in Val /\ 0 \in Val
    BY <1>0, PortalPagesAssumption DEF PageTyped, ReqRow, Val
  <2>1. CASE q.what = "load" /\ UNCHANGED <<truth, excused>>
             /\ \E ok \in BOOLEAN : Reply(s, ok, IF ok THEN truth[q.key] ELSE 0)
    <3>1. PICK ok \in BOOLEAN : Reply(s, ok, IF ok THEN truth[q.key] ELSE 0)
      BY <2>1
    <3>2. PICK v : v = IF ok THEN truth[q.key] ELSE 0
      OBVIOUS
    <3>3. v \in Val /\ Reply(s, ok, v)
      BY <2>0, <3>1, <3>2
    <3> QED BY <2>1, <3>2, <3>3 DEF Reply
  <2>2. CASE q.what = "change" /\ truth' = Written(q.key, q.val)
             /\ \E ok \in BOOLEAN : Reply(s, ok, q.val) /\ excused' = (excused \/ ~ok)
    BY <2>0, <2>2 DEF Reply
  <2>3. CASE q.what = "change" /\ Reply(s, FALSE, q.val) /\ UNCHANGED <<truth, excused>>
    BY <2>0, <2>3 DEF Reply
  <2> QED BY <2>1, <2>2, <2>3 DEF Serve
<1> DEFINE row == [q EXCEPT !.phase = "served", !.ok = ok, !.val = v]
<1>2. req' = [req EXCEPT ![s] = row]
  BY <1>0, <1>1 DEF PageTyped
<1>3. /\ row \in ReqRow /\ row.phase = "served" /\ row.ok = ok /\ row.val = v
      /\ row.what = q.what /\ row.prev = q.prev /\ row.form = q.form
      /\ row.key = q.key /\ row.number = q.number /\ row.mount = q.mount
  BY <1>0 DEF ReqRow
<1> HIDE DEF row
<1>4. /\ req' \in [Slot -> ReqRow \cup {NoReq}] /\ req'[s] = row /\ Active' = Active
      /\ \A r \in Active : r # s => req'[r] = req[r]
  <2>1. row # NoReq
    BY <1>0, <1>3, Rows
  <2>2. /\ req' \in [Slot -> ReqRow \cup {NoReq}] /\ req'[s] = row /\ Active' = Active \cup {s}
        /\ \A r \in Slot : r # s => req'[r] = req[r]
    BY <1>0, <1>2, <1>3, <2>1, OneRow
  <2>3. Active \cup {s} = Active /\ \A r \in Active : r \in Slot
    BY <1>0 DEF Active
  <2> QED BY <2>2, <2>3
<1>5. \A r \in Active : /\ req'[r].what = req[r].what /\ req'[r].mount = req[r].mount
                        /\ req'[r].form = req[r].form /\ req'[r].number = req[r].number
                        /\ req'[r].key = req[r].key /\ req'[r].prev = req[r].prev
  <2>1. /\ req'[s].what = req[s].what /\ req'[s].mount = req[s].mount
        /\ req'[s].form = req[s].form /\ req'[s].number = req[s].number
        /\ req'[s].key = req[s].key /\ req'[s].prev = req[s].prev
    BY <1>3, <1>4
  <2> QED BY <1>4, <2>1
<1>6. PageTyped'
  <2>1. truth' \in [Key -> Val] /\ excused' \in BOOLEAN
    <3>1. truth \in [Key -> Val] /\ q.val \in Val
      BY <1>0 DEF PageTyped, ReqRow
    <3>2. Written(q.key, q.val) \in [Key -> Val]
      BY <3>1 DEF Written
    <3> QED BY <1>0, <1>1, <3>1, <3>2 DEF PageTyped
  <2> QED BY <1>0, <1>4, <1>5, <2>1 DEF PageTyped
<1>7. LocksRight'
  BY <1>0, <1>4, <1>5 DEF LocksRight
<1>8. ASSUME ~excused' PROVE RowsRight'
  <2>1. ~excused /\ (q.what = "change" => \A r \in Active : r = s)
    <3>1. excused' = excused \/ excused' = (excused \/ ~ok)
      BY <1>1
    <3>2. ~excused
      BY <1>8, <3>1
    <3> QED BY <1>0, <3>2 DEF RowsRight
  <2>2. /\ \A r \in Active : req'[r].mount = mount'
        /\ \A r, p \in Active : r # p => page.data.cancels /\ req'[r].what = "load" /\ req'[p].what = "load"
        /\ \A r \in Active : Overtaken(req[r])' <=> Overtaken(req[r])
    BY <1>0, <1>5, <2>1 DEF RowsRight, Overtaken
  <2>3. \A r \in Active : ~Overtaken(req[r])' => req'[r].key = at'
    BY <1>0, <1>5, <2>1, <2>2 DEF RowsRight
  <2>4. CASE q.what = "load"
    <3>1. UNCHANGED truth /\ (ok => v = truth[q.key])
      BY <1>1, <2>4
    <3>2. \A r \in Active : req'[r].what = "load" /\ req'[r].phase = "served" /\ req'[r].ok =>
              req'[r].val = truth'[req'[r].key]
      BY <1>0, <1>3, <1>4, <2>1, <3>1 DEF RowsRight
    <3>3. (\A r \in Active : Overtaken(req[r])') => Agrees'
      BY <1>0, <2>1, <2>2, <3>1 DEF RowsRight, Agrees
    <3>4. \A r \in Active : req'[r].what = "change" => r # s /\ req'[r] = req[r]
      BY <1>3, <1>4, <2>4
    <3>5. \A r \in Active : req'[r].what = "change" /\ ~failed' /\ shown' # Blank =>
            IF req'[r].phase = "served" /\ req'[r].ok
            THEN /\ shown'.key = at'
                 /\ page'.form.after = "answer" => truth'[at'] = req'[r].val
                 /\ page'.form.after = "told" => shown'.val = truth'[at']
            ELSE Reverted(req[r])' = [key |-> at', val |-> truth'[at']]
      BY <1>0, <2>1, <3>1, <3>4 DEF RowsRight, Reverted
    <3> QED BY <1>0, <1>4, <2>2, <2>3, <3>2, <3>3, <3>5 DEF RowsRight
  <2>5. CASE q.what = "change"
    <3>1. /\ Active' = {s} /\ req'[s].what = "change" /\ ~Overtaken(req[s])' /\ req'[s].phase = "served"
          /\ req'[s].ok = ok /\ req'[s].val = v /\ v = q.val /\ q.key = at /\ ~Overtaken(req[s])
      <4>1. Active' = {s} /\ req'[s].what = "change" /\ ~Overtaken(req[s]) /\ ~Overtaken(req[s])'
        BY <1>0, <1>3, <1>4, <2>1, <2>5 DEF Overtaken
      <4> QED BY <1>0, <1>1, <1>3, <1>4, <2>1, <2>5, <4>1 DEF RowsRight
    <3>2. ASSUME ~failed', shown' # Blank
          PROVE  IF ok
                 THEN /\ shown'.key = at'
                      /\ page'.form.after = "answer" => truth'[at'] = q.val
                      /\ page'.form.after = "told" => shown'.val = truth'[at']
                 ELSE Reverted(req[s])' = [key |-> at', val |-> truth'[at']]
      <4>1. Reverted(q) = [key |-> at, val |-> truth[at]] /\ ~failed /\ shown # Blank
        BY <1>0, <2>1, <2>5, <3>2 DEF RowsRight
      <4>2. shown \in [key : Key, val : Val] /\ at \in Key
        BY <1>0, <4>1 DEF PageTyped
      <4>3. shown.key = at /\ (~page.form.ahead => shown.val = truth[at])
        BY <4>1, <4>2 DEF Reverted
      <4>4. CASE ok
        <5>1. truth' = Written(q.key, q.val) \/ UNCHANGED truth
          BY <1>1
        <5>2. truth' = Written(q.key, q.val)
          BY <1>1, <2>5, <4>4
        <5>3. page.form.after = "answer" => truth'[at] = q.val
          BY <3>1, <4>2, <5>2 DEF Written
        <5>4. page.form.after = "told" => truth'[at] = truth[at] /\ ~page.form.ahead
          BY <1>0, <4>2, <5>2, PageFacts DEF Written
        <5> QED BY <1>0, <4>3, <4>4, <5>3, <5>4
      <4>5. CASE ~ok
        <5>1. UNCHANGED truth
          BY <1>1, <1>8, <2>5, <4>5
        <5>2. Reverted(req[s])' = Reverted(q)
          BY <1>0, <1>5 DEF Reverted
        <5> QED BY <1>0, <4>1, <4>5, <5>1, <5>2
      <4> QED BY <4>4, <4>5
    <3> QED BY <2>2, <2>3, <3>1, <3>2, <1>4 DEF RowsRight
  <2> QED BY <1>0, <2>4, <2>5 DEF ReqRow
<1>9. RowsRight'
  BY <1>8 DEF RowsRight
<1> QED BY <1>6, <1>7, <1>9 DEF PagesInv

(* A request that is answered is under way no longer.                       *)
LEMMA DoneLeaves ==
    ASSUME PagesInv, NEW s \in Active, Done(s)
    PROVE  /\ req' \in [Slot -> ReqRow \cup {NoReq}]
           /\ Active' = Active \ {s}
           /\ \A r \in Active' : r \in Active /\ r # s /\ req'[r] = req[r]
<1>1. PageTyped /\ s \in Slot /\ req' = [req EXCEPT ![s] = NoReq]
  BY DEF PagesInv, Done, Active
<1> QED BY <1>1, OneRow DEF Active

LEMMA LoadedKeeps ==
    ASSUME PagesInv, NEW s \in Slot, Loaded(s)
    PROVE  PagesInv'
<1> DEFINE q == req[s]
<1>0. /\ PageTyped /\ LocksRight /\ RowsRight /\ page \in Pages /\ s \in Active /\ q \in ReqRow
      /\ q.what = "load" /\ q.phase = "served" /\ Done(s)
      /\ busy' = (busy /\ ~(page.form.after = "awaited load" /\ q.mount = mount))
      /\ UNCHANGED <<page, mount, at, dialog, opened, load, truth, excused>>
  BY Rows DEF PagesInv, PageTyped, Loaded, Back
<1>1. \/ ~Current(q) /\ UNCHANGED <<shown, failed>>
      \/ Current(q) /\ q.ok /\ shown' = [key |-> q.key, val |-> q.val] /\ failed' = FALSE
      \/ Current(q) /\ ~q.ok /\ failed' = TRUE
         /\ shown' = IF page.data.fails = "blank" THEN Blank ELSE shown
  BY DEF Loaded, rows
<1>2. /\ req' \in [Slot -> ReqRow \cup {NoReq}]
      /\ Active' = Active \ {s}
      /\ \A r \in Active' : r \in Active /\ r # s /\ req'[r] = req[r]
  BY <1>0, DoneLeaves
<1> HIDE DEF q
<1>3. q.key \in Key /\ q.val \in Val /\ [key |-> q.key, val |-> q.val] # Blank
      /\ [key |-> q.key, val |-> q.val] \in [key : Key, val : Val]
  BY <1>0, ShownRow DEF ReqRow
<1>4. PageTyped'
  <2>1. shown' = Blank \/ shown' \in [key : Key, val : Val]
    BY <1>0, <1>1, <1>3 DEF PageTyped
  <2>2. failed' \in BOOLEAN /\ busy' \in BOOLEAN
    BY <1>0, <1>1 DEF PageTyped
  <2> QED BY <1>0, <1>2, <2>1, <2>2 DEF PageTyped
<1>5. LocksRight'
  <2>1. busy' => \E r \in Active : r # s /\ req[r].mount = mount
               /\ (req[r].what = "change" \/ page.form.after = "awaited load")
               /\ (page.form.lock = "form" => req[r].what = "change" /\ req[r].form = dialog /\ dialog # 0)
    BY <1>0 DEF LocksRight, q
  <2>2. page.form.after = "answer" => (shown # Blank => shown' # Blank)
    BY <1>0, <1>1, <1>3, PageFacts
  <2>3. \A r \in Active : r # s => r \in Active' /\ req'[r] = req[r]
    BY <1>2
  <2>4. busy' => \E r \in Active' : req'[r].mount = mount'
               /\ (req'[r].what = "change" \/ page'.form.after = "awaited load")
               /\ (page'.form.lock = "form" => req'[r].what = "change" /\ req'[r].form = dialog' /\ dialog' # 0)
    BY <1>0, <2>1, <2>3
  <2> QED BY <1>0, <1>2, <2>2, <2>4 DEF LocksRight
<1>6. ASSUME ~excused' PROVE RowsRight'
  <2>1. ~excused /\ q.mount = mount /\ \A r \in Active' : req'[r].what = "load" /\ page.data.cancels
    BY <1>0, <1>2, <1>6 DEF RowsRight, q
  <2>2. Current(q) <=> ~Overtaken(q)
    BY <1>0, <2>1 DEF Current, Overtaken
  <2>3. \A r \in Active' : Overtaken(req[r])' <=> Overtaken(req[r])
    BY <1>0, <1>2 DEF Overtaken
  <2>4. (\A r \in Active' : Overtaken(req[r])') => Agrees'
    <3>1. CASE ~Current(q) /\ UNCHANGED <<shown, failed>>
      <4>1. (\A r \in Active' : Overtaken(req[r])') => Agrees
        BY <1>0, <1>2, <2>1, <2>2, <2>3, <3>1 DEF RowsRight, q
      <4> QED BY <1>0, <3>1, <4>1 DEF Agrees
    <3>2. CASE Current(q) /\ q.ok /\ shown' = [key |-> q.key, val |-> q.val]
      <4>1. q.key = at /\ q.val = truth[q.key]
        BY <1>0, <2>1, <2>2, <3>2 DEF RowsRight, q
      <4> QED BY <1>0, <3>2, <4>1 DEF Agrees
    <3>3. CASE failed' = TRUE
      BY <3>3 DEF Agrees
    <3> QED BY <1>1, <3>1, <3>2, <3>3
  <2>5. \A r \in Active' : ~Overtaken(req[r])' => req'[r].key = at'
    BY <1>0, <1>2, <2>1, <2>3 DEF RowsRight
  <2>6. \A r \in Active' : req'[r].what = "load" /\ req'[r].phase = "served" /\ req'[r].ok =>
            req'[r].val = truth'[req'[r].key]
    BY <1>0, <1>2, <2>1 DEF RowsRight
  <2>7. \A r \in Active' : req'[r].mount = mount'
    BY <1>0, <1>2, <2>1 DEF RowsRight
  <2> QED BY <1>0, <2>1, <2>4, <2>5, <2>6, <2>7 DEF RowsRight
<1>7. RowsRight'
  BY <1>6 DEF RowsRight
<1> QED BY <1>4, <1>5, <1>7 DEF PagesInv

LEMMA PageAcceptedKeeps ==
    ASSUME PagesInv, NEW s \in Slot, Accepted(s)
    PROVE  PagesInv'
<1> DEFINE q == req[s]
           here == q.mount = mount
           again == here /\ Reloads(page)
           row == IF again THEN Load(q.key, load + 1, mount) ELSE NoReq
<1>0. /\ PageTyped /\ LocksRight /\ RowsRight /\ page \in Pages /\ s \in Active /\ q \in ReqRow
      /\ load \in Nat /\ mount \in Nat /\ opened \in Nat /\ dialog \in 0 .. opened /\ excused \in BOOLEAN
      /\ q.what = "change" /\ q.phase = "served" /\ q.ok /\ q.key \in Key /\ q.val \in Val
      /\ page.form.after # "nothing"
      /\ UNCHANGED <<page, mount, at, failed, opened, truth>>
  BY Rows DEF PagesInv, PageTyped, Accepted, Back, ReqRow
<1>1. /\ shown' = (IF here /\ page.form.after = "answer" THEN [shown EXCEPT !.val = q.val] ELSE shown)
      /\ dialog' = (IF here THEN ClosedBy(q) ELSE dialog)
      /\ busy' = (busy /\ (here => page.form.after = "awaited load"))
      /\ load' = (IF again THEN load + 1 ELSE load)
      /\ req' = [req EXCEPT ![s] = row]
      /\ excused' = (excused \/ (again /\ Overlaps(s, "load")))
  BY DEF Accepted
<1>2. row \in ReqRow \cup {NoReq} /\ (again <=> row # NoReq)
      /\ (again => row.what = "load" /\ row.key = q.key /\ row.number = load + 1 /\ row.mount = mount)
  BY <1>0, LoadRow, Rows
<1> HIDE DEF row
<1>3. /\ req' \in [Slot -> ReqRow \cup {NoReq}] /\ req'[s] = row
      /\ Active' = (IF again THEN Active ELSE Active \ {s})
      /\ \A r \in Active : r # s => req'[r] = req[r]
  <2>1. /\ req' \in [Slot -> ReqRow \cup {NoReq}] /\ req'[s] = row
        /\ Active' = (IF row = NoReq THEN Active \ {s} ELSE Active \cup {s})
        /\ \A r \in Slot : r # s => req'[r] = req[r]
    BY <1>0, <1>1, <1>2, OneRow
  <2>2. Active \cup {s} = Active /\ \A r \in Active : r \in Slot
    BY <1>0 DEF Active
  <2> QED BY <1>2, <2>1, <2>2
<1>4. here /\ page.form.after = "answer" => shown # Blank
  BY <1>0 DEF LocksRight
<1> HIDE DEF q
<1>5. /\ shown' = Blank \/ shown' \in [key : Key, val : Val]
      /\ shown # Blank <=> shown' # Blank
      /\ here /\ page.form.after = "answer" => shown' = [key |-> shown.key, val |-> q.val]
  <2>1. CASE here /\ page.form.after = "answer"
    <3>1. shown # Blank
      BY <1>4, <2>1
    <3>2. shown' = [shown EXCEPT !.val = q.val]
      BY <1>1, <2>1
    <3> QED BY <1>0, <3>1, <3>2, ChangedRow
  <2>2. CASE ~(here /\ page.form.after = "answer")
    BY <1>0, <1>1, <2>2 DEF PageTyped
  <2> QED BY <2>1, <2>2
<1>6. dialog' \in 0 .. opened' /\ (dialog' # 0 => dialog' = dialog)
  <2>1. 0 \in 0 .. opened
    BY <1>0
  <2>2. dialog' = 0 \/ dialog' = dialog
    BY <1>1 DEF ClosedBy
  <2> QED BY <1>0, <2>1, <2>2
<1>7. PageTyped'
  <2>1. load' \in Nat /\ load <= load' /\ (again => load' = load + 1)
    <3>1. load + 1 \in Nat /\ load <= load + 1 /\ load <= load
      BY <1>0
    <3> QED BY <1>0, <1>1, <3>1
  <2>2. \A r \in Active : req[r].number \in Nat /\ req[r].number <= load /\ req[r].mount <= mount
                          /\ (req[r].what = "change" => page.form.after # "nothing")
    BY <1>0, Rows DEF PageTyped, ReqRow
  <2>3. \A r \in Active' : req'[r].number <= load' /\ req'[r].mount <= mount
                          /\ (req'[r].what = "change" => page.form.after # "nothing")
    BY <1>0, <1>2, <1>3, <2>1, <2>2
  <2>4. busy' \in BOOLEAN /\ excused' \in BOOLEAN
    BY <1>0, <1>1 DEF Overlaps
  <2> QED BY <1>0, <1>3, <1>5, <1>6, <2>1, <2>3, <2>4 DEF PageTyped
<1>8. LocksRight'
  <2>1. busy' => \E r \in Active' : req'[r].mount = mount'
               /\ (req'[r].what = "change" \/ page'.form.after = "awaited load")
               /\ (page'.form.lock = "form" => req'[r].what = "change" /\ req'[r].form = dialog' /\ dialog' # 0)
    <3>1. CASE here /\ page.form.after = "awaited load"
      <4>1. s \in Active' /\ req'[s].mount = mount' /\ page'.form.lock # "form"
        BY <1>0, <1>2, <1>3, <3>1, PageFacts DEF Reloads
      <4> QED BY <1>0, <3>1, <4>1
    <3>2. CASE here /\ page.form.after # "awaited load"
      BY <1>0, <1>1, <3>2
    <3>3. CASE ~here
      <4>1. busy' => busy
        BY <1>1
      <4>2. dialog' = dialog /\ Active' = Active \ {s}
        BY <1>1, <1>3, <3>3
      <4>3. busy => \E r \in Active : r # s /\ req[r].mount = mount
               /\ (req[r].what = "change" \/ page.form.after = "awaited load")
               /\ (page.form.lock = "form" => req[r].what = "change" /\ req[r].form = dialog /\ dialog # 0)
        BY <1>0, <3>3 DEF LocksRight, q
      <4> QED BY <1>0, <1>3, <4>1, <4>2, <4>3
    <3> QED BY <3>1, <3>2, <3>3
  <2>2. \A r \in Active' : req'[r].what = "change" => r \in Active /\ req'[r] = req[r]
    BY <1>2, <1>3
  <2>3. page'.form.after = "answer" =>
            /\ dialog' # 0 => shown' # Blank
            /\ \A r \in Active' : req'[r].what = "change" /\ req'[r].mount = mount' => shown' # Blank
    BY <1>0, <1>5, <1>6, <2>2 DEF LocksRight
  <2> QED BY <2>1, <2>3 DEF LocksRight
<1>9. ASSUME ~excused' PROVE RowsRight'
  <2>0. ~excused
    BY <1>0, <1>1, <1>9
  <2>1. here /\ (\A r \in Active : r = s) /\ ~Overtaken(q) /\ q.key = at
    <3>1. ~Overtaken(q)
      BY <1>0 DEF Overtaken
    <3>2. here /\ \A r \in Active : r # s => q.what = "load"
      BY <1>0, <2>0 DEF RowsRight, q
    <3> QED BY <1>0, <2>0, <3>1, <3>2 DEF RowsRight, q
  <2>2. CASE again
    <3>1. Active' = {s} /\ req'[s].what = "load" /\ req'[s].key = at' /\ req'[s].mount = mount'
          /\ req'[s].number = load'
      BY <1>0, <1>1, <1>2, <1>3, <2>1, <2>2
    <3>2. ~Overtaken(req[s])'
      BY <3>1 DEF Overtaken
    <3>3. req'[s].phase = "sent"
      BY <1>3, <2>2 DEF row, Load
    <3> QED BY <3>1, <3>2, <3>3 DEF RowsRight
  <2>3. CASE ~again
    <3>1. Active' = {}
      BY <1>3, <2>1, <2>3
    <3>2. Agrees'
      <4> SUFFICES ASSUME ~failed', shown' # Blank PROVE shown' = [key |-> at', val |-> truth'[at']]
        BY DEF Agrees
      <4>1. /\ shown # Blank /\ ~failed
            /\ shown.key = at
            /\ page.form.after = "answer" => truth[at] = q.val
            /\ page.form.after = "told" => shown.val = truth[at]
        BY <1>0, <1>5, <2>0 DEF RowsRight, q
      <4>2. shown \in [key : Key, val : Val]
        BY <1>0, <4>1 DEF PageTyped
      <4>3. CASE page.form.after = "answer"
        BY <1>0, <1>5, <2>1, <4>1, <4>3
      <4>4. CASE page.form.after = "told"
        BY <1>0, <1>1, <4>1, <4>2, <4>4
      <4>5. page.form.after \in {"answer", "told"}
        BY <1>0, <2>1, <2>3, PageFacts DEF Reloads
      <4> QED BY <4>3, <4>4, <4>5
    <3> QED BY <3>1, <3>2 DEF RowsRight
  <2> QED BY <2>2, <2>3
<1>10. RowsRight'
  BY <1>9 DEF RowsRight
<1> QED BY <1>7, <1>8, <1>10 DEF PagesInv

LEMMA RefusedKeeps ==
    ASSUME PagesInv, NEW s \in Slot, Refused(s)
    PROVE  PagesInv'
<1> DEFINE q == req[s]
           here == q.mount = mount
<1>0. /\ PageTyped /\ LocksRight /\ RowsRight /\ page \in Pages /\ s \in Active /\ q \in ReqRow
      /\ q.what = "change" /\ q.phase = "served" /\ ~q.ok /\ q.prev \in Val /\ Done(s) /\ busy \in BOOLEAN
      /\ shown' = (IF here THEN Reverted(q) ELSE shown)
      /\ busy' = (IF here THEN Released(q) ELSE busy)
      /\ UNCHANGED <<page, mount, at, failed, dialog, opened, load, truth, excused>>
  BY Rows DEF PagesInv, PageTyped, Refused, Back, ReqRow
<1>1. /\ req' \in [Slot -> ReqRow \cup {NoReq}]
      /\ Active' = Active \ {s}
      /\ \A r \in Active' : r \in Active /\ r # s /\ req'[r] = req[r]
  BY <1>0, DoneLeaves
<1>2. here /\ page.form.ahead => shown # Blank
  BY <1>0, PageFacts DEF LocksRight
<1> HIDE DEF q
<1>3. /\ shown' = Blank \/ shown' \in [key : Key, val : Val]
      /\ shown # Blank <=> shown' # Blank
  BY <1>0, <1>2, ChangedRow DEF PageTyped, Reverted
<1>4. busy' \in BOOLEAN /\ (busy' => busy) /\ (here /\ busy' => page.form.lock = "form" /\ q.form # dialog)
  BY <1>0 DEF Released
<1>5. PageTyped'
  BY <1>0, <1>1, <1>3, <1>4 DEF PageTyped
<1>6. LocksRight'
  <2>1. busy' => \E r \in Active : r # s /\ req[r].mount = mount
               /\ (req[r].what = "change" \/ page.form.after = "awaited load")
               /\ (page.form.lock = "form" => req[r].what = "change" /\ req[r].form = dialog /\ dialog # 0)
    BY <1>0, <1>4 DEF LocksRight, q
  <2>2. \A r \in Active : r # s => r \in Active' /\ req'[r] = req[r]
    BY <1>1
  <2>3. busy' => \E r \in Active' : req'[r].mount = mount'
               /\ (req'[r].what = "change" \/ page'.form.after = "awaited load")
               /\ (page'.form.lock = "form" => req'[r].what = "change" /\ req'[r].form = dialog' /\ dialog' # 0)
    BY <1>0, <2>1, <2>2
  <2>4. page'.form.after = "answer" =>
            /\ dialog' # 0 => shown' # Blank
            /\ \A r \in Active' : req'[r].what = "change" /\ req'[r].mount = mount' => shown' # Blank
    BY <1>0, <1>1, <1>3 DEF LocksRight
  <2> QED BY <2>3, <2>4 DEF LocksRight
<1>7. ASSUME ~excused' PROVE RowsRight'
  <2>1. ~excused /\ here /\ Active' = {}
    BY <1>0, <1>1, <1>7 DEF RowsRight, q
  <2>2. Agrees'
    <3> SUFFICES ASSUME ~failed', shown' # Blank PROVE shown' = [key |-> at', val |-> truth'[at']]
      BY DEF Agrees
    <3>1. Reverted(q) = [key |-> at, val |-> truth[at]]
      BY <1>0, <1>3, <2>1 DEF RowsRight, q
    <3> QED BY <1>0, <2>1, <3>1
  <2> QED BY <2>1, <2>2 DEF RowsRight
<1>8. RowsRight'
  BY <1>7 DEF RowsRight
<1> QED BY <1>5, <1>6, <1>8 DEF PagesInv

-----------------------------------------------------------------------------
LEMMA PagesInitially == PagesInit => PagesInv
<1> SUFFICES ASSUME PagesInit PROVE PagesInv
  OBVIOUS
<1> DEFINE row == Load(at, 1, 1)
<1>1. /\ page \in Pages /\ at \in Key /\ mount = 1 /\ load = 1 /\ shown = Blank /\ failed = FALSE
      /\ dialog = 0 /\ opened = 0 /\ busy = FALSE /\ truth = [k \in Key |-> 0] /\ excused = FALSE
      /\ req = [s \in Slot |-> IF \A r \in Slot : s <= r THEN row ELSE NoReq]
  BY DEF PagesInit
<1>2. /\ row \in ReqRow /\ row.what = "load" /\ row.key = at /\ row.number = 1 /\ row.mount = 1
      /\ row.phase = "sent"
  BY <1>1, LoadRow
<1> HIDE DEF row
<1>3. /\ req \in [Slot -> ReqRow \cup {NoReq}]
      /\ \A s \in Active : req[s] = row /\ \A r \in Slot : s <= r
  BY <1>1, <1>2 DEF Active
<1>4. \A s, r \in Active : s = r
  <2>1. Active \subseteq Nat /\ Active \subseteq Slot
    BY PortalPagesAssumption DEF Active
  <2> QED BY <1>3, <2>1
<1>5. PageTyped
  <2>1. 0 \in Val /\ 0 \in 0 .. 0
    BY PortalPagesAssumption DEF Val
  <2>2. truth \in [Key -> Val]
    BY <1>1, <2>1
  <2>3. \A s \in Active : req[s].number <= 1 /\ req[s].mount <= 1 /\ req[s].what = "load"
    BY <1>2, <1>3
  <2>4. mount \in Nat /\ load \in Nat /\ opened \in Nat /\ dialog \in 0 .. opened
    BY <1>1, <2>1
  <2> QED BY <1>1, <1>3, <2>2, <2>3, <2>4 DEF PageTyped
<1>6. LocksRight
  BY <1>1, <1>2, <1>3 DEF LocksRight
<1>7. RowsRight
  BY <1>1, <1>2, <1>3, <1>4 DEF RowsRight, Overtaken, Agrees
<1> QED BY <1>5, <1>6, <1>7 DEF PagesInv

LEMMA PagesStep ==
    ASSUME PagesInv, [PagesNext]_pageVars
    PROVE  PagesInv'
<1>1. ASSUME NEW s \in Slot, NEW k \in Key, Turn(s, k) PROVE PagesInv'
  BY <1>1, TurnKeeps
<1>2. ASSUME NEW s \in Slot, Remount(s) PROVE PagesInv'
  BY <1>2, RemountKeeps
<1>3. ASSUME NEW s \in Slot, NEW v \in Val, Submit(s, v) PROVE PagesInv'
  BY <1>3, SubmitKeeps
<1>4. CASE OpenDialog \/ CloseDialog
  BY <1>4, DialogKeeps
<1>5. ASSUME NEW s \in Slot, Serve(s) \/ Loaded(s) \/ Accepted(s) \/ Refused(s) PROVE PagesInv'
  BY <1>5, PageServeKeeps, LoadedKeeps, PageAcceptedKeeps, RefusedKeeps
<1>6. CASE UNCHANGED pageVars
  <2>1. UNCHANGED <<page, mount, at, shown, failed, dialog, opened, busy, load, req, truth, excused>>
    BY <1>6 DEF pageVars
  <2>2. Active' = Active
    BY <2>1 DEF Active
  <2>3. PageTyped' /\ LocksRight'
    BY <2>1, <2>2 DEF PagesInv, PageTyped, LocksRight
  <2>4. RowsRight'
    BY <2>1, <2>2 DEF PagesInv, RowsRight, Overtaken, Agrees, Reverted
  <2> QED BY <2>3, <2>4 DEF PagesInv
<1> QED BY <1>1, <1>2, <1>3, <1>4, <1>5, <1>6 DEF PagesNext, PagesAlone

LEMMA PagesAgree ==
    ASSUME PagesInv
    PROVE  PortalPagesTypeOK /\ PageAgrees
<1>1. PortalPagesTypeOK
  BY DEF PagesInv, PageTyped, LocksRight, PortalPagesTypeOK
<1>2. PageAgrees
  BY DEF PagesInv, RowsRight, Agrees, PageAgrees, Quiet
<1> QED BY <1>1, <1>2

-----------------------------------------------------------------------------
(* The pages that open a gate.                                              *)

SentRow == [cmd : {"open", "close"}, gate : Gate]

(* Every timer of a failure is of a command that is under way no longer.    *)
ErrorsPressed ==
    /\ IsFiniteSet(UnderWay)
    /\ presses \in 0 .. MaxPress /\ errors \in Nat
    /\ errors + Cardinality(UnderWay) <= presses

GateRight ==
    /\ entry \in {"button", "picker"} /\ chosen \in Gate
    /\ entry = "button" => stage \in {"idle", "opening", "closing", "open", "error"}
    /\ entry = "picker" => stage \in {"pick", "confirm", "locating", "sent", "denied"}
    /\ denial \in {"none", "rate_limited", "quota_exceeded"} /\ locked \in BOOLEAN
    /\ sent \in [Cmd -> SentRow \cup {Free}]
    /\ counting \subseteq Gate
    /\ locked => entry = "picker"
    /\ ErrorsPressed

LEMMA GateRightInitially == GateInit => GateRight
<1> SUFFICES ASSUME GateInit PROVE GateRight
  OBVIOUS
<1>1. sent = [c \in Cmd |-> Free] /\ UnderWay = {} /\ presses = 0 /\ errors = 0
  BY DEF GateInit, UnderWay
<1>2. IsFiniteSet(UnderWay) /\ Cardinality(UnderWay) = 0
  BY <1>1, FS_EmptySet
<1>3. ErrorsPressed
  BY <1>1, <1>2, PortalGateAssumption DEF ErrorsPressed
<1> QED BY <1>1, <1>3 DEF GateInit, GateRight

LEMMA SendKeeps ==
    ASSUME GateRight, NEW c \in Cmd, NEW cmd \in {"open", "close"}, Send(c, cmd), errors' = errors
    PROVE  ErrorsPressed' /\ sent' \in [Cmd -> SentRow \cup {Free}]
<1> DEFINE row == [cmd |-> cmd, gate |-> chosen]
<1>1. sent[c] = Free /\ presses < MaxPress /\ presses' = presses + 1 /\ sent' = [sent EXCEPT ![c] = row]
  BY DEF Send
<1>2. row \in SentRow /\ row # Free
  BY DEF GateRight, SentRow, Free
<1> HIDE DEF row
<1>3. sent' \in [Cmd -> SentRow \cup {Free}] /\ \A d \in Cmd : sent'[d] = IF d = c THEN row ELSE sent[d]
  BY <1>1, <1>2 DEF GateRight
<1>4. UnderWay' = UnderWay \cup {c} /\ c \notin UnderWay
  BY <1>1, <1>2, <1>3 DEF UnderWay, Free
<1>5. IsFiniteSet(UnderWay') /\ Cardinality(UnderWay') = Cardinality(UnderWay) + 1
  <2>1. IsFiniteSet(UnderWay)
    BY DEF GateRight, ErrorsPressed
  <2> QED BY <1>4, <2>1, FS_AddElement
<1>6. IsFiniteSet(UnderWay) /\ Cardinality(UnderWay) \in Nat
  BY FS_CardinalityType DEF GateRight, ErrorsPressed
<1>7. /\ presses \in 0 .. MaxPress /\ MaxPress \in Nat /\ errors \in Nat
      /\ errors + Cardinality(UnderWay) <= presses
  BY PortalGateAssumption DEF GateRight, ErrorsPressed
<1>8. presses' \in 0 .. MaxPress /\ errors' \in Nat
  BY <1>1, <1>7
<1>9. errors' + Cardinality(UnderWay') <= presses'
  BY <1>1, <1>5, <1>6, <1>7
<1> QED BY <1>3, <1>5, <1>8, <1>9 DEF ErrorsPressed

LEMMA AnswerKeeps ==
    ASSUME GateRight, NEW c \in Cmd, sent[c] # Free, sent' = [sent EXCEPT ![c] = Free],
           presses' = presses, errors' = errors \/ errors' = errors + 1
    PROVE  ErrorsPressed' /\ sent' \in [Cmd -> SentRow \cup {Free}]
<1>1. sent' \in [Cmd -> SentRow \cup {Free}] /\ \A d \in Cmd : sent'[d] = IF d = c THEN Free ELSE sent[d]
  BY DEF GateRight, Free
<1>2. UnderWay' = UnderWay \ {c} /\ c \in UnderWay
  BY <1>1 DEF UnderWay, Free
<1>3. IsFiniteSet(UnderWay) /\ Cardinality(UnderWay) \in Nat
  BY FS_CardinalityType DEF GateRight, ErrorsPressed
<1>4. IsFiniteSet(UnderWay') /\ Cardinality(UnderWay') = Cardinality(UnderWay) - 1
  BY <1>2, <1>3, FS_RemoveElement
<1>5. presses \in 0 .. MaxPress /\ errors \in Nat /\ errors + Cardinality(UnderWay) <= presses
  BY DEF GateRight, ErrorsPressed
<1>6. errors' + Cardinality(UnderWay') <= presses' /\ errors' \in Nat
  BY <1>3, <1>4, <1>5, PortalGateAssumption
<1> QED BY <1>1, <1>4, <1>5, <1>6 DEF ErrorsPressed

LEMMA GateRightStep ==
    ASSUME GateRight, [GateNext]_gateVars
    PROVE  GateRight'
<1>1. ASSUME NEW c \in Cmd, Press(c)
      PROVE  GateRight'
  <2>1. ErrorsPressed' /\ sent' \in [Cmd -> SentRow \cup {Free}]
    BY <1>1, SendKeeps DEF Press
  <2> QED BY <1>1, <2>1 DEF Press, GateRight
<1>2. ASSUME NEW c \in Cmd, StartOpen(c)
      PROVE  GateRight'
  <2>1. ErrorsPressed' /\ sent' \in [Cmd -> SentRow \cup {Free}]
    BY <1>2, SendKeeps DEF StartOpen
  <2> QED BY <1>2, <2>1 DEF StartOpen, GateRight, gateHistory
<1>3. ASSUME NEW c \in Cmd, GateAnswered(c)
      PROVE  GateRight'
  <2>1. PICK ans \in AnswersTo(sent[c].cmd) :
          /\ ButtonAnswered(ans) \/ PickerAnswered(ans)
          /\ counting' = IF ans = "rate_limited" THEN counting \cup {sent[c].gate} ELSE counting
    BY <1>3 DEF GateAnswered
  <2>2. /\ sent[c] # Free /\ sent' = [sent EXCEPT ![c] = Free] /\ UNCHANGED <<entry, chosen, presses>>
    BY <1>3 DEF GateAnswered
  <2>3. sent[c] \in SentRow
    BY <2>2 DEF GateRight
  <2>4. errors' = errors \/ errors' = errors + 1
    BY <2>1 DEF ButtonAnswered, PickerAnswered, GateRight, ErrorsPressed
  <2>5. ErrorsPressed' /\ sent' \in [Cmd -> SentRow \cup {Free}]
    BY <2>2, <2>4, AnswerKeeps
  <2>6. counting' \subseteq Gate
    BY <2>1, <2>3 DEF SentRow, GateRight
  <2>7. CASE ButtonAnswered(ans)
    <3>1. /\ entry = "button" /\ stage' \in {"idle", "open", "error"} /\ locked' = locked
          /\ denial' \in {"none", "rate_limited", "quota_exceeded"}
      BY <2>7 DEF ButtonAnswered, GateRight
    <3> QED BY <2>2, <2>5, <2>6, <3>1 DEF GateRight
  <2>8. CASE PickerAnswered(ans)
    <3>1. /\ entry = "picker" /\ stage' \in {"sent", "denied"} /\ locked' \in BOOLEAN
          /\ denial' \in {"none", "rate_limited", "quota_exceeded"}
      BY <2>8 DEF PickerAnswered, GateRight
    <3> QED BY <2>2, <2>5, <2>6, <3>1 DEF GateRight
  <2> QED BY <2>1, <2>7, <2>8
<1>4. ASSUME NEW g \in Gate, Pick(g)
      PROVE  GateRight'
  BY <1>4 DEF Pick, Reset, gateHistory, GateRight, ErrorsPressed, UnderWay
<1>5. CASE Want \/ StartOver
  BY <1>5 DEF Want, StartOver, Reset, gateHistory, GateRight, ErrorsPressed, UnderWay
<1>6. CASE ErrorOver
  <2>1. errors' \in Nat /\ errors' + Cardinality(UnderWay) <= presses
    <3>1. Cardinality(UnderWay) \in Nat
      BY FS_CardinalityType DEF GateRight, ErrorsPressed
    <3> QED BY <1>6, <3>1 DEF ErrorOver, GateRight, ErrorsPressed
  <2> QED BY <1>6, <2>1 DEF ErrorOver, Idled, gateHistory, GateRight, ErrorsPressed, UnderWay
<1>7. CASE FlipBack \/ RetryPasses
  BY <1>7 DEF FlipBack, RetryPasses, CountingDown, gateHistory, GateRight, ErrorsPressed, UnderWay
<1>8. CASE UNCHANGED gateVars
  BY <1>8 DEF gateVars, GateRight, ErrorsPressed, UnderWay
<1> QED BY <1>1, <1>2, <1>3, <1>4, <1>5, <1>6, <1>7, <1>8 DEF GateNext, GateAlone

LEMMA GateIsTyped ==
    ASSUME GateRight
    PROVE  GateTypeOK
<1>1. \A c \in UnderWay : sent[c].gate \in Gate /\ sent[c].cmd \in {"open", "close"}
  BY DEF GateRight, UnderWay, SentRow
<1>2. errors \in 0 .. MaxPress
  <2>1. Cardinality(UnderWay) \in Nat
    BY FS_CardinalityType DEF GateRight, ErrorsPressed
  <2> QED BY <2>1, PortalGateAssumption DEF GateRight, ErrorsPressed
<1> QED BY <1>1, <1>2 DEF GateRight, GateTypeOK

-----------------------------------------------------------------------------
(* The box that finds addresses.                                            *)

(* As long as nothing else changed the text: a pause is for what the box    *)
(* shows, and so is the search after it or, when it was answered, what is   *)
(* offered; an earlier search offers nothing.                               *)
SearchRight ==
    /\ SearchTypeOK /\ listed \in BOOLEAN /\ fetching \in BOOLEAN /\ overtaken \in BOOLEAN
    /\ value # Nothing => value = text
    /\ ~overtaken =>
        /\ pause \in {text, Nothing}
        /\ pause = Nothing /\ searches[inflight] = Nothing => offered \in {text, Nothing}
        /\ pause = Nothing => searches[inflight] \in {text, Nothing}

LEMMA SearchInitially == SearchInit => SearchRight
<1> SUFFICES ASSUME SearchInit PROVE SearchRight
  OBVIOUS
<1>1. inflight \in Search
  BY AddressSearchAssumption DEF SearchInit
<1>2. searches \in [Search -> Place \cup {Nothing}] /\ searches[inflight] = Nothing
  BY <1>1 DEF SearchInit, NoSearches
<1> QED BY <1>1, <1>2, AddressSearchAssumption DEF SearchInit, SearchRight, SearchTypeOK

LEMMA SearchStep ==
    ASSUME SearchRight, [SearchNext]_searchVars
    PROVE  SearchRight'
<1> USE AddressSearchAssumption DEF SearchRight, SearchTypeOK
<1>1. ASSUME NEW t \in Place \cup {Short}, OnInput(t)
      PROVE  SearchRight'
  BY <1>1 DEF OnInput
<1>2. ASSUME NEW t \in Place \cup {Short}, NEW v \in {t, Nothing}, t = Short => v = Nothing, Put(t, v)
      PROVE  SearchRight'
  <2>1. ~overtaken' => ~overtaken /\ pause = Nothing /\ searches[inflight] = Nothing
    BY <1>2 DEF Put, Expected, NoSearches
  <2> QED BY <1>2, <2>1 DEF Put
<1>3. CASE Select \/ Clear
  <2>1. CASE Select
    <3> PICK t \in Place : t = offered /\ Put(t, t)
      BY <2>1 DEF Select
    <3> QED BY <1>2
  <2>2. CASE Clear
    <3>1. Put(Short, Nothing)
      BY <2>2 DEF Clear
    <3> QED BY <1>2, <3>1
  <2> QED BY <1>3, <2>1, <2>2
<1>4. CASE OnBlur \/ OnFocus
  <2>1. /\ listed' \in BOOLEAN
        /\ UNCHANGED <<text, value, offered, pause, searches, inflight, fetching, overtaken>>
    BY <1>4 DEF OnBlur, OnFocus
  <2> QED BY <2>1
<1>5. CASE SearchFor
  <2>1. CASE pause = Short
    <3>1. ~overtaken' => ~overtaken /\ searches[inflight] = Nothing
      BY <1>5, <2>1 DEF SearchFor, NoSearches
    <3>2. UNCHANGED <<text, value, searches, inflight, fetching>> /\ listed' = FALSE /\ offered' = Nothing /\ pause' = Nothing
          /\ overtaken' \in BOOLEAN
      BY <1>5, <2>1 DEF SearchFor
    <3> QED BY <3>1, <3>2
  <2>2. CASE pause # Short
    <3>1. pause \in Place
      BY <1>5, <2>2 DEF SearchFor
    <3>2. PICK n \in Search, late \in SUBSET Search :
            /\ inflight' = n
            /\ searches' = [m \in Search |-> IF m = n THEN pause ELSE IF m \in late THEN searches[m] ELSE Nothing]
      BY <1>5, <2>2 DEF SearchFor
    <3>3. searches' \in [Search -> Place \cup {Nothing}] /\ searches'[inflight'] = pause
      BY <3>1, <3>2
    <3>4. UNCHANGED <<text, value, offered, listed, overtaken>> /\ fetching' = TRUE /\ pause' = Nothing
      BY <1>5, <2>2 DEF SearchFor
    <3>5. pause # Nothing
      BY <3>1
    <3> QED BY <3>1, <3>2, <3>3, <3>4, <3>5
  <2> QED BY <2>1, <2>2
<1>6. ASSUME NEW n \in Search, SearchAnswered(n)
      PROVE  SearchRight'
  <2>1. /\ searches[n] # Nothing /\ searches' = [searches EXCEPT ![n] = Nothing]
        /\ UNCHANGED <<text, value, pause, inflight, overtaken>>
    BY <1>6 DEF SearchAnswered
  <2>2. searches' \in [Search -> Place \cup {Nothing}] /\ searches'[n] = Nothing
        /\ \A m \in Search : m # n => searches'[m] = searches[m]
    BY <2>1
  <2>3. CASE n = inflight
    <3>1. offered' \in {searches[n], Nothing} /\ listed' \in BOOLEAN /\ fetching' = FALSE
      BY <1>6, <2>3 DEF SearchAnswered, Latest
    <3> QED BY <2>1, <2>2, <2>3, <3>1
  <2>4. CASE n # inflight
    <3>1. offered' \in {offered, Nothing} /\ UNCHANGED <<listed, fetching>>
      BY <1>6, <2>4 DEF SearchAnswered, Latest
    <3> QED BY <2>1, <2>2, <2>4, <3>1
  <2> QED BY <2>3, <2>4
<1>7. CASE UNCHANGED searchVars
  BY <1>7 DEF searchVars
<1> QED BY <1>1, <1>3, <1>4, <1>5, <1>6, <1>7 DEF SearchNext, SearchAlone

LEMMA SearchAgrees ==
    ASSUME SearchRight
    PROVE  SearchTypeOK /\ OfferAgrees
  BY DEF SearchRight, SearchTypeOK, OfferAgrees, Expected, NoSearches

-----------------------------------------------------------------------------
PortalRight == SessionRight /\ EntryInv /\ PagesInv /\ GateRight /\ SearchRight

(* A page that waits for nothing shows what the gateway has, of the account  *)
(* or the search it is on; the box of addresses offers what it was asked for *)
(* last; types are right in all five parts (Portal: ShownAgrees).            *)
THEOREM WhatIsShownAgrees == PortalSpec => []ShownAgrees
<1>1. PortalInit => PortalRight
  BY SessionInitially, EntryInitially, PagesInitially, GateRightInitially, SearchInitially
  DEF PortalInit, PortalRight
<1>2. ASSUME PortalRight, [PortalNext]_portalVars PROVE PortalRight'
  <2>1. /\ [SessionNext]_sessionVars /\ [EntryNext]_entryVars /\ [PagesNext]_pageVars
        /\ [GateNext]_gateVars /\ [SearchNext]_searchVars
    BY <1>2 DEF PortalNext, AtSession, AtEntry, AtPage, AtGate, AtSearch, portalVars
  <2>2. SessionRight' /\ EntryInv'
    BY <1>2, <2>1, SessionStep, EntryStep DEF PortalRight
  <2>3. PagesInv' /\ GateRight' /\ SearchRight'
    BY <1>2, <2>1, PagesStep, GateRightStep, SearchStep DEF PortalRight
  <2> QED BY <2>2, <2>3 DEF PortalRight
<1>3. PortalRight => ShownAgrees
  BY SessionIsTyped, EntryIsTyped, PagesAgree, GateIsTyped, SearchAgrees DEF PortalRight, SessionRight, ShownAgrees
<1> QED BY <1>1, <1>2, <1>3, PTL DEF PortalSpec
=============================================================================
