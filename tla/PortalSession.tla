--------------------------- MODULE PortalSession ---------------------------
(***************************************************************************)
(* How the portal keeps its session: lib/api.ts (tokenStore, the refresh   *)
(* of a 401 and the retry), lib/auth.tsx (AuthProvider), lib/gateway.ts    *)
(* and the pages that sign in, sign up, sign out and accept an invitation. *)
(*                                                                         *)
(* The tabs of one browser share localStorage (store, cached); everything  *)
(* else is a tab's own and dies with a reload.  The desktop app has one    *)
(* window, and sends a request of which it saw no answer once more.  A     *)
(* step of a tab is what its event loop runs between two awaits.  The      *)
(* gateway (gateway/internal/httpapi/auth.go) keeps families of refresh    *)
(* tokens: a token is used once, and one presented again takes its family  *)
(* with it.                                                                *)
(***************************************************************************)
EXTENDS Naturals, FiniteSets

CONSTANTS
    Tab,
    Window,       \* the tab that is the desktop app's window
    Call,         \* API calls under way in a tab
    Gateway,
    NoGateway,
    MaxTok,       \* bound: token pairs the gateways issue
    Slots,        \* bound: Slots[t], the calls tab t has under way together
    MaxTurns      \* bound: what the users do, and requests that are sent twice

ASSUME PortalAssumption ==
    /\ Slots \in [Tab -> SUBSET Call \ {{}}] /\ Gateway # {} /\ NoGateway \notin Gateway
    /\ MaxTok \in Nat \ {0} /\ MaxTurns \in Nat /\ Window \in Tab

Tok == 1 .. MaxTok
Idle == [what |-> "idle"]
NoToken == [gw |-> NoGateway, family |-> 0, state |-> "none"]

VARIABLES
    native,       \* the portal runs in the desktop app
    token,        \* what the gateways know of each refresh token
    minted,       \* pairs issued so far
    accepted,     \* the invitation is accepted
    store,        \* localStorage: the gateway chosen and the pair stored (0: none)
    cached,       \* localStorage: a cached answer of /me
    signedIn,     \* the tab's user state is not null
    loading,      \* the tab shows the loading shell
    stash,        \* sessionStorage: the tab holds the invitation's token
    call,         \* the calls under way
    stray,        \* requests still on the wire whose answer nobody awaits
    turns,        \* bound: how much of MaxTurns is used up
    presented,    \* history: refresh tokens this page presented
    replayed,     \* history: tabs of which one page presented a token twice
    resent,       \* history: a refresh token was sent a second time by gatewayFetch
    ended,        \* history: families whose sign-out was answered
    unrevoked,    \* history: those of them that the gateway failed to revoke
    dropped,      \* history: tabs that dropped the invitation
    crossed       \* history: a gateway was changed under another tab's call

sessionVars == <<native, token, minted, accepted, store, cached, signedIn, loading, stash, call, stray,
                 turns, presented, replayed, resent, ended, unrevoked, dropped, crossed>>
server == <<token, minted, accepted>>
view == <<signedIn, loading>>
endings == <<ended, unrevoked>>
history == <<native, presented, replayed, resent, endings, dropped, crossed>>

Tabs == IF native THEN {Window} ELSE Tab

Family(k) == IF k = 0 THEN 0 ELSE token[k].family

LiveIn(f) == {k \in Tok : token[k].state = "live" /\ token[k].family = f}

Calling(t) == {c \in Call : call[t][c] # Idle}

Doing(t, kinds) == {c \in Calling(t) : call[t][c].what \in kinds}

(* A request as doRequest sends it: to the gateway and with the access    *)
(* token that localStorage holds now; logout's body is the refresh token. *)
Request(what, retried, pair) ==
    [what |-> what, phase |-> "sent", tok |-> pair.tok, gw |-> pair.gw,
     retried |-> retried, ok |-> FALSE, family |-> 0, again |-> FALSE]

SetCall(t, c, rec) == call' = [call EXCEPT ![t][c] = rec]

(* What a page load shows: the cached user while there are tokens. *)
BootCalls(t, pair) ==
    LET boot == CHOOSE c \in Slots[t] : TRUE IN
    [c \in Call |-> IF c = boot /\ pair.tok # 0 THEN Request("boot", FALSE, pair) ELSE Idle]

(* No session yet, or one that every tab has been loaded with. *)
SessionInit ==
    \E g \in Gateway, session \in BOOLEAN :
        /\ native \in BOOLEAN
        /\ minted = IF session THEN 1 ELSE 0
        /\ token = [k \in Tok |-> IF k = minted THEN [gw |-> g, family |-> k, state |-> "live"] ELSE NoToken]
        /\ accepted = FALSE
        /\ store = [gw |-> g, tok |-> minted]
        /\ cached = session
        /\ signedIn = [t \in Tab |-> session]
        /\ loading = [t \in Tab |-> FALSE]
        /\ stash = [t \in Tab |-> FALSE]
        /\ call = [t \in Tab |-> [c \in Call |-> Idle]]
        /\ stray = {}
        /\ turns = 0
        /\ presented = [t \in Tab |-> {}]
        /\ replayed = {}
        /\ resent = {}
        /\ ended = {}
        /\ unrevoked = {}
        /\ dropped = {}
        /\ crossed = FALSE

-----------------------------------------------------------------------------
(* What the user does. *)

ByUser == turns < MaxTurns /\ turns' = turns + 1

Launch(t, c, what) ==
    /\ ByUser
    /\ call[t][c] = Idle
    /\ SetCall(t, c, Request(what, FALSE, store))
    /\ UNCHANGED <<server, store, cached, view, stash, stray, history>>

(* Login.onSubmit, Signup.submitSignup: one submission at a time. *)
SignIn(t, c) == Doing(t, {"login", "register", "join", "joined"}) = {} /\ Launch(t, c, "login")

SignUp(t, c) == Doing(t, {"login", "register", "join", "joined"}) = {} /\ Launch(t, c, "register")

(* The calls of a page of the app, and the refreshMe after a change. *)
PageCall(t, c) == signedIn[t] /\ ~loading[t] /\ Launch(t, c, "page")

(* AcceptInvite without a user: the token is put aside for after sign-up. *)
StashInvite(t) ==
    /\ ~signedIn[t] /\ ~stash[t]
    /\ ByUser
    /\ stash' = [stash EXCEPT ![t] = TRUE]
    /\ UNCHANGED <<server, store, cached, view, call, stray, history>>

AcceptInvite(t, c) ==
    /\ signedIn[t] /\ stash[t] /\ Doing(t, {"accept"}) = {}
    /\ Launch(t, c, "accept")

(* Mutant of SignedOff: storage is cleared first, so that nothing is left  *)
(* to tell the gateway.                                                    *)
SignedOffBlank(pair) == [pair EXCEPT !.tok = 0]

SignedOff(pair) == pair

(* signOut: the refresh token is read, and revoked with its family. *)
SignOut(t, c) ==
    /\ signedIn[t] /\ call[t][c] = Idle
    /\ ByUser
    /\ store.tok # 0
    /\ SetCall(t, c, [Request("logout", FALSE, SignedOff(store)) EXCEPT !.family = Family(store.tok)])
    /\ UNCHANGED <<server, store, cached, view, stash, stray, history>>

SignOutBare(t) ==
    /\ signedIn[t] /\ store.tok = 0
    /\ ByUser
    /\ signedIn' = [signedIn EXCEPT ![t] = FALSE]
    /\ cached' = FALSE
    /\ UNCHANGED <<server, store, loading, stash, call, stray, history>>

(* What changes the gateway when it arrives. *)
Changes(q) ==
    /\ q # Idle
    /\ \/ q.phase = "refreshing"
       \/ q.phase = "sent" /\ q.what \in {"login", "register", "join", "accept", "logout"}

OnWire(q) ==
    [what |-> IF q.phase = "refreshing" THEN "refresh" ELSE q.what, tok |-> q.tok, gw |-> q.gw]

(* A page load: the answers to the page before it are gone, its requests   *)
(* may arrive yet; AuthProvider paints the cached user and asks /me.       *)
Boot(t, pair, cache) ==
    /\ ByUser
    /\ store' = pair
    /\ cached' = (cache /\ pair.tok # 0)
    /\ signedIn' = [signedIn EXCEPT ![t] = cached']
    /\ loading' = [loading EXCEPT ![t] = ~cached' /\ pair.tok # 0]
    /\ call' = [call EXCEPT ![t] = BootCalls(t, pair)]
    /\ stray' = stray \cup {OnWire(call[t][c]) : c \in {d \in Call : Changes(call[t][d])}}
    /\ presented' = [presented EXCEPT ![t] = {}]
    /\ UNCHANGED <<native, server, stash, replayed, resent, endings, dropped>>

Reload(t) ==
    /\ Boot(t, store, cached)
    /\ UNCHANGED crossed

(* Mutant of PerGateway: the tokens stay when the gateway changes. *)
PerGatewayKept(pair, g) == [pair EXCEPT !.gw = g]

PerGateway(pair, g) == IF g = pair.gw THEN pair ELSE [gw |-> g, tok |-> 0]

(* applyGatewayUrl: store the choice, drop what belongs to the other       *)
(* gateway, reload.                                                        *)
SwitchGateway(t, g) ==
    /\ g # store.gw
    /\ Boot(t, PerGateway(store, g), FALSE)
    /\ crossed' = (crossed \/ \E u \in Tab \ {t} : Calling(u) # {})

(* gatewayFetch of the desktop app: the native fetch threw, so the request *)
(* goes out again through the webview's.  The first may have arrived, may  *)
(* arrive yet, or never does.                                              *)
Resend(t, c) ==
    LET q == call[t][c] IN
    /\ native /\ Changes(q) /\ ~q.again
    /\ turns < MaxTurns /\ turns' = turns + 1
    /\ SetCall(t, c, [q EXCEPT !.again = TRUE])
    /\ stray' = stray \cup {OnWire(q)}
    /\ resent' = IF q.phase = "refreshing" THEN resent \cup {q.tok} ELSE resent
    /\ UNCHANGED <<native, server, store, cached, view, stash,
                   presented, replayed, endings, dropped, crossed>>

-----------------------------------------------------------------------------
(* The gateway: authentication, rotation and families.  An access token may *)
(* be found expired by any request.                                        *)

Known(q) == q.tok # 0 /\ token[q.tok].gw = q.gw

Mint(gw, family, rows) ==
    LET k == minted + 1 IN
    /\ minted' = k
    /\ token' = [rows EXCEPT ![k] = [gw |-> gw, family |-> IF family = 0 THEN k ELSE family,
                                     state |-> "live"]]

Without(f) == [k \in Tok |-> IF k \in LiveIn(f) THEN [token[k] EXCEPT !.state = "revoked"] ELSE token[k]]

Live(q) == Known(q) /\ token[q.tok].state = "live"

(* A refresh is answered in a step of its own: the answer may be on its    *)
(* way while others act.                                                   *)
Refreshed(t, c, ok) ==
    SetCall(t, c, [call[t][c] EXCEPT !.phase = "refreshed", !.ok = ok,
                                     !.tok = IF ok THEN minted' ELSE 0, !.again = FALSE])

(* POST /auth/refresh: rotate a good token; one that was used or revoked   *)
(* takes its family with it; and the request, the answer or a statement of *)
(* the handler may fail.                                                   *)
RefreshServed(t, c) ==
    LET q == call[t][c] IN
    /\ c \in Calling(t) /\ q.phase = "refreshing"
    /\ \/ /\ Live(q) /\ minted < MaxTok
          /\ Mint(q.gw, Family(q.tok), [token EXCEPT ![q.tok].state = "used"])
          /\ \E ok \in BOOLEAN : Refreshed(t, c, ok)
       \/ /\ ~Live(q)
          /\ token' = IF Known(q) THEN Without(Family(q.tok)) ELSE token
          /\ Refreshed(t, c, FALSE)
          /\ UNCHANGED minted
       \/ /\ Refreshed(t, c, FALSE)
          /\ UNCHANGED <<token, minted>>
    /\ UNCHANGED <<accepted, store, cached, view, stash, stray, turns, history>>

(* What was sent for nobody reaches the gateway, or never does: a refresh, *)
(* a sign-out, a sign-in or sign-up, the acceptance of the invitation.     *)
StrayServed(q) ==
    /\ stray' = stray \ {q}
    /\ \/ /\ q.what = "refresh" /\ Live(q) /\ minted < MaxTok
          /\ Mint(q.gw, Family(q.tok), [token EXCEPT ![q.tok].state = "used"])
          /\ UNCHANGED accepted
       \/ /\ q.what = "logout" \/ (q.what = "refresh" /\ ~Live(q))
          /\ Known(q) /\ token' = Without(Family(q.tok))
          /\ UNCHANGED <<minted, accepted>>
       \/ /\ q.what \in {"login", "register"} /\ minted < MaxTok
          /\ Mint(q.gw, 0, token)
          /\ UNCHANGED accepted
       \/ /\ q.what \in {"accept", "join"} /\ Known(q)
          /\ accepted' = TRUE
          /\ UNCHANGED <<token, minted>>
       \/ UNCHANGED server
    /\ UNCHANGED <<store, cached, view, stash, call, turns, history>>

-----------------------------------------------------------------------------
(* The answers of the other calls, each with what the tab does next.       *)

Sent(t, c, kinds) == c \in Calling(t) /\ call[t][c].phase = "sent" /\ call[t][c].what \in kinds

(* Sent, or left with the 401 it was answered first. *)
Returning(t, c, kinds) ==
    c \in Calling(t) /\ call[t][c].phase \in {"sent", "denied"} /\ call[t][c].what \in kinds

(* A 401 is worth a refresh while a refresh token is stored, once. *)
Retriable(t, c) == ~call[t][c].retried /\ store.tok # 0

(* Mutant of Refreshing: every 401 starts a refresh of its own. *)
RefreshingNever(t) == t \notin Tab

(* The module's promise `refreshing` is pending. *)
Refreshing(t) == \E c \in Calling(t) : call[t][c].phase \in {"refreshing", "refreshed"}

(* The 401s (a wrong password, an access token expired or not of this      *)
(* gateway): refreshAccessToken joins the refresh under way, or starts one. *)
Meets401(t, c) == Sent(t, c, {"boot", "me", "page", "accept", "join", "joined", "login"})

JoinRefresh(t, c) ==
    /\ Meets401(t, c) /\ Retriable(t, c)
    /\ Refreshing(t)
    /\ SetCall(t, c, [call[t][c] EXCEPT !.phase = "waiting", !.tok = 0, !.again = FALSE])
    /\ UNCHANGED <<server, store, cached, view, stash, stray, turns, history>>

StartRefresh(t, c) ==
    /\ Meets401(t, c) /\ Retriable(t, c)
    /\ ~Refreshing(t)
    /\ SetCall(t, c, [call[t][c] EXCEPT !.phase = "refreshing", !.tok = store.tok,
                                        !.gw = store.gw, !.again = FALSE])
    /\ presented' = [presented EXCEPT ![t] = @ \cup {store.tok}]
    /\ replayed' = IF store.tok \in presented[t] THEN replayed \cup {t} ELSE replayed
    /\ UNCHANGED <<native, server, store, cached, view, stash, stray, turns,
                   resent, endings, dropped, crossed>>

Waiters(t, c) == {c} \cup {d \in Calling(t) : call[t][d].phase = "waiting"}

(* The refresh settles: the new pair is stored and every waiting call is   *)
(* sent again; or storage is cleared and their 401s stand.                 *)
Settle(t, c) ==
    /\ c \in Calling(t) /\ call[t][c].phase = "refreshed"
    /\ LET ok == call[t][c].ok
           pair == [store EXCEPT !.tok = call[t][c].tok]
       IN /\ store' = pair
          /\ call' = [call EXCEPT ![t] = [d \in Call |->
                IF d \notin Waiters(t, c) THEN @[d]
                ELSE IF ok THEN Request(@[d].what, TRUE, pair)
                ELSE [@[d] EXCEPT !.phase = "denied", !.tok = 0]]]
    /\ UNCHANGED <<server, cached, view, stash, stray, turns, history>>

(* finally setLoading(false) of the boot. *)
Over(t, c, ans) ==
    IF call[t][c].what = "boot" /\ ans \in {"ok", "401", "error"}
    THEN [loading EXCEPT ![t] = FALSE] ELSE loading

(* Signup drops the invitation when registerWithPassword has resolved. *)
Dropped(t, now) ==
    /\ stash' = IF now THEN [stash EXCEPT ![t] = FALSE] ELSE stash
    /\ dropped' = IF now /\ stash[t] THEN dropped \cup {t} ELSE dropped

(* What may come back for good: the answer to a known token, the 401 that  *)
(* is not refreshed or stands, and any other error, loss included.         *)
Answers(t, c) ==
    IF call[t][c].phase = "denied" THEN {"401"}
    ELSE {"error"} \cup (IF Known(call[t][c]) THEN {"ok"} ELSE {})
                   \cup (IF Retriable(t, c) THEN {} ELSE {"401"})

(* The end of refreshMe: the user and the cache follow the answer; after a *)
(* 401 the session is forgotten; another error leaves them.                *)
MeReturned(t, c) ==
    /\ Returning(t, c, {"boot", "me", "joined"})
    /\ \E ans \in Answers(t, c) :
       /\ signedIn' = IF ans = "error" THEN signedIn ELSE [signedIn EXCEPT ![t] = (ans = "ok")]
       /\ cached' = IF ans = "error" THEN cached ELSE ans = "ok"
       /\ store' = IF ans = "401" THEN [store EXCEPT !.tok = 0] ELSE store
       /\ Dropped(t, call[t][c].what = "joined" /\ ans # "error")
       /\ loading' = Over(t, c, ans)
    /\ SetCall(t, c, Idle)
    /\ UNCHANGED <<native, server, stray, turns, presented, replayed, resent, endings, crossed>>

(* registerWithPassword accepts the invitation with the new session. *)
AfterRegister(t) == IF stash[t] THEN "join" ELSE "me"

(* signInWithPassword, registerWithPassword: a new session, whose answer   *)
(* may be lost; its pair is stored and /me asked with it.                  *)
SignedIn(t, c) ==
    /\ Sent(t, c, {"login", "register"})
    /\ minted < MaxTok
    /\ Mint(call[t][c].gw, 0, token)
    /\ \/ /\ store' = [store EXCEPT !.tok = minted']
          /\ SetCall(t, c, Request(IF call[t][c].what = "login" THEN "me" ELSE AfterRegister(t), FALSE, store'))
       \/ /\ SetCall(t, c, Idle)
          /\ UNCHANGED store
    /\ UNCHANGED <<accepted, cached, view, stash, stray, turns, history>>

(* The other ends of a submission (a wrong password for good, email_taken, *)
(* a lost request) and of a page's call: an error message, or the data.    *)
NothingChanges(t, c) ==
    /\ Returning(t, c, {"page", "login", "register"})
    /\ SetCall(t, c, Idle)
    /\ UNCHANGED <<server, store, cached, view, stash, stray, turns, history>>

(* inviteAccept, then refreshMe, that forgets the user when another tab    *)
(* has cleared the tokens meanwhile.                                       *)
InviteAccepted(t, c) ==
    /\ Sent(t, c, {"accept", "join"})
    /\ Known(call[t][c]) /\ ~accepted
    /\ accepted' = TRUE
    /\ Dropped(t, call[t][c].what = "accept" \/ store.tok = 0)
    /\ IF store.tok = 0
       THEN /\ SetCall(t, c, Idle)
            /\ signedIn' = [signedIn EXCEPT ![t] = FALSE]
            /\ cached' = FALSE
       ELSE /\ SetCall(t, c, Request(IF call[t][c].what = "join" THEN "joined" ELSE "me", FALSE, store))
            /\ UNCHANGED <<signedIn, cached>>
    /\ UNCHANGED <<native, token, minted, store, loading, stray, turns,
                   presented, replayed, resent, endings, crossed>>

(* invite_used and the other refusals; an acceptance whose answer is lost. *)
InviteFails(t, c) ==
    /\ Returning(t, c, {"accept", "join"})
    /\ accepted' \in {accepted, accepted \/ Known(call[t][c])}
    /\ SetCall(t, c, Idle)
    /\ UNCHANGED <<token, minted, store, cached, view, stash, stray, turns, history>>

(* signOut goes on whatever became of the request: handleLogout revokes    *)
(* the family, or answers 200 although its lookup or the revocation has    *)
(* failed; or the answer is lost, and nobody knows.                        *)
SignedOut(t, c) ==
    LET q == call[t][c]
        revoked == IF Known(q) THEN Without(Family(q.tok)) ELSE token
    IN
    /\ Sent(t, c, {"logout"})
    /\ \/ token' = revoked /\ ended' = ended \cup {q.family} /\ UNCHANGED unrevoked
       \/ /\ ended' = ended \cup {q.family} /\ unrevoked' = unrevoked \cup {q.family}
          /\ UNCHANGED token
       \/ token' \in {token, revoked} /\ UNCHANGED endings
    /\ store' = [store EXCEPT !.tok = 0]
    /\ signedIn' = [signedIn EXCEPT ![t] = FALSE]
    /\ cached' = FALSE
    /\ SetCall(t, c, Idle)
    /\ UNCHANGED <<native, minted, accepted, loading, stash, stray, turns,
                   presented, replayed, resent, dropped, crossed>>

Answered(t, c) ==
    \/ RefreshServed(t, c) \/ JoinRefresh(t, c) \/ StartRefresh(t, c) \/ Settle(t, c)
    \/ MeReturned(t, c) \/ SignedIn(t, c) \/ NothingChanges(t, c)
    \/ InviteAccepted(t, c) \/ InviteFails(t, c) \/ SignedOut(t, c)

SessionNext ==
    \/ \E t \in Tabs : \E c \in Slots[t] :
          \/ SignIn(t, c) \/ SignUp(t, c) \/ PageCall(t, c)
          \/ AcceptInvite(t, c) \/ SignOut(t, c)
          \/ Resend(t, c) \/ Answered(t, c)
    \/ \E t \in Tabs :
          \/ StashInvite(t) \/ SignOutBare(t) \/ Reload(t)
          \/ \E g \in Gateway : SwitchGateway(t, g)
    \/ \E q \in stray : StrayServed(q)

SessionAlone == \E t \in Tab, c \in Call : Answered(t, c)

-----------------------------------------------------------------------------
CallRow ==
    [what : {"boot", "me", "page", "login", "register", "join", "joined", "accept", "logout"},
     phase : {"sent", "waiting", "refreshing", "refreshed", "denied"},
     tok : 0 .. MaxTok, gw : Gateway, retried : BOOLEAN, ok : BOOLEAN, family : 0 .. MaxTok,
     again : BOOLEAN]

(* Types; a tab that waits on a refresh has one under way, a retried call  *)
(* does not wait for another, and the user is cached only by an answer.    *)
PortalSessionTypeOK ==
    /\ minted \in 0 .. MaxTok
    /\ store \in [gw : Gateway, tok : 0 .. MaxTok]
    /\ signedIn \in [Tab -> BOOLEAN] /\ loading \in [Tab -> BOOLEAN] /\ cached \in BOOLEAN
    /\ \A t \in Tab : \A c \in Calling(t) :
          /\ call[t][c] \in CallRow
          /\ call[t][c].phase = "waiting" => Refreshing(t) /\ ~call[t][c].retried
    /\ \A t \in Tab : Cardinality({c \in Calling(t) : call[t][c].phase = "refreshing"}) <= 1

(* However many calls of a page meet a 401 together, the page begins one   *)
(* refresh with each refresh token: in a browser it never gets its own     *)
(* session revoked for reuse (lib/api.ts:147, `refreshing`).  Exception:   *)
(* the desktop app, which sends a refresh that got no answer a second time *)
(* with the token in it (lib/gateway.ts:106).                              *)
NoSelfReplay == replayed = {} /\ (resent # {} => native)

(* A sign-out the gateway answered leaves no usable refresh token of that  *)
(* session, whatever refresh was under way meanwhile and whatever was sent *)
(* twice, as long as no tab sends it to another gateway (lib/auth.tsx:237) *)
(* and the gateway, which answers 200 either way, has not failed to look   *)
(* the token up or to revoke its family (httpapi/auth.go:244).  The        *)
(* invitation put aside for after sign-up is forgotten only once it is     *)
(* accepted (lib/auth.tsx:216).                                            *)
SignOutReaches ==
    /\ \A f \in ended \ unrevoked : crossed \/ LiveIn(f) = {}
    /\ dropped # {} => accepted

(* Tokens of another gateway than the chosen one are stored only when the  *)
(* choice was changed under a call of another tab (lib/gateway.ts:145).    *)
TokensOfGateway == store.tok # 0 /\ token[store.tok].gw # store.gw => crossed

(* A call under way, one that waits on another's refresh included; or the  *)
(* loading shell of a page load.                                           *)
SessionWaits == \E t \in Tab : loading[t] \/ Calling(t) # {}
=============================================================================
