---------------------------- MODULE WebSessions ----------------------------
(***************************************************************************)
(* Signing in to the web UI: the handshake with the identity provider and  *)
(* its cookies, web_sessions, RequireAuth and logging out                  *)
(* (internal/auth/handlers.go and middleware.go, internal/db/sessions.go). *)
(*                                                                         *)
(* The tabs of a browser share its cookies.  A request carries them as     *)
(* they were when it was sent, and what its answer sets takes effect when  *)
(* the answer arrives, so that two tabs may undo each other's steps.       *)
(*                                                                         *)
(* Random tokens come from one sequence and are never equal.  The three    *)
(* cookies of a handshake (state, nonce, PKCE verifier) are set, read and  *)
(* cleared together and are one token; a session and its CSRF token too.   *)
(***************************************************************************)
EXTENDS Integers

CONSTANTS Tabs,         \* tabs, each of which has at most one request open
          BrowserOf,    \* the browser a tab belongs to
          SignedIn,     \* the browser that is signed in at first
          Plans,        \* bound: the kinds of requests every tab is used for
                        \* (uses), with the number of requests (requests)
          Lifetime,     \* sessionDuration
          MaxTime,      \* bound: the clock
          MaxTokens,    \* bound: tokens drawn
          MaxFaults     \* bound: queries and exchanges that fail

ASSUME SessionsAssumption ==
  /\ Lifetime \in Nat /\ MaxTime \in Nat
  /\ MaxTokens \in Nat /\ MaxTokens >= 2   \* InitSessions has drawn two
  /\ \A p \in Plans : p.requests \in Nat
  /\ MaxFaults \in Nat

VARIABLES now,        \* the clock
          fresh,      \* the next random token
          jar,        \* the cookies of every browser
          tabs,       \* what every tab is at
          sessions,   \* web_sessions: the ids in the table
          opened,     \* for every session ever: when it expires, and its handshake
          begun,      \* the browser every handshake was begun in
          ended,      \* sessions a logout has deleted
          plan,       \* the plan, with the number of requests that are left
          faults

sessionVars == <<now, fresh, jar, tabs, sessions, opened, begun, ended, plan, faults>>

Browsers == {BrowserOf[t] : t \in Tabs}
Tokens == 1..MaxTokens
None == 0
Nobody == "nobody"
Cookies == {"hand", "session", "slack"}
Handshakes == {h \in Tokens : begun[h] # Nobody}

NoChange == << >>
Sets(cookie, value) == [c \in {cookie} |-> value]

(* A tab: where its request is, its kind and the cookies it carries; the   *)
(* token in its address; the session its page was rendered for, and the    *)
(* one RequireAuth has put into the context; what the answer sets.         *)
IdleTab == [at |-> "idle", kind |-> "page", cookies |-> [c \in Cookies |-> None],
            url |-> None, page |-> None, as |-> None, sets |-> NoChange]

(* What is left of a request once it is answered.                          *)
Rested(self) == [IdleTab EXCEPT !.url = self.url, !.page = self.page]

Becomes(t, self) == tabs' = [tabs EXCEPT ![t] = self]
KeepsSessions == UNCHANGED <<sessions, opened, ended>>
Fault == faults < MaxFaults /\ faults' = faults + 1
NoFault == UNCHANGED faults
(* Mutant of Draw: the same token every time.                              *)
DrawAgain == fresh <= MaxTokens /\ UNCHANGED fresh

(* randomToken.                                                            *)
Draw == fresh <= MaxTokens /\ fresh' = fresh + 1

-----------------------------------------------------------------------------
(* Browsers.                                                               *)

Send(t, kind) ==
  /\ tabs[t].at = "idle" /\ kind \in plan.uses[t] /\ plan.requests > 0
  /\ plan' = [plan EXCEPT !.requests = @ - 1]
  /\ Becomes(t, [tabs[t] EXCEPT !.at = "sent", !.kind = kind, !.cookies = jar[BrowserOf[t]]])
  /\ KeepsSessions /\ UNCHANGED <<now, fresh, jar, begun, faults>>

(* The provider sends a tab back with the state it was sent away with; a   *)
(* page can be reloaded.                                                   *)
SendCallback(t) == tabs[t].url \in Handshakes /\ Send(t, "callback")

(* An address is opened in another browser.                                *)
OpenElsewhere(t, other) ==
  /\ tabs[t].at = "idle" /\ tabs[other].at = "idle"
  /\ BrowserOf[t] # BrowserOf[other] /\ "callback" \in plan.uses[other]
  /\ tabs[t].url \in Handshakes /\ tabs[other].url # tabs[t].url
  /\ Becomes(other, [tabs[other] EXCEPT !.url = tabs[t].url])
  /\ KeepsSessions /\ UNCHANGED <<now, fresh, jar, begun, plan, faults>>

AnswerArrives(t) ==
  LET set == tabs[t].sets IN
  /\ tabs[t].at = "answered"
  /\ jar' = [jar EXCEPT ![BrowserOf[t]] =
               [c \in Cookies |-> IF c \in DOMAIN set THEN set[c] ELSE @[c]]]
  /\ Becomes(t, Rested(tabs[t]))
  /\ KeepsSessions /\ UNCHANGED <<now, fresh, begun, plan, faults>>

(* handshakeMaxAge.  (That a browser drops the session cookie when it      *)
(* expires makes no difference to RequireAuth.)                            *)
CookieExpires(b, c) ==
  /\ c # "session" /\ jar[b][c] # None
  /\ jar' = [jar EXCEPT ![b][c] = None]
  /\ KeepsSessions /\ UNCHANGED <<now, fresh, tabs, begun, plan, faults>>

Tick ==
  /\ now < MaxTime /\ now' = now + 1
  /\ KeepsSessions /\ UNCHANGED <<fresh, jar, tabs, begun, plan, faults>>

-----------------------------------------------------------------------------
(* The service.                                                            *)

Serving(t, kind) == tabs[t].at = "sent" /\ tabs[t].kind = kind

(* An answer that sets a cookie, and one that sets none and so arrives at  *)
(* once.                                                                   *)
Answered(self, set) == [Rested(self) EXCEPT !.at = "answered", !.sets = set]
Answer(t, set) == Becomes(t, Answered(tabs[t], set))
Done(t, self) == Becomes(t, Rested(self))

LoginHandler(t) ==
  /\ Serving(t, "login") /\ Draw
  /\ begun' = [begun EXCEPT ![fresh] = BrowserOf[t]]
  /\ Becomes(t, [Answered(tabs[t], Sets("hand", fresh)) EXCEPT !.url = fresh])
  /\ KeepsSessions /\ UNCHANGED <<now, jar, plan, faults>>

(* Mutant of HandshakeMatches: nothing is compared with the cookies.       *)
HandshakeMatchesAny(self) == self.url # None

(* The state of the address, the nonce of the ID token and the verifier of *)
(* the code all belong to the handshake of the cookies.                    *)
HandshakeMatches(self) ==
  self.cookies["hand"] # None /\ self.cookies["hand"] = self.url

(* The provider takes a code once.                                         *)
CodeUsed(h) == \E s \in Tokens : opened[s].hand = h

Cleared == Sets("hand", None)

CallbackRefused(t) ==
  /\ Serving(t, "callback")
  /\ ~HandshakeMatches(tabs[t]) \/ CodeUsed(tabs[t].url)
  /\ Answer(t, Cleared)
  /\ KeepsSessions /\ UNCHANGED <<now, fresh, jar, begun, plan, faults>>

(* The provider answers with an error, the exchange fails, or the session  *)
(* cannot be stored.                                                       *)
CallbackFails(t) ==
  /\ Serving(t, "callback") /\ HandshakeMatches(tabs[t]) /\ Fault
  /\ Answer(t, Cleared)
  /\ KeepsSessions /\ UNCHANGED <<now, fresh, jar, begun, plan>>

CreateWebSession(t) ==
  /\ Serving(t, "callback")
  /\ HandshakeMatches(tabs[t]) /\ ~CodeUsed(tabs[t].url)
  /\ Draw
  /\ sessions' = sessions \cup {fresh}
  /\ opened' = [opened EXCEPT ![fresh] = [expires |-> now + Lifetime, hand |-> tabs[t].url]]
  /\ Answer(t, [c \in {"hand", "session"} |-> IF c = "hand" THEN None ELSE fresh])
  /\ UNCHANGED <<now, jar, begun, ended, plan, faults>>

(* Mutant of LogoutHandler: only the cookie goes.                          *)
LogoutForgetsCookie(t) ==
  /\ Serving(t, "logout")
  /\ ended' = ended \cup ({tabs[t].cookies["session"]} \ {None})
  /\ Answer(t, Sets("session", None))
  /\ UNCHANGED <<now, fresh, jar, begun, sessions, opened, plan, faults>>

LogoutHandler(t) ==
  LET s == tabs[t].cookies["session"] IN
  /\ Serving(t, "logout")
  /\ sessions' = sessions \ {s}
  /\ ended' = ended \cup ({s} \ {None})
  /\ Answer(t, Sets("session", None))
  /\ UNCHANGED <<now, fresh, jar, begun, opened, plan, faults>>

(* A session that cannot be deleted is logged; the cookie goes.            *)
LogoutFails(t) ==
  /\ Serving(t, "logout") /\ tabs[t].cookies["session"] # None /\ Fault
  /\ Answer(t, Sets("session", None))
  /\ KeepsSessions /\ UNCHANGED <<now, fresh, jar, begun, plan>>

GetWebSession(s) == s \in sessions /\ opened[s].expires > now

Guarded(t) == tabs[t].at = "sent" /\ tabs[t].kind \notin {"login", "callback", "logout"}

RequireAuth(t) ==
  /\ Guarded(t) /\ GetWebSession(tabs[t].cookies["session"])
  /\ Becomes(t, [tabs[t] EXCEPT !.at = "let_in", !.as = tabs[t].cookies["session"]])
  /\ KeepsSessions /\ UNCHANGED <<now, fresh, jar, begun, plan, faults>>

(* redirectToLogin: the browser follows.                                   *)
RedirectToLogin(t) ==
  /\ Guarded(t)
  /\ \/ ~GetWebSession(tabs[t].cookies["session"]) /\ NoFault
     \/ GetWebSession(tabs[t].cookies["session"]) /\ Fault
  /\ Becomes(t, [Rested(tabs[t]) EXCEPT !.at = "sent", !.kind = "login"])
  /\ KeepsSessions /\ UNCHANGED <<now, fresh, jar, begun, plan>>

CleanupExpiredSessions ==
  /\ \E s \in sessions : opened[s].expires < now
  /\ sessions' = {s \in sessions : opened[s].expires >= now}
  /\ UNCHANGED <<now, fresh, jar, tabs, opened, begun, ended, plan, faults>>

-----------------------------------------------------------------------------
(* A browser is signed in already, and has a page open in every tab.       *)
InitSessions ==
  /\ now = 0 /\ fresh = 3
  /\ opened = [s \in Tokens |-> [expires |-> IF s = 2 THEN Lifetime ELSE 0,
                                 hand |-> IF s = 2 THEN 1 ELSE None]]
  /\ begun = [h \in Tokens |-> IF h = 1 THEN SignedIn ELSE Nobody]
  /\ jar = [b \in Browsers |-> [c \in Cookies |->
               IF b = SignedIn /\ c = "session" THEN 2 ELSE None]]
  /\ sessions = {2} /\ ended = {}
  /\ tabs = [t \in Tabs |-> [IdleTab EXCEPT !.page = IF BrowserOf[t] = SignedIn THEN 2 ELSE None]]
  /\ plan \in Plans /\ faults = 0

SessionsNext ==
  \/ \E t \in Tabs : Send(t, "login") \/ SendCallback(t) \/ Send(t, "logout")
  \/ \E t, other \in Tabs : OpenElsewhere(t, other)
  \/ \E t \in Tabs : AnswerArrives(t) \/ LoginHandler(t) \/ RequireAuth(t) \/ RedirectToLogin(t)
  \/ \E t \in Tabs : CallbackRefused(t) \/ CallbackFails(t) \/ CreateWebSession(t)
  \/ \E t \in Tabs : LogoutHandler(t) \/ LogoutFails(t)
  \/ \E b \in Browsers, c \in Cookies : CookieExpires(b, c)
  \/ Tick \/ CleanupExpiredSessions

-----------------------------------------------------------------------------
(* Properties of sessions.                                                 *)

(* A browser is only ever signed in by a handshake that was begun in it,   *)
(* and no handshake opens two sessions, whatever tabs are open, reloaded   *)
(* or moved (state, nonce and verifier are single use, handlers.go:97).    *)
LoginIsOwn ==
  /\ \A b \in Browsers : jar[b]["session"] # None => begun[opened[jar[b]["session"]].hand] = b
  /\ \A s, r \in Tokens : opened[s].hand = opened[r].hand /\ opened[s].hand # None => s = r

(* "a logout [..] actually revokes access immediately" (migrate.go:193):   *)
(* once a session has been deleted, or is over, no request is let in by    *)
(* it, not even one that was sent before the cookie was cleared            *)
(* (middleware.go:26-42).                                                  *)
EndedSessionIsOut ==
  [][\A t \in Tabs : tabs[t].at = "sent" /\ tabs'[t].at = "let_in" =>
       LET s == tabs'[t].as IN s \notin ended /\ now < opened[s].expires]_sessionVars
=============================================================================
