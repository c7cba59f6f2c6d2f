-------------------------- MODULE WebAccessProofs --------------------------
(***************************************************************************)
(* Proofs about WebAccess for any tabs, browsers, requests to the webhook  *)
(* and workspaces: types, that browsers are signed in by their own         *)
(* handshakes only, that ended sessions are out, that keys change in the   *)
(* name of the session on the page, that a webhook request is decided as   *)
(* the keys were at some moment, and that Slack is named as it is saved.   *)
(***************************************************************************)
EXTENDS WebAccess, FiniteSetTheorems, TLAPS

Places == {"idle", "sent", "let_in", "listing", "naming", "answered"}
Kinds == {"page", "login", "callback", "logout", "create_key", "delete_key",
          "slack_authorize", "slack_callback"}
Values == UNION {[some -> Nat] : some \in SUBSET Cookies}
Tab == [at : Places, kind : Kinds, cookies : [Cookies -> Nat], url : Nat, page : Nat, as : Nat,
        sets : Values]

(* In what follows f, o and g stand for fresh, opened and begun: session s *)
(* was opened by a handshake of browser b, and handshake h was begun in b. *)
Own(f, o, g, b, s) == s # None => /\ s \in 1..(f - 1)
                                  /\ o[s].hand \in 1..(f - 1)
                                  /\ g[o[s].hand] = b
Began(f, g, b, h) == h # None => h \in 1..(f - 1) /\ g[h] = b

(* A cookie of browser b, in the browser, on its way to the service or on  *)
(* its way back.                                                           *)
CookieOK(f, o, g, b, c, v) ==
  /\ v \in 0..(f - 1)
  /\ c = "hand" => Began(f, g, b, v)
  /\ c = "session" => Own(f, o, g, b, v)

TabOK(f, o, g, b, k) ==
  /\ k \in Tab
  /\ k.url < f
  /\ \A c \in Cookies : CookieOK(f, o, g, b, c, k.cookies[c])
  /\ \A c \in DOMAIN k.sets : CookieOK(f, o, g, b, c, k.sets[c])
  /\ Own(f, o, g, b, k.as)
  /\ k.at \in {"let_in", "listing", "naming"} => k.as # None

(* No token has two meanings, and no handshake opens two sessions.         *)
TokensOK(f, o, g) ==
  /\ f \in 1..(MaxTokens + 1)
  /\ o \in [Tokens -> [expires : Nat, hand : Nat]]
  /\ g \in [Tokens -> Browsers \cup {SignedIn, Nobody}]
  /\ \A s \in Tokens : o[s].hand < f
  /\ \A s \in Tokens : s >= f => g[s] = Nobody /\ o[s].hand = None
  /\ \A s, r \in Tokens : o[s].hand = o[r].hand /\ o[s].hand # None => s = r

StoredOK ==
  /\ sessions \subseteq 1..(fresh - 1) /\ ended \subseteq 1..(fresh - 1)
  /\ keys \subseteq 1..(fresh - 1) /\ known \subseteq 0..(fresh - 1)
  /\ sessions \cap ended = {} /\ sessions \cap keys = {}
  /\ \A s \in sessions \cup keys : begun[s] = Nobody

SInv ==
  /\ now \in 0..MaxTime
  /\ TokensOK(fresh, opened, begun)
  /\ StoredOK
  /\ jar \in [Browsers -> [Cookies -> Nat]]
  /\ \A b \in Browsers, c \in Cookies : CookieOK(fresh, opened, begun, b, c, jar[b][c])
  /\ tabs \in [Tabs -> Tab]
  /\ \A t \in Tabs : TabOK(fresh, opened, begun, BrowserOf[t], tabs[t])
  /\ token \in Workspaces \cup {Blank} /\ team \in Workspaces \cup {Blank}

(* As long as nothing has gone wrong one callback at most is between its   *)
(* two statements, it is saving the workspace of the token, and without    *)
(* one the name is that workspace's.                                       *)
SlackOK ==
  /\ connecting \in [Tabs -> Workspaces \cup {Blank}]
  /\ faults \in Nat
  /\ ~overlapped /\ faults = 0 =>
       /\ \A t, o \in Tabs : tabs[t].at = "naming" /\ tabs[o].at = "naming" => t = o
       /\ \A t \in Tabs : tabs[t].at = "naming" => connecting[t] = token
       /\ token \notin Unnamed /\ (\A t \in Tabs : tabs[t].at # "naming") => team = token

(* A request to the webhook that is being handled has met the table as it  *)
(* is now.  One that asks for the number of keys was not authenticated by  *)
(* any, and cannot be by a later one.                                      *)
Hook == [at : {"idle", "lookup", "count", "admitted", "refused"}, key : Int,
         could : SUBSET {"admitted", "refused"}]
CalledFor(br, ks, key) ==    \* Decision, with br for bearer
  IF (br /\ key = Static) \/ key \in ks \/ (~br /\ ks = {}) THEN "admitted" ELSE "refused"
HookOK(h, br, ks, f) ==
  /\ h \in Hook
  /\ Open(h) => CalledFor(br, ks, h.key) \in h.could /\ h.key \in (-1)..(f - 1)
  /\ h.at = "lookup" /\ br => h.key # Static
  /\ h.at = "count" => ~br /\ h.key \notin ks

HooksOK ==
  /\ bearer \in BOOLEAN /\ hookFaults \in Nat
  /\ hooks \in [Senders -> Hook]
  /\ \A s \in Senders : HookOK(hooks[s], bearer, keys, fresh)

-----------------------------------------------------------------------------
(* Tabs.                                                                   *)

LEMMA ValuesType ==
  /\ NoChange \in Values /\ DOMAIN NoChange = {}
  /\ \A c \in Cookies, v \in Nat : /\ Sets(c, v) \in Values /\ DOMAIN Sets(c, v) = {c}
                                   /\ Sets(c, v)[c] = v
<1>1. NoChange \in [{} -> Nat] /\ {} \in SUBSET Cookies /\ DOMAIN NoChange = {}
  BY DEF NoChange
<1>2. ASSUME NEW c \in Cookies, NEW v \in Nat
      PROVE  Sets(c, v) \in [{c} -> Nat] /\ {c} \in SUBSET Cookies /\ Sets(c, v)[c] = v
  BY DEF Sets
<1> QED BY <1>1, <1>2 DEF Values

(* The tab that is left when a request is done.                            *)
LEMMA RestedFields ==
  ASSUME NEW k, k.url \in Nat, k.page \in Nat
  PROVE  LET n == Rested(k) IN
         /\ n \in Tab /\ n.at = "idle" /\ n.kind = "page" /\ n.url = k.url /\ n.page = k.page
         /\ n.as = None /\ n.sets = NoChange /\ \A c \in Cookies : n.cookies[c] = None
<1> DEFINE i == IdleTab
           n == [i EXCEPT !.url = k.url, !.page = k.page]
<1>1. /\ i.at = "idle" /\ i.kind = "page" /\ i.as = None /\ i.sets = NoChange
      /\ i.cookies = [c \in Cookies |-> None]
  BY DEF IdleTab
<1>2. [c \in Cookies |-> None] \in [Cookies -> Nat]
  BY DEF None
<1>3. i \in Tab
  BY <1>2, ValuesType DEF IdleTab, Tab, Places, Kinds, None
<1>4. n = Rested(k)
  BY DEF Rested
<1> HIDE DEF i
<1>5. /\ n \in Tab /\ n.at = i.at /\ n.kind = i.kind /\ n.url = k.url /\ n.page = k.page
      /\ n.as = i.as /\ n.sets = i.sets /\ n.cookies = i.cookies
  BY <1>3 DEF Tab
<1> HIDE DEF n
<1>6. \A c \in Cookies : n.cookies[c] = None
  BY <1>1, <1>5
<1> QED BY <1>1, <1>4, <1>5, <1>6

(* An answer that sets some cookies, and possibly an address to go to.     *)
LEMMA AnsweredFields ==
  ASSUME NEW k, k.url \in Nat, k.page \in Nat, NEW set \in Values
  PROVE  LET n == Answered(k, set) IN
         /\ n \in Tab /\ n.at = "answered" /\ n.url = k.url /\ n.page = k.page
         /\ n.as = None /\ n.sets = set /\ \A c \in Cookies : n.cookies[c] = None
<1> DEFINE r == Rested(k)
           n == [r EXCEPT !.at = "answered", !.sets = set]
<1>1. /\ r \in Tab /\ r.url = k.url /\ r.page = k.page
      /\ r.as = None /\ \A c \in Cookies : r.cookies[c] = None
  BY RestedFields
<1>2. n = Answered(k, set)
  BY DEF Answered
<1> HIDE DEF r
<1>3. /\ n \in Tab /\ n.at = "answered" /\ n.url = r.url /\ n.page = r.page
      /\ n.as = r.as /\ n.sets = set /\ n.cookies = r.cookies
  BY <1>1 DEF Tab, Places
<1> HIDE DEF n
<1> QED BY <1>1, <1>2, <1>3

LEMMA MovedFields ==
  ASSUME NEW k, k.url \in Nat, k.page \in Nat, NEW set \in Values, NEW u \in Nat
  PROVE  LET n == [Answered(k, set) EXCEPT !.url = u] IN
         /\ n \in Tab /\ n.at = "answered" /\ n.url = u /\ n.page = k.page
         /\ n.as = None /\ n.sets = set /\ \A c \in Cookies : n.cookies[c] = None
<1> DEFINE n == Answered(k, set)
           m == [n EXCEPT !.url = u]
<1>1. /\ n \in Tab /\ n.at = "answered" /\ n.url = k.url /\ n.page = k.page
      /\ n.as = None /\ n.sets = set /\ \A c \in Cookies : n.cookies[c] = None
  BY AnsweredFields
<1> HIDE DEF n
<1>2. /\ m \in Tab /\ m.at = n.at /\ m.url = u /\ m.page = n.page
      /\ m.as = n.as /\ m.sets = n.sets /\ m.cookies = n.cookies
  BY <1>1 DEF Tab
<1> HIDE DEF m
<1>3. /\ m \in Tab /\ m.at = "answered" /\ m.url = u /\ m.page = k.page
      /\ m.as = None /\ m.sets = set /\ \A c \in Cookies : m.cookies[c] = None
  BY <1>1, <1>2
<1> QED BY <1>3 DEF m, n

(* Tokens that are drawn later change nothing about the earlier ones.      *)
Grows(f, o, g, f2, o2, g2) ==
  /\ f \in Nat /\ f2 \in Nat /\ f <= f2
  /\ \A s \in 1..(f - 1) : o2[s] = o[s] /\ g2[s] = g[s]

LEMMA GrowsCookie ==
  ASSUME NEW f, NEW o, NEW g, NEW f2, NEW o2, NEW g2, Grows(f, o, g, f2, o2, g2),
         NEW b, NEW c, NEW v, CookieOK(f, o, g, b, c, v)
  PROVE  CookieOK(f2, o2, g2, b, c, v)
BY DEF Grows, CookieOK, Own, Began

LEMMA GrowsTab ==
  ASSUME NEW f, NEW o, NEW g, NEW f2, NEW o2, NEW g2, Grows(f, o, g, f2, o2, g2),
         NEW b, NEW k, TabOK(f, o, g, b, k)
  PROVE  TabOK(f2, o2, g2, b, k)
<1>1. k.url < f2
  BY DEF TabOK, Grows, Tab
<1>2. Own(f2, o2, g2, b, k.as)
  BY DEF TabOK, Grows, Own
<1> QED BY <1>1, <1>2, GrowsCookie DEF TabOK

(* No cookie is always right.                                              *)
LEMMA NoneOK ==
  ASSUME NEW f \in Nat \ {0}, NEW o, NEW g, NEW b, NEW c
  PROVE  CookieOK(f, o, g, b, c, None) /\ Own(f, o, g, b, None)
BY DEF CookieOK, Own, Began, None

LEMMA RestedOK ==
  ASSUME NEW f \in Nat \ {0}, NEW o, NEW g, NEW b, NEW k, k.url \in 0..(f - 1), k.page \in Nat
  PROVE  TabOK(f, o, g, b, Rested(k))
<1> DEFINE n == Rested(k)
<1>1. /\ n \in Tab /\ n.at = "idle" /\ n.url = k.url
      /\ n.as = None /\ n.sets = NoChange /\ \A c \in Cookies : n.cookies[c] = None
  BY RestedFields
<1> HIDE DEF n
<1>2. DOMAIN n.sets = {}
  BY <1>1, ValuesType
<1> QED BY <1>1, <1>2, NoneOK DEF TabOK, n

LEMMA AnsweredOK ==
  ASSUME NEW f \in Nat \ {0}, NEW o, NEW g, NEW b, NEW k, k.url \in 0..(f - 1), k.page \in Nat,
         NEW set \in Values, \A c \in DOMAIN set : CookieOK(f, o, g, b, c, set[c]),
         NEW u \in 0..(f - 1)
  PROVE  /\ TabOK(f, o, g, b, Answered(k, set))
         /\ TabOK(f, o, g, b, [Answered(k, set) EXCEPT !.url = u])
<1> DEFINE n == Answered(k, set)
           m == [Answered(k, set) EXCEPT !.url = u]
<1>0. k.url \in Nat /\ u \in Nat
  OBVIOUS
<1>1. /\ n \in Tab /\ n.at = "answered" /\ n.url = k.url
      /\ n.as = None /\ n.sets = set /\ \A c \in Cookies : n.cookies[c] = None
  BY <1>0, AnsweredFields
<1>2. /\ m \in Tab /\ m.at = "answered" /\ m.url = u
      /\ m.as = None /\ m.sets = set /\ \A c \in Cookies : m.cookies[c] = None
  BY <1>0, MovedFields
<1> HIDE DEF n, m
<1>3. TabOK(f, o, g, b, n)
  BY <1>1, NoneOK DEF TabOK
<1>4. TabOK(f, o, g, b, m)
  BY <1>2, NoneOK DEF TabOK
<1> QED BY <1>3, <1>4 DEF n, m

(* Answers that clear a cookie.                                            *)
LEMMA ClearsOK ==
  ASSUME NEW f \in Nat \ {0}, NEW o, NEW g, NEW b, NEW k, k.url \in 0..(f - 1), k.page \in Nat,
         NEW c \in Cookies
  PROVE  TabOK(f, o, g, b, Answered(k, Sets(c, None)))
<1> DEFINE set == Sets(c, None)
<1>1. set \in Values /\ DOMAIN set = {c} /\ set[c] = None
  BY ValuesType DEF None
<1> HIDE DEF set
<1>2. \A d \in DOMAIN set : CookieOK(f, o, g, b, d, set[d])
  BY <1>1, NoneOK
<1> QED BY <1>1, <1>2, AnsweredOK DEF set

-----------------------------------------------------------------------------
(* Steps of one tab.                                                       *)

(* What SInv says of one tab.                                              *)
LEMMA TabFacts ==
  ASSUME SInv, NEW t \in Tabs
  PROVE  /\ TabOK(fresh, opened, begun, BrowserOf[t], tabs[t])
         /\ fresh \in Nat \ {0} /\ tabs[t] \in Tab
         /\ tabs[t].url \in 0..(fresh - 1) /\ tabs[t].page \in Nat /\ tabs[t].as \in Nat
         /\ BrowserOf[t] \in Browsers
<1>1. TabOK(fresh, opened, begun, BrowserOf[t], tabs[t]) /\ fresh \in 1..(MaxTokens + 1)
  BY DEF SInv, TokensOK
<1>2. MaxTokens \in Nat
  BY SessionsAssumption
<1>3. tabs[t] \in Tab /\ tabs[t].url < fresh
  BY <1>1 DEF TabOK
<1> HIDE DEF SInv
<1> QED BY <1>1, <1>2, <1>3 DEF Tab, Browsers

(* Nothing but tab t changes of what SInv is about.                        *)
Kept == UNCHANGED <<now, fresh, jar, opened, begun, sessions, ended, keys, known, token, team>>

LEMMA TabStep ==
  ASSUME SInv, NEW t \in Tabs, NEW n, Becomes(t, n),
         TabOK(fresh', opened', begun', BrowserOf[t], n),
         Grows(fresh, opened, begun, fresh', opened', begun'),
         TokensOK(fresh', opened', begun'), StoredOK', now' = now, jar' = jar,
         token' \in Workspaces \cup {Blank}, team' \in Workspaces \cup {Blank}
  PROVE  SInv'
<1>1. tabs' = [tabs EXCEPT ![t] = n] /\ n \in Tab
  BY DEF Becomes, TabOK
<1>2. tabs' \in [Tabs -> Tab]
  BY <1>1 DEF SInv
<1>3. ASSUME NEW s \in Tabs
      PROVE  TabOK(fresh', opened', begun', BrowserOf[s], tabs'[s])
  <2>1. TabOK(fresh, opened, begun, BrowserOf[s], tabs[s]) /\ DOMAIN tabs = Tabs
    BY DEF SInv
  <2>2. TabOK(fresh', opened', begun', BrowserOf[s], tabs[s])
    BY <2>1, GrowsTab
  <2> QED BY <1>1, <2>1, <2>2
<1>4. ASSUME NEW b \in Browsers, NEW c \in Cookies
      PROVE  CookieOK(fresh', opened', begun', b, c, jar'[b][c])
  BY GrowsCookie DEF SInv
<1> QED BY <1>2, <1>3, <1>4 DEF SInv

LEMMA LocalStep ==
  ASSUME SInv, NEW t \in Tabs, NEW n, Becomes(t, n), Kept,
         TabOK(fresh, opened, begun, BrowserOf[t], n)
  PROVE  SInv'
<1>1. Grows(fresh, opened, begun, fresh', opened', begun')
  BY TabFacts DEF Kept, Grows
<1>2. StoredOK'
  BY DEF SInv, StoredOK, Kept
<1> QED BY <1>1, <1>2, TabStep DEF Kept, SInv

-----------------------------------------------------------------------------
(* The steps of browsers and of the service preserve SInv.                 *)

(* A request takes the cookies of its browser along.                       *)
LEMMA SendKeeps ==
  ASSUME SInv, NEW t \in Tabs, NEW kind \in Kinds, Send(t, kind), UNCHANGED <<hookVars, slackVars>>
  PROVE  SInv'
<1> DEFINE k == tabs[t]
           cs == jar[BrowserOf[t]]
           n == [k EXCEPT !.at = "sent", !.kind = kind, !.cookies = cs]
<1>1. k \in Tab /\ TabOK(fresh, opened, begun, BrowserOf[t], k) /\ BrowserOf[t] \in Browsers
  BY TabFacts
<1>2. cs \in [Cookies -> Nat]
      /\ \A c \in Cookies : CookieOK(fresh, opened, begun, BrowserOf[t], c, cs[c])
  BY <1>1 DEF SInv
<1>3. Becomes(t, n) /\ Kept
  BY DEF Send, KeepsSessions, Kept, hookVars, slackVars
<1> HIDE DEF k, cs
<1>4. /\ n \in Tab /\ n.at = "sent" /\ n.cookies = cs /\ n.url = k.url /\ n.as = k.as
      /\ n.sets = k.sets
  BY <1>1, <1>2 DEF Tab, Places
<1> HIDE DEF n
<1>5. TabOK(fresh, opened, begun, BrowserOf[t], n)
  BY <1>1, <1>2, <1>4 DEF TabOK
<1> QED BY <1>3, <1>5, LocalStep

LEMMA OpenElsewhereKeeps ==
  ASSUME SInv, NEW t \in Tabs, NEW other \in Tabs, OpenElsewhere(t, other),
         UNCHANGED <<hookVars, slackVars>>
  PROVE  SInv'
<1> DEFINE k == tabs[other]
           u == tabs[t].url
           n == [k EXCEPT !.url = u]
<1>1. k \in Tab /\ TabOK(fresh, opened, begun, BrowserOf[other], k)
  BY TabFacts
<1>2. u \in Nat /\ u < fresh
  BY TabFacts
<1>3. Becomes(other, n) /\ Kept
  BY DEF OpenElsewhere, KeepsSessions, Kept, hookVars, slackVars
<1> HIDE DEF k, u
<1>4. /\ n \in Tab /\ n.at = k.at /\ n.cookies = k.cookies /\ n.url = u /\ n.as = k.as
      /\ n.sets = k.sets
  BY <1>1, <1>2 DEF Tab
<1> HIDE DEF n
<1>5. TabOK(fresh, opened, begun, BrowserOf[other], n)
  BY <1>1, <1>2, <1>4 DEF TabOK
<1> QED BY <1>3, <1>5, LocalStep

(* The tab is idle again, and the browser has the cookies that were set.   *)
LEMMA AnswerArrivesKeeps ==
  ASSUME SInv, NEW t \in Tabs, AnswerArrives(t), UNCHANGED <<hookVars, slackVars>>
  PROVE  SInv'
<1> DEFINE set == tabs[t].sets
           me == BrowserOf[t]
           new == [c \in Cookies |-> IF c \in DOMAIN set THEN set[c] ELSE jar[me][c]]
           n == Rested(tabs[t])
<1>1. /\ TabOK(fresh, opened, begun, me, n) /\ me \in Browsers
      /\ \A c \in DOMAIN set : CookieOK(fresh, opened, begun, me, c, set[c])
      /\ fresh \in Nat \ {0}
  BY TabFacts, RestedOK DEF TabOK
<1>2. /\ jar \in [Browsers -> [Cookies -> Nat]]
      /\ \A b \in Browsers, c \in Cookies : CookieOK(fresh, opened, begun, b, c, jar[b][c])
  BY DEF SInv
<1>3. /\ jar' = [jar EXCEPT ![me] = new]
      /\ tabs' = [tabs EXCEPT ![t] = n]
      /\ UNCHANGED <<now, fresh, opened, begun, sessions, ended, keys, known, token, team>>
  BY DEF AnswerArrives, Becomes, KeepsSessions, hookVars, slackVars
<1> HIDE DEF n, set, me
<1>4. \A c \in Cookies : CookieOK(fresh, opened, begun, me, c, new[c])
  BY <1>1, <1>2
<1>5. new \in [Cookies -> Nat]
  BY <1>1, <1>4 DEF CookieOK
<1> HIDE DEF new
<1>6. /\ jar' \in [Browsers -> [Cookies -> Nat]]
      /\ \A b \in Browsers, c \in Cookies : CookieOK(fresh, opened, begun, b, c, jar'[b][c])
  BY <1>1, <1>2, <1>3, <1>4, <1>5
<1>7. /\ tabs' \in [Tabs -> Tab]
      /\ \A s \in Tabs : TabOK(fresh, opened, begun, BrowserOf[s], tabs'[s])
  BY <1>1, <1>3 DEF SInv, TabOK, me
<1>8. StoredOK'
  BY <1>3 DEF SInv, StoredOK
<1> QED BY <1>3, <1>6, <1>7, <1>8 DEF SInv

LEMMA CookieExpiresKeeps ==
  ASSUME SInv, NEW b \in Browsers, NEW c \in Cookies, CookieExpires(b, c),
         UNCHANGED <<hookVars, slackVars>>
  PROVE  SInv'
<1>1. /\ jar \in [Browsers -> [Cookies -> Nat]] /\ fresh \in Nat \ {0}
      /\ \A d \in Browsers, e \in Cookies : CookieOK(fresh, opened, begun, d, e, jar[d][e])
  BY SessionsAssumption DEF SInv, TokensOK
<1>2. /\ jar' = [jar EXCEPT ![b][c] = None]
      /\ UNCHANGED <<now, fresh, tabs, opened, begun, sessions, ended, keys, known, token, team>>
  BY DEF CookieExpires, KeepsSessions, hookVars, slackVars
<1>3. jar' \in [Browsers -> [Cookies -> Nat]]
  BY <1>1, <1>2 DEF None
<1>4. ASSUME NEW d \in Browsers, NEW e \in Cookies
      PROVE  CookieOK(fresh, opened, begun, d, e, jar'[d][e])
  <2>1. jar'[d][e] = None \/ jar'[d][e] = jar[d][e]
    BY <1>1, <1>2
  <2> QED BY <1>1, <2>1, NoneOK
<1>5. StoredOK'
  BY <1>2 DEF SInv, StoredOK
<1> QED BY <1>2, <1>3, <1>4, <1>5 DEF SInv

LEMMA TickKeeps ==
  ASSUME SInv, Tick, UNCHANGED <<hookVars, slackVars>>
  PROVE  SInv'
<1>1. now' \in 0..MaxTime
  BY SessionsAssumption DEF SInv, Tick
<1>2. UNCHANGED <<jar, fresh, tabs, opened, begun, sessions, ended, keys, known, token, team>>
  BY DEF Tick, KeepsSessions, hookVars, slackVars
<1>3. StoredOK'
  BY <1>2 DEF SInv, StoredOK
<1> QED BY <1>1, <1>2, <1>3 DEF SInv

LEMMA CleanupKeeps ==
  ASSUME SInv, CleanupExpiredSessions, UNCHANGED <<hookVars, slackVars>>
  PROVE  SInv'
<1>1. /\ UNCHANGED <<now, jar, fresh, tabs, opened, begun, ended, keys, known, token, team>>
      /\ sessions' \subseteq sessions
  BY DEF CleanupExpiredSessions, hookVars, slackVars
<1>2. StoredOK'
  BY <1>1 DEF SInv, StoredOK
<1> QED BY <1>1, <1>2 DEF SInv

(* A token that is drawn is a new one.                                     *)
LEMMA Drawn ==
  ASSUME SInv, Draw
  PROVE  /\ fresh \in Tokens /\ fresh' = fresh + 1 /\ fresh \in Nat \ {0}
         /\ begun[fresh] = Nobody
         /\ opened \in [Tokens -> [expires : Nat, hand : Nat]]
         /\ begun \in [Tokens -> Browsers \cup {SignedIn, Nobody}]
<1>1. fresh \in Tokens /\ fresh' = fresh + 1 /\ fresh \in Nat \ {0}
  BY SessionsAssumption DEF SInv, TokensOK, Draw, Tokens
<1> QED BY <1>1 DEF SInv, TokensOK

LEMMA LoginHandlerKeeps ==
  ASSUME SInv, NEW t \in Tabs, LoginHandler(t), UNCHANGED <<hookVars, slackVars>>
  PROVE  SInv'
<1> DEFINE set == Sets("hand", fresh)
           n == [Answered(tabs[t], set) EXCEPT !.url = fresh]
           b == BrowserOf[t]
<1>1. /\ fresh \in Tokens /\ fresh' = fresh + 1 /\ fresh \in Nat \ {0}
      /\ begun \in [Tokens -> Browsers \cup {SignedIn, Nobody}]
  BY Drawn DEF LoginHandler
<1>2. /\ begun' = [begun EXCEPT ![fresh] = b] /\ Becomes(t, n)
      /\ UNCHANGED <<now, jar, opened, sessions, ended, keys, known, token, team>>
  BY DEF LoginHandler, KeepsSessions, hookVars, slackVars
<1>3. b \in Browsers /\ tabs[t].url \in 0..fresh /\ tabs[t].page \in Nat
  BY TabFacts
<1> HIDE DEF b
<1>4. Grows(fresh, opened, begun, fresh', opened', begun')
  BY <1>1, <1>2 DEF Grows, Tokens
<1>5. TokensOK(fresh', opened', begun')
  <2>1. fresh' \in 1..(MaxTokens + 1) /\ begun' \in [Tokens -> Browsers \cup {SignedIn, Nobody}]
    BY <1>1, <1>2, <1>3, SessionsAssumption DEF Tokens
  <2>2. \A s \in Tokens : s >= fresh' => begun'[s] = Nobody /\ opened[s].hand = None
    BY <1>1, <1>2 DEF SInv, TokensOK, Tokens
  <2>3. \A s \in Tokens : opened[s].hand < fresh' /\ opened[s].hand \in Nat
    BY <1>1 DEF SInv, TokensOK
  <2> QED BY <2>1, <2>2, <2>3, <1>2 DEF SInv, TokensOK
<1>6. StoredOK'
  <2>1. \A s \in sessions \cup keys : begun'[s] = begun[s]
    BY <1>1, <1>2 DEF SInv, StoredOK
  <2>2. /\ sessions \subseteq 1..(fresh' - 1) /\ ended \subseteq 1..(fresh' - 1)
        /\ keys \subseteq 1..(fresh' - 1) /\ known \subseteq 0..(fresh' - 1)
    BY <1>1 DEF SInv, StoredOK
  <2> QED BY <1>2, <2>1, <2>2 DEF SInv, StoredOK
<1>7. set \in Values /\ DOMAIN set = {"hand"} /\ set["hand"] = fresh
  BY <1>1, ValuesType DEF Cookies
<1>8. CookieOK(fresh', opened', begun', b, "hand", fresh)
  BY <1>1, <1>2 DEF CookieOK, Began, Tokens
<1> HIDE DEF set
<1>9. TabOK(fresh', opened', begun', b, n)
  <2>1. \A c \in DOMAIN set : CookieOK(fresh', opened', begun', b, c, set[c])
    BY <1>7, <1>8
  <2>2. /\ fresh' \in Nat \ {0} /\ fresh \in 0..(fresh' - 1) /\ tabs[t].url \in 0..(fresh' - 1)
    BY <1>1, <1>3
  <2> QED BY <2>1, <2>2, <1>3, <1>7, AnsweredOK
<1> HIDE DEF n
<1> QED BY <1>2, <1>4, <1>5, <1>6, <1>9, TabStep DEF SInv, b

LEMMA CallbackRefusedKeeps ==
  ASSUME SInv, NEW t \in Tabs, CallbackRefused(t) \/ CallbackFails(t),
         UNCHANGED <<hookVars, slackVars>>
  PROVE  SInv'
<1>1. Becomes(t, Answered(tabs[t], Sets("hand", None))) /\ Kept
  BY DEF CallbackRefused, CallbackFails, Answer, Cleared, KeepsSessions, Kept, hookVars, slackVars
<1>2. TabOK(fresh, opened, begun, BrowserOf[t], Answered(tabs[t], Sets("hand", None)))
  BY TabFacts, ClearsOK DEF Cookies
<1> QED BY <1>1, <1>2, LocalStep

LEMMA CreateWebSessionKeeps ==
  ASSUME SInv, NEW t \in Tabs, CreateWebSession(t), UNCHANGED <<hookVars, slackVars>>
  PROVE  SInv'
<1> DEFINE set == [c \in {"hand", "session"} |-> IF c = "hand" THEN None ELSE fresh]
           n == Answered(tabs[t], set)
           b == BrowserOf[t]
           h == tabs[t].url
           row == [expires |-> now + Lifetime, hand |-> h]
<1>1. /\ fresh \in Tokens /\ fresh' = fresh + 1 /\ fresh \in Nat \ {0}
      /\ begun[fresh] = Nobody
      /\ opened \in [Tokens -> [expires : Nat, hand : Nat]]
  BY Drawn DEF CreateWebSession
<1>2. /\ opened' = [opened EXCEPT ![fresh] = row] /\ Becomes(t, n)
      /\ sessions' = sessions \cup {fresh}
      /\ UNCHANGED <<now, jar, begun, ended, keys, known, token, team>>
  BY DEF CreateWebSession, Answer, hookVars, slackVars
<1>3. b \in Browsers /\ h \in 0..(fresh - 1) /\ tabs[t].page \in Nat
  BY TabFacts
<1>4. h \in 1..(fresh - 1) /\ begun[h] = b
  <2>1. tabs[t].cookies["hand"] = h /\ h # None
    BY DEF CreateWebSession, HandshakeMatches
  <2>2. CookieOK(fresh, opened, begun, b, "hand", tabs[t].cookies["hand"])
    BY TabFacts DEF TabOK, Cookies
  <2> QED BY <2>1, <2>2 DEF CookieOK, Began
<1>5. \A s \in Tokens : opened[s].hand # h
  BY DEF CreateWebSession, CodeUsed
<1>6. row \in [expires : Nat, hand : Nat] /\ row.hand = h
  <2>1. now + Lifetime \in Nat
    BY SessionsAssumption DEF SInv
  <2> QED BY <2>1, <1>3
<1> HIDE DEF b, h, row
<1>7. Grows(fresh, opened, begun, fresh', opened', begun')
  BY <1>1, <1>2 DEF Grows, Tokens
<1>8. TokensOK(fresh', opened', begun')
  <2>1. fresh' \in 1..(MaxTokens + 1) /\ opened' \in [Tokens -> [expires : Nat, hand : Nat]]
    BY <1>1, <1>2, <1>6, SessionsAssumption DEF Tokens
  <2>2. \A s \in Tokens : opened'[s].hand = IF s = fresh THEN h ELSE opened[s].hand
    BY <1>1, <1>2, <1>6
  <2>3. \A s \in Tokens : s >= fresh' => begun[s] = Nobody /\ opened'[s].hand = None
    BY <1>1, <2>2 DEF SInv, TokensOK, Tokens
  <2>4. \A s \in Tokens : opened'[s].hand < fresh'
    BY <1>1, <1>4, <2>2 DEF SInv, TokensOK
  <2>5. \A s, r \in Tokens : opened'[s].hand = opened'[r].hand /\ opened'[s].hand # None => s = r
    BY <1>5, <2>2 DEF SInv, TokensOK
  <2> QED BY <2>1, <2>3, <2>4, <2>5, <1>2 DEF SInv, TokensOK
<1>9. StoredOK'
  <2>1. /\ sessions' \subseteq 1..(fresh' - 1) /\ ended \subseteq 1..(fresh' - 1)
        /\ keys \subseteq 1..(fresh' - 1) /\ known \subseteq 0..(fresh' - 1)
        /\ fresh \notin ended /\ fresh \notin keys
    BY <1>1, <1>2 DEF SInv, StoredOK
  <2> QED BY <1>1, <1>2, <2>1 DEF SInv, StoredOK
<1>10. CookieOK(fresh', opened', begun', b, "session", fresh)
  <2>1. fresh \in 1..(fresh' - 1) /\ opened'[fresh].hand = h /\ h \in 1..(fresh' - 1)
    BY <1>1, <1>2, <1>4, <1>6
  <2> QED BY <2>1, <1>1, <1>2, <1>4 DEF CookieOK, Own
<1>11. set \in Values
  <2>1. set \in [{"hand", "session"} -> Nat] /\ {"hand", "session"} \in SUBSET Cookies
    BY <1>1 DEF Cookies, None
  <2> QED BY <2>1 DEF Values
<1>12. \A c \in DOMAIN set : CookieOK(fresh', opened', begun', b, c, set[c])
  <2>1. CookieOK(fresh', opened', begun', b, "hand", None)
    BY <1>1, NoneOK
  <2> QED BY <2>1, <1>10
<1> HIDE DEF set
<1>13. TabOK(fresh', opened', begun', b, n)
  <2>1. fresh' \in Nat \ {0} /\ tabs[t].url \in 0..(fresh' - 1)
    BY <1>1, <1>3 DEF h
  <2> QED BY <2>1, <1>3, <1>11, <1>12, AnsweredOK
<1> HIDE DEF n
<1> QED BY <1>2, <1>7, <1>8, <1>9, <1>13, TabStep DEF SInv, b

LEMMA LogoutKeeps ==
  ASSUME SInv, NEW t \in Tabs, LogoutHandler(t) \/ LogoutFails(t),
         UNCHANGED <<hookVars, slackVars>>
  PROVE  SInv'
<1> DEFINE n == Answered(tabs[t], Sets("session", None))
           s == tabs[t].cookies["session"]
<1>1. TabOK(fresh, opened, begun, BrowserOf[t], n) /\ fresh \in Nat
  BY TabFacts, ClearsOK DEF Cookies
<1>2. Becomes(t, n) /\ UNCHANGED <<now, fresh, jar, opened, begun, keys, known, token, team>>
  BY DEF LogoutHandler, LogoutFails, Answer, KeepsSessions, hookVars, slackVars
<1>3. s # None => s \in 1..(fresh - 1)
  BY TabFacts DEF TabOK, Cookies, CookieOK, Own
<1>4. \/ sessions' = sessions \ {s} /\ ended' = ended \cup ({s} \ {None})
      \/ UNCHANGED <<sessions, ended>>
  BY DEF LogoutHandler, LogoutFails, KeepsSessions
<1> HIDE DEF s, n
<1>5. StoredOK'
  BY <1>2, <1>3, <1>4 DEF SInv, StoredOK
<1>6. Grows(fresh, opened, begun, fresh', opened', begun')
  BY <1>1, <1>2 DEF Grows
<1> QED BY <1>1, <1>2, <1>5, <1>6, TabStep DEF SInv

(* The session a request is let in by is the one of its cookies.           *)
LEMMA RequireAuthKeeps ==
  ASSUME SInv, NEW t \in Tabs, RequireAuth(t), UNCHANGED <<hookVars, slackVars>>
  PROVE  SInv'
<1> DEFINE k == tabs[t]
           s == tabs[t].cookies["session"]
           n == [k EXCEPT !.at = "let_in", !.as = s]
<1>1. k \in Tab /\ TabOK(fresh, opened, begun, BrowserOf[t], k)
  BY TabFacts
<1>2. s \in Nat /\ Own(fresh, opened, begun, BrowserOf[t], s)
  BY <1>1 DEF TabOK, CookieOK, Cookies
<1>3. s # None
  BY DEF RequireAuth, GetWebSession, SInv, StoredOK, None
<1>4. Becomes(t, n) /\ Kept
  BY DEF RequireAuth, KeepsSessions, Kept, hookVars, slackVars
<1> HIDE DEF k, s
<1>5. /\ n \in Tab /\ n.at = "let_in" /\ n.cookies = k.cookies /\ n.url = k.url /\ n.as = s
      /\ n.sets = k.sets
  BY <1>1, <1>2 DEF Tab, Places
<1> HIDE DEF n
<1>6. TabOK(fresh, opened, begun, BrowserOf[t], n)
  BY <1>1, <1>2, <1>3, <1>5 DEF TabOK
<1> QED BY <1>4, <1>6, LocalStep

LEMMA RedirectKeeps ==
  ASSUME SInv, NEW t \in Tabs, RedirectToLogin(t), UNCHANGED <<hookVars, slackVars>>
  PROVE  SInv'
<1> DEFINE k == Rested(tabs[t])
           n == [k EXCEPT !.at = "sent", !.kind = "login"]
<1>1. TabOK(fresh, opened, begun, BrowserOf[t], k)
  BY TabFacts, RestedOK
<1>2. Becomes(t, n) /\ Kept
  BY DEF RedirectToLogin, KeepsSessions, Kept, hookVars, slackVars
<1> HIDE DEF k
<1>3. /\ n \in Tab /\ n.at = "sent" /\ n.cookies = k.cookies /\ n.url = k.url /\ n.as = k.as
      /\ n.sets = k.sets
  BY <1>1 DEF TabOK, Tab, Places, Kinds
<1> HIDE DEF n
<1>4. TabOK(fresh, opened, begun, BrowserOf[t], n)
  BY <1>1, <1>3 DEF TabOK
<1> QED BY <1>2, <1>4, LocalStep

-----------------------------------------------------------------------------
(* So do those of the console.                                             *)

(* The tab that a request leaves when it is done, with what may have been  *)
(* changed of it before.                                                   *)
LEMMA DoneOK ==
  ASSUME SInv, NEW t \in Tabs
  PROVE  /\ TabOK(fresh, opened, begun, BrowserOf[t], Rested(tabs[t]))
         /\ TabOK(fresh, opened, begun, BrowserOf[t],
                   Rested([tabs[t] EXCEPT !.page = tabs[t].as]))
         /\ TabOK(fresh, opened, begun, BrowserOf[t], Rested([tabs[t] EXCEPT !.url = None]))
         /\ TabOK(fresh, opened, begun, BrowserOf[t],
                   Rested([tabs[t] EXCEPT !.page = tabs[t].as, !.url = None]))
<1> DEFINE k == tabs[t]
           k1 == [k EXCEPT !.page = k.as]
           k2 == [k EXCEPT !.url = None]
           k3 == [k EXCEPT !.page = k.as, !.url = None]
<1>1. /\ k \in Tab /\ k.url \in 0..(fresh - 1) /\ k.page \in Nat /\ k.as \in Nat
      /\ fresh \in Nat \ {0} /\ None \in 0..(fresh - 1)
  BY TabFacts DEF None
<1> HIDE DEF k
<1>2. /\ k1.url = k.url /\ k1.page = k.as
      /\ k2.url = None /\ k2.page = k.page
      /\ k3.url = None /\ k3.page = k.as
  BY <1>1 DEF Tab
<1> HIDE DEF k1, k2, k3
<1>3. TabOK(fresh, opened, begun, BrowserOf[t], Rested(k))
  BY <1>1, RestedOK
<1>4. TabOK(fresh, opened, begun, BrowserOf[t], Rested(k1))
  BY <1>1, <1>2, RestedOK
<1>5. TabOK(fresh, opened, begun, BrowserOf[t], Rested(k2))
  BY <1>1, <1>2, RestedOK
<1>6. TabOK(fresh, opened, begun, BrowserOf[t], Rested(k3))
  BY <1>1, <1>2, RestedOK
<1> QED BY <1>3, <1>4, <1>5, <1>6 DEF k, k1, k2, k3

(* The handlers that store nothing.                                        *)
LEMMA RenderKeeps ==
  ASSUME SInv, NEW t \in Tabs,
         \/ RenderPage(t) \/ Forbidden(t) \/ StatementFails(t) \/ ListFails(t)
         \/ SlackCallbackRefused(t) \/ SlackCallbackFails(t)
  PROVE  SInv'
<1>1. Kept
  BY DEF RenderPage, Forbidden, StatementFails, ListFails, SlackCallbackRefused,
         SlackCallbackFails, KeepsWorld, KeepsSessions, Kept, hookVars, slackVars
<1>2. CASE RenderPage(t)
  BY <1>1, <1>2, DoneOK, LocalStep DEF RenderPage, Done
<1>3. CASE Forbidden(t) \/ StatementFails(t)
  BY <1>1, <1>3, DoneOK, LocalStep DEF Forbidden, StatementFails, Done
<1>4. CASE ListFails(t)
  BY <1>1, <1>4, DoneOK, LocalStep DEF ListFails, Done
<1>5. CASE SlackCallbackRefused(t) \/ SlackCallbackFails(t)
  <2>1. TabOK(fresh, opened, begun, BrowserOf[t], Answered(tabs[t], Sets("slack", None)))
    BY TabFacts, ClearsOK DEF Cookies
  <2> QED BY <1>1, <1>5, <2>1, LocalStep DEF SlackCallbackRefused, SlackCallbackFails, Answer
<1> QED BY <1>2, <1>3, <1>4, <1>5

(* A key is a token that is no session and no handshake.                   *)
LEMMA InsertKeyKeeps ==
  ASSUME SInv, NEW t \in Tabs, InsertKey(t)
  PROVE  SInv'
<1> DEFINE k == tabs[t]
           n == [k EXCEPT !.at = "listing", !.url = fresh]
<1>1. /\ fresh \in Tokens /\ fresh' = fresh + 1 /\ fresh \in Nat \ {0} /\ begun[fresh] = Nobody
  BY Drawn DEF InsertKey
<1>2. /\ keys' = keys \cup {fresh} /\ Becomes(t, n)
      /\ UNCHANGED <<now, jar, opened, begun, sessions, ended, known, token, team>>
  BY DEF InsertKey, CreateAPIKey, KeepsWorld, KeepsSessions, slackVars
<1>3. k \in Tab /\ TabOK(fresh, opened, begun, BrowserOf[t], k) /\ k.as # None
  BY TabFacts DEF InsertKey, CheckCSRF
<1>4. Grows(fresh, opened, begun, fresh', opened', begun')
  BY <1>1, <1>2 DEF Grows
<1>5. TokensOK(fresh', opened', begun')
  BY <1>1, <1>2, SessionsAssumption DEF SInv, TokensOK, Tokens
<1>6. StoredOK'
  <2>1. /\ sessions \subseteq 1..(fresh' - 1) /\ ended \subseteq 1..(fresh' - 1)
        /\ keys' \subseteq 1..(fresh' - 1) /\ known \subseteq 0..(fresh' - 1)
        /\ fresh \notin sessions
    BY <1>1, <1>2 DEF SInv, StoredOK
  <2> QED BY <1>1, <1>2, <2>1 DEF SInv, StoredOK
<1>7. TabOK(fresh', opened', begun', BrowserOf[t], k)
  BY <1>3, <1>4, GrowsTab
<1> HIDE DEF k
<1>8. /\ n \in Tab /\ n.cookies = k.cookies /\ n.url = fresh /\ n.as = k.as /\ n.sets = k.sets
  BY <1>1, <1>3 DEF Tab, Places
<1> HIDE DEF n
<1>9. TabOK(fresh', opened', begun', BrowserOf[t], n)
  BY <1>1, <1>3, <1>7, <1>8 DEF TabOK
<1> QED BY <1>2, <1>4, <1>5, <1>6, <1>9, TabStep DEF SInv

LEMMA ListKeysKeeps ==
  ASSUME SInv, NEW t \in Tabs, ListKeys(t)
  PROVE  SInv'
<1> DEFINE n == Rested([tabs[t] EXCEPT !.page = tabs[t].as, !.url = None])
<1>1. TabOK(fresh, opened, begun, BrowserOf[t], n) /\ tabs[t].url \in 0..(fresh - 1) /\ fresh \in Nat
  BY DoneOK, TabFacts
<1>2. /\ Becomes(t, n) /\ known' = known \cup {tabs[t].url}
      /\ UNCHANGED <<now, fresh, jar, opened, begun, sessions, ended, keys, token, team>>
  BY DEF ListKeys, Done, ShowAPIKey, KeepsWorld, KeepsSessions, slackVars
<1> HIDE DEF n
<1>3. StoredOK'
  BY <1>1, <1>2 DEF SInv, StoredOK
<1>4. Grows(fresh, opened, begun, fresh', opened', begun')
  BY <1>1, <1>2 DEF Grows
<1> QED BY <1>1, <1>2, <1>3, <1>4, TabStep DEF SInv

LEMMA DeleteKeyKeeps ==
  ASSUME SInv, NEW t \in Tabs, NEW key \in Tokens, DeleteKey(t, key)
  PROVE  SInv'
<1>1. TabOK(fresh, opened, begun, BrowserOf[t], Rested(tabs[t])) /\ fresh \in Nat
  BY DoneOK, TabFacts
<1>2. /\ Becomes(t, Rested(tabs[t])) /\ keys' = keys \ {key}
      /\ UNCHANGED <<now, fresh, jar, opened, begun, sessions, ended, known, token, team>>
  BY DEF DeleteKey, Done, DeleteAPIKey, KeepsWorld, KeepsSessions, slackVars
<1>3. StoredOK'
  BY <1>2 DEF SInv, StoredOK
<1>4. Grows(fresh, opened, begun, fresh', opened', begun')
  BY <1>1, <1>2 DEF Grows
<1> QED BY <1>1, <1>2, <1>3, <1>4, TabStep DEF SInv

LEMMA SlackAuthorizeKeeps ==
  ASSUME SInv, NEW t \in Tabs, SlackAuthorize(t)
  PROVE  SInv'
<1> DEFINE set == Sets("slack", fresh)
           n == [Answered(tabs[t], set) EXCEPT !.url = fresh]
<1>1. fresh \in Tokens /\ fresh' = fresh + 1 /\ fresh \in Nat \ {0}
  BY Drawn DEF SlackAuthorize
<1>2. /\ Becomes(t, n)
      /\ UNCHANGED <<now, jar, opened, begun, sessions, ended, keys, known, token, team>>
  BY DEF SlackAuthorize, KeepsWorld, KeepsSessions, hookVars, slackVars
<1>3. tabs[t].url \in 0..(fresh - 1) /\ tabs[t].page \in Nat
  BY TabFacts
<1>4. Grows(fresh, opened, begun, fresh', opened', begun')
  BY <1>1, <1>2 DEF Grows
<1>5. TokensOK(fresh', opened', begun')
  BY <1>1, <1>2, SessionsAssumption DEF SInv, TokensOK, Tokens
<1>6. StoredOK'
  BY <1>1, <1>2 DEF SInv, StoredOK
<1>7. set \in Values /\ DOMAIN set = {"slack"} /\ set["slack"] = fresh
  BY <1>1, ValuesType DEF Cookies
<1>8. CookieOK(fresh', opened', begun', BrowserOf[t], "slack", fresh)
  BY <1>1 DEF CookieOK
<1> HIDE DEF set
<1>9. TabOK(fresh', opened', begun', BrowserOf[t], n)
  <2>1. \A c \in DOMAIN set : CookieOK(fresh', opened', begun', BrowserOf[t], c, set[c])
    BY <1>7, <1>8
  <2>2. /\ fresh' \in Nat \ {0} /\ fresh \in 0..(fresh' - 1) /\ tabs[t].url \in 0..(fresh' - 1)
    BY <1>1, <1>3
  <2> QED BY <2>1, <2>2, <1>3, <1>7, AnsweredOK
<1> HIDE DEF n
<1> QED BY <1>2, <1>4, <1>5, <1>6, <1>9, TabStep DEF SInv

LEMMA SaveTokenKeeps ==
  ASSUME SInv, NEW t \in Tabs, NEW w \in Workspaces, SaveToken(t, w)
  PROVE  SInv'
<1> DEFINE k == tabs[t]
           n == [k EXCEPT !.at = "naming"]
<1>1. k \in Tab /\ TabOK(fresh, opened, begun, BrowserOf[t], k) /\ k.at = "let_in" /\ fresh \in Nat
  BY TabFacts DEF SaveToken, LetIn
<1>2. /\ Becomes(t, n) /\ token' = w
      /\ UNCHANGED <<now, fresh, jar, opened, begun, sessions, ended, keys, known, team>>
  BY DEF SaveToken, KeepsWorld, KeepsSessions, hookVars
<1> HIDE DEF k
<1>3. /\ n \in Tab /\ n.cookies = k.cookies /\ n.url = k.url /\ n.as = k.as /\ n.sets = k.sets
  BY <1>1 DEF Tab, Places
<1> HIDE DEF n
<1>4. TabOK(fresh, opened, begun, BrowserOf[t], n)
  BY <1>1, <1>3 DEF TabOK
<1>5. StoredOK'
  BY <1>2 DEF SInv, StoredOK
<1>6. Grows(fresh, opened, begun, fresh', opened', begun')
  BY <1>1, <1>2 DEF Grows
<1> QED BY <1>2, <1>4, <1>5, <1>6, TabStep DEF SInv

LEMMA SaveTeamKeeps ==
  ASSUME SInv, SlackOK, NEW t \in Tabs, SaveTeam(t)
  PROVE  SInv'
<1> DEFINE n == Answered(tabs[t], Sets("slack", None))
<1>1. TabOK(fresh, opened, begun, BrowserOf[t], n) /\ fresh \in Nat
  BY TabFacts, ClearsOK DEF Cookies
<1>2. /\ Becomes(t, n)
      /\ UNCHANGED <<now, fresh, jar, opened, begun, sessions, ended, keys, known, token>>
  BY DEF SaveTeam, Answer, KeepsWorld, KeepsSessions, hookVars
<1>3. team' \in Workspaces \cup {Blank}
  BY DEF SaveTeam, NewTeamName, SInv, SlackOK
<1> HIDE DEF n
<1>4. StoredOK'
  BY <1>2 DEF SInv, StoredOK
<1>5. Grows(fresh, opened, begun, fresh', opened', begun')
  BY <1>1, <1>2 DEF Grows
<1> QED BY <1>1, <1>2, <1>3, <1>4, <1>5, TabStep DEF SInv

(* Requests to the webhook change none of it.                              *)
LEMMA HooksKeep ==
  ASSUME SInv, HooksNext, UNCHANGED <<sessionVars, slackVars>>
  PROVE  SInv'
<1>1. UNCHANGED <<now, fresh, jar, tabs, opened, begun, sessions, ended, token, team>>
  BY DEF sessionVars, slackVars
<1>2. UNCHANGED <<keys, known>>
  BY DEF HooksNext, HookArrives, APIKeyExists, LookupFails, CountAPIKeys, CountFails, KeepsKeys
<1>3. StoredOK'
  BY <1>1, <1>2 DEF SInv, StoredOK
<1> QED BY <1>1, <1>2, <1>3 DEF SInv

LEMMA SInvInit ==
  ASSUME Init
  PROVE  SInv /\ SlackOK
<1> USE SessionsAssumption, SlackAssumption
<1>1. /\ now = 0 /\ fresh = 3 /\ sessions = {2} /\ ended = {} /\ keys = {} /\ known = {}
      /\ token = Connected /\ team = Connected /\ faults = 0
      /\ connecting = [t \in Tabs |-> Blank]
  BY DEF Init, InitSessions, InitHooks
<1>2. /\ opened \in [Tokens -> [expires : Nat, hand : Nat]]
      /\ \A s \in Tokens : opened[s].hand = IF s = 2 THEN 1 ELSE None
  BY DEF Init, InitSessions, None
<1>3. /\ begun \in [Tokens -> Browsers \cup {SignedIn, Nobody}]
      /\ \A h \in Tokens : begun[h] = IF h = 1 THEN SignedIn ELSE Nobody
  BY DEF Init, InitSessions
<1>4. 2 \in Tokens /\ 1 \in Tokens /\ opened[2].hand = 1 /\ begun[1] = SignedIn /\ begun[2] = Nobody
  BY <1>2, <1>3 DEF Tokens
<1>5. TokensOK(fresh, opened, begun)
  BY <1>1, <1>2, <1>3 DEF TokensOK, Tokens, None
<1>6. StoredOK
  BY <1>1, <1>4 DEF StoredOK
<1>7. Own(fresh, opened, begun, SignedIn, 2)
  BY <1>1, <1>4 DEF Own
<1>8. /\ jar \in [Browsers -> [Cookies -> Nat]]
      /\ \A b \in Browsers, c \in Cookies :
           jar[b][c] = IF b = SignedIn /\ c = "session" THEN 2 ELSE None
  BY DEF Init, InitSessions, None
<1>9. ASSUME NEW b \in Browsers, NEW c \in Cookies
      PROVE  CookieOK(fresh, opened, begun, b, c, jar[b][c])
  <2>1. CASE b = SignedIn /\ c = "session"
    BY <2>1, <1>1, <1>7, <1>8 DEF CookieOK
  <2>2. CASE ~(b = SignedIn /\ c = "session")
    BY <2>2, <1>1, <1>8, NoneOK
  <2> QED BY <2>1, <2>2
<1>10. ASSUME NEW t \in Tabs
       PROVE  TabOK(fresh, opened, begun, BrowserOf[t], tabs[t]) /\ tabs[t].at = "idle"
  <2> DEFINE p == IF BrowserOf[t] = SignedIn THEN 2 ELSE None
             i == IdleTab
             n == [i EXCEPT !.page = p]
  <2>1. tabs[t] = n
    BY DEF Init, InitSessions
  <2>2. /\ i.at = "idle" /\ i.url = None /\ i.as = None /\ i.sets = NoChange
        /\ i.cookies = [c \in Cookies |-> None]
    BY DEF IdleTab
  <2>3. [c \in Cookies |-> None] \in [Cookies -> Nat] /\ p \in Nat
    BY DEF None
  <2>4. i \in Tab
    BY <2>3, ValuesType DEF IdleTab, Tab, Places, Kinds, None
  <2> HIDE DEF i, p
  <2>5. /\ n \in Tab /\ n.at = i.at /\ n.url = i.url /\ n.as = i.as /\ n.sets = i.sets
        /\ n.cookies = i.cookies
    BY <2>3, <2>4 DEF Tab
  <2> HIDE DEF n
  <2>6. DOMAIN n.sets = {} /\ \A c \in Cookies : n.cookies[c] = None
    BY <2>2, <2>5, ValuesType
  <2>7. fresh \in Nat \ {0} /\ n.url < fresh
    BY <1>1, <2>2, <2>5 DEF None
  <2> QED BY <2>1, <2>2, <2>5, <2>6, <2>7, NoneOK DEF TabOK
<1>11. tabs \in [Tabs -> Tab]
  <2>1. DOMAIN tabs = Tabs /\ tabs = [t \in Tabs |-> tabs[t]]
    BY DEF Init, InitSessions
  <2> QED BY <2>1, <1>10 DEF TabOK
<1>12. SInv
  BY <1>1, <1>5, <1>6, <1>8, <1>9, <1>10, <1>11 DEF SInv
<1>13. SlackOK
  BY <1>1, <1>10 DEF SlackOK
<1> QED BY <1>12, <1>13

LEMMA SInvStep ==
  ASSUME SInv, SlackOK, [Next]_vars
  PROVE  SInv'
<1>1. CASE UNCHANGED vars
  BY <1>1 DEF SInv, StoredOK, vars, sessionVars, hookVars, slackVars
<1>2. CASE SessionsNext /\ UNCHANGED <<hookVars, slackVars>>
  <2>1. CASE \E t \in Tabs : Send(t, "login") \/ SendCallback(t) \/ Send(t, "logout")
    BY <1>2, <2>1, SendKeeps DEF SendCallback, Kinds
  <2>2. CASE \E t, other \in Tabs : OpenElsewhere(t, other)
    BY <1>2, <2>2, OpenElsewhereKeeps
  <2>3. CASE \E t \in Tabs : AnswerArrives(t) \/ LoginHandler(t) \/ RequireAuth(t) \/ RedirectToLogin(t)
    BY <1>2, <2>3, AnswerArrivesKeeps, LoginHandlerKeeps, RequireAuthKeeps, RedirectKeeps
  <2>4. CASE \E t \in Tabs : CallbackRefused(t) \/ CallbackFails(t) \/ CreateWebSession(t)
    BY <1>2, <2>4, CallbackRefusedKeeps, CreateWebSessionKeeps
  <2>5. CASE \E t \in Tabs : LogoutHandler(t) \/ LogoutFails(t)
    BY <1>2, <2>5, LogoutKeeps
  <2>6. CASE \E b \in Browsers, c \in Cookies : CookieExpires(b, c)
    BY <1>2, <2>6, CookieExpiresKeeps
  <2>7. CASE Tick \/ CleanupExpiredSessions
    BY <1>2, <2>7, TickKeeps, CleanupKeeps
  <2> QED BY <1>2, <2>1, <2>2, <2>3, <2>4, <2>5, <2>6, <2>7 DEF SessionsNext
<1>3. CASE \E t \in Tabs : ConsoleSends(t) /\ UNCHANGED <<hookVars, slackVars>>
  BY <1>3, SendKeeps DEF ConsoleSends, SendPost, SendSlackCallback, Kinds
<1>4. CASE \E t \in Tabs : Console(t)
  BY <1>4, RenderKeeps, InsertKeyKeeps, ListKeysKeeps, DeleteKeyKeeps, SlackAuthorizeKeeps,
     SaveTokenKeeps, SaveTeamKeeps DEF Console
<1>5. CASE HooksNext /\ UNCHANGED <<sessionVars, slackVars>>
  BY <1>5, HooksKeep
<1> QED BY <1>1, <1>2, <1>3, <1>4, <1>5 DEF Next

-----------------------------------------------------------------------------
(* Where a step takes a tab.                                               *)

LEMMA PlaceAfter ==
  /\ \A k : Rested(k).at = "idle" /\ [Rested(k) EXCEPT !.at = "sent", !.kind = "login"].at = "sent"
  /\ \A k, set : Answered(k, set).at = "answered"
  /\ \A k, set, u : [Answered(k, set) EXCEPT !.url = u].at = "answered"
<1>1. ASSUME NEW k, NEW set, NEW u
      PROVE  /\ Rested(k).at = "idle"
             /\ [Rested(k) EXCEPT !.at = "sent", !.kind = "login"].at = "sent"
             /\ Answered(k, set).at = "answered"
             /\ [Answered(k, set) EXCEPT !.url = u].at = "answered"
  BY DEF Answered, Rested, IdleTab
<1> QED BY <1>1

(* Only RequireAuth lets a request in, and only SaveToken and SaveTeam     *)
(* enter and leave the place between the statements of a Slack callback.   *)
Elsewhere(t) ==
  /\ DOMAIN tabs' = Tabs
  /\ tabs[t].at # "naming" /\ tabs'[t].at \notin {"naming", "let_in"}
  /\ \A o \in Tabs \ {t} : tabs'[o] = tabs[o]

LEMMA BecomesElsewhere ==
  ASSUME SInv, NEW t \in Tabs, NEW n, Becomes(t, n), tabs[t].at # "naming",
         n.at \notin {"naming", "let_in"}
  PROVE  Elsewhere(t)
BY DEF Becomes, Elsewhere, SInv

LEMMA SendElsewhere ==
  ASSUME SInv, NEW t \in Tabs, NEW kind, Send(t, kind)
  PROVE  Elsewhere(t)
<1> DEFINE k == tabs[t]
           cs == jar[BrowserOf[t]]
           n == [k EXCEPT !.at = "sent", !.kind = kind, !.cookies = cs]
<1>1. Becomes(t, n) /\ k.at = "idle" /\ k \in Tab
  BY TabFacts DEF Send
<1> HIDE DEF k, cs
<1>2. n.at = "sent"
  BY <1>1 DEF Tab
<1> HIDE DEF n
<1> QED BY <1>1, <1>2, BecomesElsewhere DEF k

LEMMA SessionsElsewhere ==
  ASSUME SInv, SessionsNext
  PROVE  \/ tabs' = tabs
         \/ \E t \in Tabs : Elsewhere(t) \/ RequireAuth(t)
<1>1. CASE \E t \in Tabs : Send(t, "login") \/ SendCallback(t) \/ Send(t, "logout")
  BY <1>1, SendElsewhere DEF SendCallback
<1>2. ASSUME NEW t \in Tabs, NEW other \in Tabs, OpenElsewhere(t, other)
      PROVE  Elsewhere(other)
  <2> DEFINE k == tabs[other]
             n == [k EXCEPT !.url = tabs[t].url]
  <2>1. Becomes(other, n) /\ k.at = "idle" /\ k \in Tab
    BY <1>2, TabFacts DEF OpenElsewhere
  <2> HIDE DEF k
  <2>2. n.at = k.at
    BY <2>1 DEF Tab
  <2> HIDE DEF n
  <2> QED BY <2>1, <2>2, BecomesElsewhere DEF k
<1>3. ASSUME NEW t \in Tabs,
             \/ AnswerArrives(t) \/ LoginHandler(t) \/ RedirectToLogin(t)
             \/ CallbackRefused(t) \/ CallbackFails(t) \/ CreateWebSession(t)
             \/ LogoutHandler(t) \/ LogoutFails(t)
      PROVE  Elsewhere(t)
  <2>1. CASE AnswerArrives(t)
    BY <2>1, PlaceAfter, BecomesElsewhere DEF AnswerArrives
  <2>2. CASE LoginHandler(t)
    BY <2>2, PlaceAfter, BecomesElsewhere DEF LoginHandler, Serving
  <2>3. CASE RedirectToLogin(t)
    BY <2>3, PlaceAfter, BecomesElsewhere DEF RedirectToLogin, Guarded
  <2>4. CASE CallbackRefused(t) \/ CallbackFails(t) \/ CreateWebSession(t)
    BY <2>4, PlaceAfter, BecomesElsewhere
       DEF CallbackRefused, CallbackFails, CreateWebSession, Serving, Answer
  <2>5. CASE LogoutHandler(t) \/ LogoutFails(t)
    BY <2>5, PlaceAfter, BecomesElsewhere DEF LogoutHandler, LogoutFails, Serving, Answer
  <2> QED BY <1>3, <2>1, <2>2, <2>3, <2>4, <2>5
<1>4. CASE \/ \E b \in Browsers, c \in Cookies : CookieExpires(b, c)
           \/ Tick \/ CleanupExpiredSessions
  BY <1>4 DEF CookieExpires, Tick, CleanupExpiredSessions
<1> QED BY <1>1, <1>2, <1>3, <1>4 DEF SessionsNext

LEMMA ConsoleElsewhere ==
  ASSUME SInv, NEW t \in Tabs, Console(t)
  PROVE  Elsewhere(t) \/ SaveTeam(t) \/ \E w \in Workspaces : SaveToken(t, w)
<1>1. CASE RenderPage(t) \/ Forbidden(t) \/ StatementFails(t)
  BY <1>1, PlaceAfter, BecomesElsewhere DEF RenderPage, Forbidden, StatementFails, LetIn, Done
<1>2. CASE InsertKey(t)
  <2> DEFINE k == tabs[t]
             n == [k EXCEPT !.at = "listing", !.url = fresh]
  <2>1. Becomes(t, n) /\ k.at = "let_in" /\ k \in Tab
    BY <1>2, TabFacts DEF InsertKey, LetIn
  <2> HIDE DEF k
  <2>2. n.at = "listing"
    BY <2>1 DEF Tab
  <2> HIDE DEF n
  <2> QED BY <2>1, <2>2, BecomesElsewhere DEF k
<1>3. CASE ListKeys(t) \/ ListFails(t)
  BY <1>3, PlaceAfter, BecomesElsewhere DEF ListKeys, ListFails, Done
<1>4. CASE \E key \in Tokens : DeleteKey(t, key)
  BY <1>4, PlaceAfter, BecomesElsewhere DEF DeleteKey, LetIn, Done
<1>5. CASE SlackAuthorize(t)
  BY <1>5, PlaceAfter, BecomesElsewhere DEF SlackAuthorize, LetIn
<1>6. CASE SlackCallbackRefused(t) \/ SlackCallbackFails(t)
  BY <1>6, PlaceAfter, BecomesElsewhere DEF SlackCallbackRefused, SlackCallbackFails, LetIn, Answer
<1> QED BY <1>1, <1>2, <1>3, <1>4, <1>5, <1>6 DEF Console

-----------------------------------------------------------------------------
(* The connection to Slack.                                                *)

LEMMA FaultsGrow ==
  ASSUME faults \in Nat, [Next]_vars
  PROVE  faults' \in Nat /\ (faults' = 0 => faults = 0)
<1>1. CASE SessionsNext
  <2>1. UNCHANGED faults \/ Fault
    BY <1>1 DEF SessionsNext, Send, SendCallback, OpenElsewhere, AnswerArrives, LoginHandler,
       RequireAuth, RedirectToLogin, CallbackRefused, CallbackFails, CreateWebSession,
       LogoutHandler, LogoutFails, CookieExpires, Tick, CleanupExpiredSessions, NoFault
  <2> QED BY <2>1 DEF Fault
<1>2. CASE \E t \in Tabs : ConsoleSends(t)
  BY <1>2 DEF ConsoleSends, SendPost, SendSlackCallback, Send
<1>3. CASE \E t \in Tabs : Console(t)
  <2>1. UNCHANGED faults \/ Fault
    BY <1>3 DEF Console, RenderPage, Forbidden, StatementFails, InsertKey, ListKeys, ListFails,
       DeleteKey, SlackAuthorize, SlackCallbackRefused, SlackCallbackFails, SaveToken, SaveTeam,
       NoFault
  <2> QED BY <2>1 DEF Fault
<1>4. CASE UNCHANGED faults
  BY <1>4
<1> QED BY <1>1, <1>2, <1>3, <1>4 DEF Next, vars, sessionVars

(* Nobody begins or ends to save a connection.                             *)
LEMMA SlackStill ==
  ASSUME SlackOK, UNCHANGED slackVars, faults' \in Nat, faults' = 0 => faults = 0,
         \A o \in Tabs : tabs'[o].at = "naming" <=> tabs[o].at = "naming"
  PROVE  SlackOK'
<1>1. UNCHANGED <<token, team, overlapped, connecting>>
  BY DEF slackVars
<1> QED BY <1>1 DEF SlackOK

LEMMA ElsewhereStill ==
  ASSUME SInv, \/ tabs' = tabs
               \/ \E t \in Tabs : Elsewhere(t) \/ RequireAuth(t)
  PROVE  \A o \in Tabs : tabs'[o].at = "naming" <=> tabs[o].at = "naming"
<1>1. CASE tabs' = tabs
  BY <1>1
<1>2. CASE \E t \in Tabs : Elsewhere(t)
  BY <1>2 DEF Elsewhere
<1>3. ASSUME NEW t \in Tabs, RequireAuth(t), NEW o \in Tabs
      PROVE  tabs'[o].at = "naming" <=> tabs[o].at = "naming"
  <2> DEFINE k == tabs[t]
             n == [k EXCEPT !.at = "let_in", !.as = k.cookies["session"]]
  <2>1. tabs' = [tabs EXCEPT ![t] = n] /\ k.at = "sent" /\ k \in Tab /\ DOMAIN tabs = Tabs
    BY <1>3, TabFacts DEF RequireAuth, Guarded, Becomes, SInv
  <2> HIDE DEF k
  <2>2. n.at = "let_in"
    BY <2>1 DEF Tab
  <2> HIDE DEF n
  <2> QED BY <2>1, <2>2 DEF k
<1> QED BY <1>1, <1>2, <1>3

LEMMA SaveTokenSlack ==
  ASSUME SInv, SlackOK, NEW t \in Tabs, NEW w \in Workspaces, SaveToken(t, w)
  PROVE  SlackOK'
<1> DEFINE k == tabs[t]
           n == [k EXCEPT !.at = "naming"]
<1>1. /\ tabs' = [tabs EXCEPT ![t] = n] /\ k \in Tab /\ tabs \in [Tabs -> Tab]
      /\ token' = w /\ connecting' = [connecting EXCEPT ![t] = w]
      /\ ~overlapped' => \A o \in Tabs : tabs[o].at # "naming"
      /\ faults' = faults
  BY TabFacts DEF SaveToken, Becomes, SInv, NoFault
<1> HIDE DEF k
<1>2. n.at = "naming"
  BY <1>1 DEF Tab
<1> HIDE DEF n
<1>3. connecting' \in [Tabs -> Workspaces \cup {Blank}] /\ connecting'[t] = w
  BY <1>1 DEF SlackOK
<1>4. tabs'[t].at = "naming" /\ \A o \in Tabs \ {t} : tabs'[o] = tabs[o]
  BY <1>1, <1>2
<1> QED BY <1>1, <1>3, <1>4 DEF SlackOK

LEMMA SaveTeamSlack ==
  ASSUME SInv, SlackOK, NEW t \in Tabs, SaveTeam(t)
  PROVE  SlackOK'
<1> DEFINE n == Answered(tabs[t], Sets("slack", None))
<1>1. /\ tabs' = [tabs EXCEPT ![t] = n] /\ tabs \in [Tabs -> Tab] /\ tabs[t].at = "naming"
      /\ connecting' = [connecting EXCEPT ![t] = Blank]
      /\ UNCHANGED <<token, overlapped>>
  BY DEF SaveTeam, Answer, Becomes, SInv
<1>2. n.at = "answered"
  BY PlaceAfter
<1> HIDE DEF n
<1>3. connecting' \in [Tabs -> Workspaces \cup {Blank}]
  BY <1>1 DEF SlackOK
<1>4. /\ faults' \in Nat
      /\ faults' = 0 => faults = 0 /\ team' = NewTeamName(connecting[t])
  BY DEF SaveTeam, SlackOK, NoFault, Fault
<1>5. tabs'[t].at # "naming" /\ \A o \in Tabs \ {t} : tabs'[o] = tabs[o]
  BY <1>1, <1>2
<1>6. ASSUME ~overlapped', faults' = 0
      PROVE  /\ \A o \in Tabs : tabs'[o].at # "naming"
             /\ token' \notin Unnamed => team' = token'
  <2>1. /\ \A o \in Tabs : tabs[o].at = "naming" => o = t
        /\ connecting[t] = token
    BY <1>1, <1>4, <1>6 DEF SlackOK
  <2> QED BY <1>1, <1>4, <1>5, <1>6, <2>1 DEF NewTeamName
<1> QED BY <1>3, <1>4, <1>6 DEF SlackOK

LEMMA SlackStep ==
  ASSUME SInv, SlackOK, [Next]_vars
  PROVE  SlackOK'
<1>1. faults' \in Nat /\ (faults' = 0 => faults = 0)
  BY FaultsGrow DEF SlackOK
<1>2. CASE UNCHANGED vars
  BY <1>2 DEF SlackOK, vars, sessionVars, slackVars
<1>3. CASE SessionsNext /\ UNCHANGED <<hookVars, slackVars>>
  BY <1>1, <1>3, SessionsElsewhere, ElsewhereStill, SlackStill
<1>4. CASE \E t \in Tabs : ConsoleSends(t) /\ UNCHANGED <<hookVars, slackVars>>
  <2>1. \E t \in Tabs : Elsewhere(t)
    BY <1>4, SendElsewhere DEF ConsoleSends, SendPost, SendSlackCallback
  <2> QED BY <1>1, <1>4, <2>1, ElsewhereStill, SlackStill
<1>5. ASSUME NEW t \in Tabs, Console(t)
      PROVE  SlackOK'
  <2>1. CASE SaveTeam(t) \/ \E w \in Workspaces : SaveToken(t, w)
    BY <2>1, SaveTeamSlack, SaveTokenSlack
  <2>2. CASE ~(SaveTeam(t) \/ \E w \in Workspaces : SaveToken(t, w))
    <3>1. Elsewhere(t)
      BY <1>5, <2>2, ConsoleElsewhere
    <3>2. UNCHANGED slackVars
      BY <1>5, <2>2 DEF Console, RenderPage, Forbidden, StatementFails, InsertKey, ListKeys,
         ListFails, DeleteKey, SlackAuthorize, SlackCallbackRefused, SlackCallbackFails
    <3> QED BY <1>1, <3>1, <3>2, ElsewhereStill, SlackStill
  <2> QED BY <2>1, <2>2
<1>6. CASE HooksNext /\ UNCHANGED <<sessionVars, slackVars>>
  BY <1>6 DEF SlackOK, sessionVars, slackVars
<1> QED BY <1>2, <1>3, <1>4, <1>5, <1>6 DEF Next

-----------------------------------------------------------------------------
(* Requests to the webhook.                                                *)

LEMMA FreshGrows ==
  ASSUME SInv, [Next]_vars
  PROVE  fresh \in Nat /\ fresh' \in Nat /\ fresh <= fresh'
<1>0. fresh \in Nat
  BY SessionsAssumption DEF SInv, TokensOK
<1>1. CASE SessionsNext
  <2>1. UNCHANGED fresh \/ Draw
    BY <1>1 DEF SessionsNext, Send, SendCallback, OpenElsewhere, AnswerArrives, LoginHandler,
       RequireAuth, RedirectToLogin, CallbackRefused, CallbackFails, CreateWebSession,
       LogoutHandler, LogoutFails, CookieExpires, Tick, CleanupExpiredSessions
  <2> QED BY <1>0, <2>1 DEF Draw
<1>2. CASE \E t \in Tabs : ConsoleSends(t)
  BY <1>0, <1>2 DEF ConsoleSends, SendPost, SendSlackCallback, Send
<1>3. CASE \E t \in Tabs : Console(t)
  <2>1. UNCHANGED fresh \/ Draw
    BY <1>3 DEF Console, RenderPage, Forbidden, StatementFails, InsertKey, ListKeys, ListFails,
       DeleteKey, SlackAuthorize, SlackCallbackRefused, SlackCallbackFails, SaveToken, SaveTeam
  <2> QED BY <1>0, <2>1 DEF Draw
<1>4. CASE UNCHANGED fresh
  BY <1>0, <1>4
<1> QED BY <1>1, <1>2, <1>3, <1>4 DEF Next, vars, sessionVars

LEMMA HooksStill ==
  ASSUME HooksOK, UNCHANGED <<bearer, keys, hooks, hookFaults>>,
         fresh \in Nat, fresh' \in Nat, fresh <= fresh'
  PROVE  HooksOK'
BY DEF HooksOK, HookOK

(* A key comes or goes, and every open request meets the new table.        *)
LEMMA MeetsOK ==
  ASSUME NEW br \in BOOLEAN, NEW h, NEW ks, NEW ks2, NEW f \in Nat, NEW f2 \in Nat, f <= f2,
         HookOK(h, br, ks, f), Open(h), ks2 \subseteq ks \cup {f}
  PROVE  LET n == [h EXCEPT !.could = @ \cup {CalledFor(br, ks2, h.key)}] IN
         HookOK(n, br, ks2, f2) /\ Open(n)
<1> DEFINE d == CalledFor(br, ks2, h.key)
           n == [h EXCEPT !.could = @ \cup {d}]
<1>1. h \in Hook /\ d \in {"admitted", "refused"}
  BY DEF HookOK, CalledFor
<1>2. n \in Hook /\ n.at = h.at /\ n.key = h.key /\ d \in n.could
  <2> HIDE DEF d
  <2> QED BY <1>1 DEF Hook
<1>3. h.key \in (-1)..(f - 1)
  BY DEF HookOK
<1>4. Open(n) /\ CalledFor(br, ks2, n.key) \in n.could
  BY <1>2 DEF Open
<1>5. n.at = "count" => ~br /\ n.key \notin ks2
  BY <1>2, <1>3 DEF HookOK
<1> HIDE DEF n, d
<1>6. n.key \in (-1)..(f2 - 1)
  BY <1>2, <1>3
<1>7. HookOK(n, br, ks2, f2) /\ Open(n)
  BY <1>2, <1>4, <1>5, <1>6 DEF HookOK
<1> QED BY <1>7 DEF n, d

LEMMA MeetsStep ==
  ASSUME HooksOK, hooks' = Meets(hooks, keys'), keys' \subseteq keys \cup {fresh},
         UNCHANGED <<bearer, hookFaults>>, fresh \in Nat, fresh' \in Nat, fresh <= fresh'
  PROVE  /\ HooksOK'
         /\ \A s \in Senders : Open(hooks'[s]) <=> Open(hooks[s])
<1> DEFINE ks == keys'
<1>1. ASSUME NEW s \in Senders
      PROVE  /\ HookOK(hooks'[s], bearer, ks, fresh')
             /\ Open(hooks'[s]) <=> Open(hooks[s])
  <2>1. HookOK(hooks[s], bearer, keys, fresh) /\ bearer \in BOOLEAN
    BY DEF HooksOK
  <2>2. CASE ~Open(hooks[s])
    <3>1. hooks'[s] = hooks[s]
      BY <2>2 DEF Meets
    <3> QED BY <2>1, <2>2, <3>1 DEF HookOK, Open
  <2>3. CASE Open(hooks[s])
    <3>1. hooks'[s] = [hooks[s] EXCEPT !.could = @ \cup {CalledFor(bearer, ks, hooks[s].key)}]
      BY <2>3 DEF Meets, Decision, CalledFor
    <3> HIDE DEF ks
    <3>2. HookOK(hooks'[s], bearer, ks, fresh') /\ Open(hooks'[s])
      BY <2>1, <2>3, <3>1, MeetsOK DEF ks
    <3> QED BY <2>3, <3>2
  <2> QED BY <2>2, <2>3
<1>2. hooks' \in [Senders -> Hook]
  <2>1. hooks' = [s \in Senders |-> hooks'[s]]
    BY DEF Meets
  <2> QED BY <1>1, <2>1 DEF HookOK
<1> QED BY <1>1, <1>2 DEF HooksOK

LEMMA HookStep ==
  ASSUME HooksOK, NEW s \in Senders, NEW n, hooks' = [hooks EXCEPT ![s] = n],
         HookOK(n, bearer, keys, fresh), UNCHANGED <<bearer, keys, fresh>>, hookFaults' \in Nat
  PROVE  HooksOK'
<1>1. hooks' \in [Senders -> Hook]
  BY DEF HooksOK, HookOK
<1>2. ASSUME NEW r \in Senders
      PROVE  HookOK(hooks'[r], bearer, keys, fresh)
  BY DEF HooksOK
<1> QED BY <1>1, <1>2 DEF HooksOK

LEMMA VerdictStep ==
  ASSUME HooksOK, NEW s \in Senders, NEW is \in {"admitted", "refused"}, Verdict(s, is),
         UNCHANGED <<bearer, keys, fresh>>, hookFaults' \in Nat
  PROVE  HooksOK' /\ hooks'[s].at = is /\ \A r \in Senders \ {s} : hooks'[r] = hooks[r]
<1> DEFINE i == IdleHook
           n == [i EXCEPT !.at = is]
<1>1. i \in Hook
  BY DEF IdleHook, Hook, Nobodys
<1>2. hooks' = [hooks EXCEPT ![s] = n] /\ hooks \in [Senders -> Hook]
  BY DEF Verdict, HooksOK
<1> HIDE DEF i
<1>3. n \in Hook /\ n.at = is
  BY <1>1 DEF Hook
<1> HIDE DEF n
<1>4. HookOK(n, bearer, keys, fresh)
  BY <1>3 DEF HookOK, Open
<1> QED BY <1>2, <1>3, <1>4, HookStep

(* What one request was told, if this step tells it.                       *)
Told(s) == Open(hooks[s]) /\ ~Open(hooks'[s]) =>
             \/ hooks'[s].at \in hooks[s].could
             \/ hooks'[s].at = "refused" /\ hookFaults' # hookFaults

LEMMA HookArrivesKeeps ==
  ASSUME SInv, HooksOK, NEW s \in Senders, NEW key \in known \cup {Nobodys, Static},
         HookArrives(s, key), UNCHANGED fresh
  PROVE  HooksOK' /\ \A r \in Senders : Told(r)
<1>1. UNCHANGED <<bearer, keys, hookFaults>> /\ hookFaults' \in Nat /\ ~Open(hooks[s])
  BY DEF HookArrives, KeepsKeys, HooksOK
<1>2. key \in (-1)..(fresh - 1) /\ key \in Int /\ fresh \in Nat \ {0} /\ Nobodys \notin keys
  BY SessionsAssumption DEF SInv, TokensOK, StoredOK, Nobodys, Static
<1>3. CASE \E is \in {"admitted", "refused"} : Verdict(s, is)
  BY <1>1, <1>3, VerdictStep DEF Told
<1>4. CASE /\ ~bearer \/ key \notin {Static, Nobodys}
           /\ hooks' = [hooks EXCEPT ![s] = [at |-> IF key = Nobodys THEN "count" ELSE "lookup",
                                             key |-> key, could |-> {Decision(keys, key)}]]
  <2> DEFINE a == IF key = Nobodys THEN "count" ELSE "lookup"
             d == Decision(keys, key)
             n == [at |-> a, key |-> key, could |-> {d}]
  <2>1. d = CalledFor(bearer, keys, key) /\ d \in {"admitted", "refused"}
    BY DEF Decision, CalledFor
  <2>2. a \in {"lookup", "count"}
    OBVIOUS
  <2>3. hooks' = [hooks EXCEPT ![s] = n]
    BY <1>4
  <2>4. a = "count" => ~bearer /\ key \notin keys
    BY <1>2, <1>4
  <2>5. a = "lookup" /\ bearer => key # Static
    BY <1>4
  <2> HIDE DEF a, d
  <2>6. n \in Hook /\ n.at = a /\ n.key = key /\ n.could = {d}
    BY <1>2, <2>1, <2>2 DEF Hook
  <2> HIDE DEF n
  <2>7. HookOK(n, bearer, keys, fresh)
    BY <1>2, <2>1, <2>4, <2>5, <2>6 DEF HookOK
  <2>8. \A r \in Senders \ {s} : hooks'[r] = hooks[r]
    BY <2>3 DEF HooksOK
  <2> QED BY <1>1, <2>3, <2>7, <2>8, HookStep DEF Told
<1> QED BY <1>3, <1>4 DEF HookArrives

LEMMA APIKeyExistsKeeps ==
  ASSUME HooksOK, NEW s \in Senders, APIKeyExists(s), UNCHANGED fresh
  PROVE  HooksOK' /\ \A r \in Senders : Told(r)
<1> DEFINE h == hooks[s]
           n == [h EXCEPT !.at = "count"]
<1>1. /\ UNCHANGED <<bearer, keys, hookFaults>> /\ hookFaults' \in Nat /\ h.at = "lookup"
      /\ HookOK(h, bearer, keys, fresh) /\ hooks \in [Senders -> Hook]
  BY DEF APIKeyExists, KeepsKeys, HooksOK
<1>2. CalledFor(bearer, keys, h.key) \in h.could /\ (bearer => h.key # Static)
  BY <1>1 DEF HookOK, Open
<1>3. CASE h.key \in keys /\ Verdict(s, "admitted")
  <2>1. "admitted" \in h.could
    BY <1>2, <1>3 DEF CalledFor
  <2> QED BY <1>1, <1>3, <2>1, VerdictStep DEF Told
<1>4. CASE h.key \notin keys /\ bearer /\ Verdict(s, "refused")
  <2>1. "refused" \in h.could
    BY <1>2, <1>4 DEF CalledFor
  <2> QED BY <1>1, <1>4, <2>1, VerdictStep DEF Told
<1>5. CASE h.key \notin keys /\ ~bearer /\ Asks(s, "count")
  <2>1. hooks' = [hooks EXCEPT ![s] = n]
    BY <1>5 DEF Asks
  <2>2. n \in Hook /\ n.at = "count" /\ n.key = h.key /\ n.could = h.could
    <3> HIDE DEF h
    <3> QED BY <1>1 DEF HookOK, Hook
  <2> HIDE DEF n
  <2>3. HookOK(n, bearer, keys, fresh) /\ Open(n)
    BY <1>1, <1>5, <2>2 DEF HookOK, Open
  <2>4. hooks'[s] = n /\ \A r \in Senders \ {s} : hooks'[r] = hooks[r]
    BY <1>1, <2>1
  <2> QED BY <1>1, <2>1, <2>3, <2>4, HookStep DEF Told
<1> QED BY <1>3, <1>4, <1>5 DEF APIKeyExists

LEMMA CountAPIKeysKeeps ==
  ASSUME SInv, HooksOK, NEW s \in Senders, CountAPIKeys(s), UNCHANGED fresh
  PROVE  HooksOK' /\ \A r \in Senders : Told(r)
<1> DEFINE h == hooks[s]
           is == IF Cardinality(keys) > 0 THEN "refused" ELSE "admitted"
<1>1. /\ UNCHANGED <<bearer, keys, hookFaults>> /\ hookFaults' \in Nat /\ h.at = "count"
      /\ HookOK(h, bearer, keys, fresh) /\ Verdict(s, is)
  BY DEF CountAPIKeys, KeepsKeys, HooksOK
<1>2. Cardinality(keys) > 0 <=> keys # {}
  <2>1. keys \subseteq 1..(fresh - 1) /\ fresh \in Nat
    BY SessionsAssumption DEF SInv, StoredOK, TokensOK
  <2>2. IsFiniteSet(1..(fresh - 1))
    BY <2>1, FS_Interval
  <2>3. IsFiniteSet(keys)
    BY <2>1, <2>2, FS_Subset
  <2>4. Cardinality(keys) \in Nat /\ (Cardinality(keys) = 0 <=> keys = {})
    BY <2>3, FS_CardinalityType, FS_EmptySet
  <2> QED BY <2>4
<1>3. ~bearer /\ h.key \notin keys /\ CalledFor(bearer, keys, h.key) \in h.could
  BY <1>1 DEF HookOK, Open
<1>4. is \in h.could
  BY <1>2, <1>3 DEF CalledFor
<1>5. is \in {"admitted", "refused"}
  OBVIOUS
<1> HIDE DEF is
<1> QED BY <1>1, <1>4, <1>5, VerdictStep DEF Told

LEMMA QueryFailsKeeps ==
  ASSUME HooksOK, NEW s \in Senders, LookupFails(s) \/ CountFails(s), UNCHANGED fresh
  PROVE  HooksOK' /\ \A r \in Senders : Told(r)
<1>1. /\ UNCHANGED <<bearer, keys>> /\ hookFaults' = hookFaults + 1 /\ hookFaults \in Nat
      /\ Verdict(s, "refused")
  BY DEF LookupFails, CountFails, HookFault, KeepsKeys, HooksOK
<1>2. hookFaults' \in Nat /\ hookFaults' # hookFaults
  BY <1>1
<1> QED BY <1>1, <1>2, VerdictStep DEF Told

LEMMA HooksStep ==
  ASSUME SInv, HooksOK, [Next]_vars
  PROVE  HooksOK' /\ \A r \in Senders : Told(r)
<1>1. fresh \in Nat /\ fresh' \in Nat /\ fresh <= fresh'
  BY FreshGrows
<1>2. ASSUME UNCHANGED <<bearer, keys, hooks, hookFaults>>
      PROVE  HooksOK' /\ \A r \in Senders : Told(r)
  BY <1>1, <1>2, HooksStill DEF Told
<1>3. CASE UNCHANGED hookVars
  BY <1>2, <1>3 DEF hookVars
<1>4. ASSUME NEW t \in Tabs, Console(t)
      PROVE  HooksOK' /\ \A r \in Senders : Told(r)
  <2>1. CASE InsertKey(t) \/ \E key \in Tokens : DeleteKey(t, key)
    <3>1. /\ hooks' = Meets(hooks, keys') /\ keys' \subseteq keys \cup {fresh}
          /\ UNCHANGED <<bearer, hookFaults>>
      BY <2>1 DEF InsertKey, DeleteKey, CreateAPIKey, DeleteAPIKey
    <3> QED BY <1>1, <3>1, MeetsStep DEF Told
  <2>2. CASE ListKeys(t)
    BY <1>2, <2>2 DEF ListKeys, ShowAPIKey
  <2>3. CASE ~(ListKeys(t) \/ InsertKey(t) \/ \E key \in Tokens : DeleteKey(t, key))
    <3>1. UNCHANGED hookVars
      BY <1>4, <2>3 DEF Console, RenderPage, Forbidden, StatementFails, ListFails, SlackAuthorize,
         SlackCallbackRefused, SlackCallbackFails, SaveToken, SaveTeam
    <3> QED BY <1>2, <3>1 DEF hookVars
  <2> QED BY <2>1, <2>2, <2>3
<1>5. CASE HooksNext /\ UNCHANGED <<sessionVars, slackVars>>
  <2>1. UNCHANGED fresh
    BY <1>5 DEF sessionVars
  <2> QED BY <1>5, <2>1, HookArrivesKeeps, APIKeyExistsKeeps, CountAPIKeysKeeps, QueryFailsKeeps
          DEF HooksNext
<1> QED BY <1>3, <1>4, <1>5 DEF Next, vars

-----------------------------------------------------------------------------
(* The theorems.                                                           *)

WInv == SInv /\ SlackOK /\ HooksOK

LEMMA WInvInit == Init => WInv
<1> SUFFICES ASSUME Init PROVE WInv
  OBVIOUS
<1>1. SInv /\ SlackOK
  BY SInvInit
<1>2. HooksOK
  <2> DEFINE i == IdleHook
  <2>1. i \in Hook /\ i.at = "idle"
    BY DEF IdleHook, Hook, Nobodys
  <2>2. /\ bearer \in BOOLEAN /\ hookFaults = 0
        /\ hooks = [s \in Senders |-> i]
    BY WebhookAssumption DEF Init, InitHooks
  <2> HIDE DEF i
  <2>3. HookOK(i, bearer, keys, fresh)
    BY <2>1 DEF HookOK, Open
  <2> QED BY <2>1, <2>2, <2>3 DEF HooksOK
<1> QED BY <1>1, <1>2 DEF WInv

LEMMA WInvStep == WInv /\ [Next]_vars => WInv'
BY SInvStep, SlackStep, HooksStep DEF WInv

(* What is stored and on its way is right in every state, however many     *)
(* tabs and browsers there are: cookies are those of their browser's own   *)
(* handshakes, no token is used for two things (randomToken), one Slack    *)
(* callback at a time names its workspace, and requests to the webhook     *)
(* have met the keys as they are.                                          *)
THEOREM WInvAlways == Spec => []WInv
<1>1. Init => WInv
  BY WInvInit
<1>2. WInv /\ [Next]_vars => WInv'
  BY WInvStep
<1> QED BY <1>1, <1>2, PTL DEF Spec

(* The variables keep their types, and a token is never both a session, a  *)
(* key and a handshake (randomToken, handlers.go).                         *)
THEOREM TypeCorrect == Spec => []TypeOK
<1>1. WInv => TypeOK
  <2> SUFFICES ASSUME WInv PROVE TypeOK
    OBVIOUS
  <2>1. SInv
    BY DEF WInv
  <2>2. now \in 0..MaxTime /\ fresh \in 1..(MaxTokens + 1)
    BY <2>1 DEF SInv, TokensOK
  <2>3. jar \in [Browsers -> [Cookies -> 0..(fresh - 1)]]
    BY <2>1 DEF SInv, CookieOK
  <2>4. ASSUME NEW t \in Tabs
        PROVE  /\ tabs[t].at \in {"idle", "sent", "let_in", "listing", "naming", "answered"}
               /\ tabs[t].url \in 0..(fresh - 1)
               /\ tabs[t].at \in {"let_in", "listing", "naming"} => tabs[t].as \in Tokens
    <3>1. tabs[t] \in Tab /\ tabs[t].url \in 0..(fresh - 1)
      BY <2>1, TabFacts
    <3>2. tabs[t].at \in {"let_in", "listing", "naming"} => tabs[t].as \in 1..(fresh - 1)
      BY <2>1, TabFacts DEF TabOK, Own
    <3> QED BY <2>2, <3>1, <3>2, SessionsAssumption DEF Tab, Places, Tokens
  <2>5. sessions \cap keys = {} /\ sessions \cap Handshakes = {} /\ keys \cap Handshakes = {}
    BY <2>1 DEF SInv, StoredOK, Handshakes
  <2>6. {token, team} \subseteq Workspaces \cup {Blank}
    BY <2>1 DEF SInv
  <2> QED BY <2>2, <2>3, <2>4, <2>5, <2>6 DEF TypeOK
<1> QED BY <1>1, WInvAlways, PTL

(* No browser is signed in by a handshake that was begun in another one,   *)
(* and no handshake opens two sessions, whatever tabs share the cookies    *)
(* and however their answers overtake each other (CallbackHandler,         *)
(* handlers.go).                                                           *)
THEOREM LoginIsOwnAlways == Spec => []LoginIsOwn
<1>1. WInv => LoginIsOwn
  <2> SUFFICES ASSUME WInv PROVE LoginIsOwn
    OBVIOUS
  <2>1. SInv
    BY DEF WInv
  <2>2. ASSUME NEW b \in Browsers, jar[b]["session"] # None
        PROVE  begun[opened[jar[b]["session"]].hand] = b
    <3>1. CookieOK(fresh, opened, begun, b, "session", jar[b]["session"])
      BY <2>1 DEF SInv, Cookies
    <3> QED BY <2>2, <3>1 DEF CookieOK, Own
  <2>3. \A s, r \in Tokens : opened[s].hand = opened[r].hand /\ opened[s].hand # None => s = r
    BY <2>1 DEF SInv, TokensOK
  <2> QED BY <2>2, <2>3 DEF LoginIsOwn
<1> QED BY <1>1, WInvAlways, PTL

(* A request is let in only by a session that no logout has deleted and    *)
(* that is not over at the moment RequireAuth reads it (middleware.go).    *)
THEOREM EndedSessionIsOutAlways == Spec => EndedSessionIsOut
<1> DEFINE Lets == \A t \in Tabs : tabs[t].at = "sent" /\ tabs'[t].at = "let_in" =>
                     LET s == tabs'[t].as IN s \notin ended /\ now < opened[s].expires
<1>1. WInv /\ [Next]_vars => [Lets]_sessionVars
  <2> SUFFICES ASSUME SInv, [Next]_vars, NEW t \in Tabs, tabs[t].at = "sent",
                      tabs'[t].at = "let_in"
               PROVE  tabs'[t].as \notin ended /\ now < opened[tabs'[t].as].expires
    BY DEF WInv
  <2>1. RequireAuth(t)
    <3>1. ASSUME NEW o \in Tabs, Elsewhere(o)
          PROVE  FALSE
      BY <3>1 DEF Elsewhere
    <3>2. ASSUME NEW o \in Tabs, RequireAuth(o)
          PROVE  o = t
      BY <3>2 DEF RequireAuth, Becomes, SInv
    <3>3. ASSUME NEW o \in Tabs, SaveTeam(o) \/ \E w \in Workspaces : SaveToken(o, w)
          PROVE  FALSE
      <4>1. tabs[o].at \in {"let_in", "naming"}
        BY <3>3 DEF SaveTeam, SaveToken, LetIn
      <4>2. \A r \in Tabs \ {o} : tabs'[r] = tabs[r]
        BY <3>3 DEF SaveTeam, SaveToken, Answer, Becomes, SInv
      <4> QED BY <4>1, <4>2
    <3>4. tabs' # tabs
      OBVIOUS
    <3>5. CASE SessionsNext
      BY <3>1, <3>2, <3>4, <3>5, SessionsElsewhere
    <3>6. CASE \E o \in Tabs : ConsoleSends(o)
      BY <3>1, <3>6, SendElsewhere DEF ConsoleSends, SendPost, SendSlackCallback
    <3>7. CASE \E o \in Tabs : Console(o)
      BY <3>1, <3>3, <3>7, ConsoleElsewhere
    <3> QED BY <3>4, <3>5, <3>6, <3>7 DEF Next, vars, sessionVars
  <2> DEFINE k == tabs[t]
             s == k.cookies["session"]
             n == [k EXCEPT !.at = "let_in", !.as = s]
  <2>2. /\ tabs' = [tabs EXCEPT ![t] = n] /\ tabs \in [Tabs -> Tab] /\ k \in Tab
        /\ s \in sessions /\ opened[s].expires > now
    BY <2>1 DEF RequireAuth, GetWebSession, Becomes, SInv
  <2> HIDE DEF k, s
  <2>3. n.as = s
    BY <2>2 DEF Tab
  <2> HIDE DEF n
  <2>4. tabs'[t].as = s
    BY <2>2, <2>3
  <2>5. s \notin ended
    BY <2>2 DEF SInv, StoredOK
  <2>6. s \in Tokens /\ now \in Nat
    BY <2>2, SessionsAssumption DEF SInv, StoredOK, TokensOK, Tokens
  <2>7. opened[s].expires \in Nat
    BY <2>6 DEF SInv, TokensOK
  <2> QED BY <2>2, <2>4, <2>5, <2>6, <2>7
<1> QED BY <1>1, WInvAlways, PTL DEF Spec, EndedSessionIsOut

(* A key is issued or deleted only by a request whose form shows the       *)
(* session it was let in by, a session of a sign-in of the same browser    *)
(* (CheckCSRF, middleware.go:88-103).                                      *)
THEOREM ActsAsShownAlways == Spec => ActsAsShown
<1>1. WInv /\ [Next]_vars =>
        [keys' # keys =>
           \E t \in Tabs : /\ tabs[t].at = "let_in" /\ tabs'[t].at # "let_in"
                           /\ tabs[t].page = tabs[t].as
                           /\ begun[opened[tabs[t].as].hand] = BrowserOf[t]]_vars
  <2> SUFFICES ASSUME SInv, Next, keys' # keys
               PROVE  \E t \in Tabs : /\ tabs[t].at = "let_in" /\ tabs'[t].at # "let_in"
                                      /\ tabs[t].page = tabs[t].as
                                      /\ begun[opened[tabs[t].as].hand] = BrowserOf[t]
    BY DEF WInv, vars, hookVars
  <2>1. PICK t \in Tabs : InsertKey(t) \/ \E key \in Tokens : DeleteKey(t, key)
    <3>1. ~HooksNext
      BY DEF HooksNext, HookArrives, APIKeyExists, LookupFails, CountAPIKeys, CountFails, KeepsKeys
    <3>2. \E t \in Tabs : Console(t)
      BY <3>1 DEF Next, hookVars
    <3> QED BY <3>2 DEF Console, RenderPage, Forbidden, StatementFails, ListKeys, ShowAPIKey,
            ListFails, SlackAuthorize, SlackCallbackRefused, SlackCallbackFails, SaveToken, SaveTeam,
            hookVars
  <2>2. tabs[t].at = "let_in" /\ tabs[t].as # None /\ tabs[t].page = tabs[t].as
    BY <2>1 DEF InsertKey, DeleteKey, LetIn, CheckCSRF
  <2>3. begun[opened[tabs[t].as].hand] = BrowserOf[t]
    BY <2>2, TabFacts DEF TabOK, Own
  <2>4. tabs'[t].at # "let_in"
    <3>1. ~SaveTeam(t) /\ ~\E w \in Workspaces : SaveToken(t, w)
      BY <2>1 DEF SaveTeam, SaveToken, InsertKey, DeleteKey, LetIn
    <3>2. Elsewhere(t)
      BY <2>1, <3>1, ConsoleElsewhere DEF Console
    <3> QED BY <3>2 DEF Elsewhere
  <2> QED BY <2>2, <2>3, <2>4
<1> QED BY <1>1, WInvAlways, PTL DEF Spec, ActsAsShown

(* The settings page names the workspace that alerts are posted to, unless *)
(* callbacks have overlapped, a statement has failed, or Slack does not    *)
(* tell the name (slackCallbackHandler, handlers.go:217-223).              *)
THEOREM SlackNamesItsWorkspaceAlways == Spec => []SlackNamesItsWorkspace
<1>1. WInv => SlackNamesItsWorkspace
  BY DEF WInv, SlackOK, SlackNamesItsWorkspace
<1> QED BY <1>1, WInvAlways, PTL

(* A request to the webhook is answered as the keys called for at some     *)
(* moment while it was handled, though its two queries see two states of   *)
(* the table; a failed query lets nobody in (checkWebhookAuth,             *)
(* handlers.go:246-288).                                                   *)
THEOREM WebhookDecisionAlways == Spec => WebhookDecision
<1>1. WInv /\ [Next]_vars =>
        [\A s \in Senders : Open(hooks[s]) /\ ~Open(hooks'[s]) =>
           \/ hooks'[s].at \in hooks[s].could
           \/ hooks'[s].at = "refused" /\ hookFaults' # hookFaults]_hookVars
  BY HooksStep DEF WInv, Told
<1> QED BY <1>1, WInvAlways, PTL DEF Spec, WebhookDecision
=============================================================================
