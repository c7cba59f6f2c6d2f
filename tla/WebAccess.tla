----------------------------- MODULE WebAccess -----------------------------
(***************************************************************************)
(* The web UI over its sessions and what it changes: the API keys that     *)
(* decide about webhook requests, and the connection to Slack.  Composes   *)
(* WebSessions and WebhookAuth with the handlers of                        *)
(* internal/http/webui.go and handlers.go that NewServer wraps in          *)
(* RequireAuth.                                                            *)
(*                                                                         *)
(* Between RequireAuth and the statement of a handler, and between two     *)
(* statements of one handler, the other tabs go on.  (The handlers for     *)
(* rules go the same way; what they write is in WorkflowRules.)            *)
(***************************************************************************)
EXTENDS WebSessions, WebhookAuth

CONSTANTS Workspaces,   \* Slack workspaces an admin may connect
          Connected,    \* the one that is connected at first, or Blank
          Unnamed       \* those whose name Slack does not tell

VARIABLES token,       \* providers: the workspace of slack / access_token
          team,        \* providers: slack / team_name
          exchanged,   \* Slack codes that were used
          overlapped,  \* two callbacks were saving at the same time
          connecting   \* the workspace each tab's callback is saving

slackVars == <<token, team, exchanged, overlapped, connecting>>
vars == <<sessionVars, hookVars, slackVars>>

Blank == "blank"

ASSUME SlackAssumption == Connected \in Workspaces \cup {Blank}

LetIn(t, kind) == tabs[t].at = "let_in" /\ tabs[t].kind = kind

(* Mutant of CheckCSRF: a session is enough.                               *)
CheckSession(t) == tabs[t].as # None

(* CheckCSRF: the token of the page that was posted is the session's.      *)
CheckCSRF(t) == tabs[t].as # None /\ tabs[t].page = tabs[t].as

KeepsWorld == KeepsSessions /\ UNCHANGED <<now, jar, begun, plan>>

-----------------------------------------------------------------------------
(* The console.                                                            *)

SendPost(t, kind) == tabs[t].page # None /\ Send(t, kind)

(* The pages that only read: dashboard, rules, forms, settings, API keys.  *)
RenderPage(t) ==
  /\ LetIn(t, "page")
  /\ Done(t, [tabs[t] EXCEPT !.page = tabs[t].as])
  /\ KeepsWorld /\ NoFault /\ UNCHANGED <<fresh, hookVars, slackVars>>

Forbidden(t) ==
  /\ LetIn(t, "create_key") \/ LetIn(t, "delete_key")
  /\ ~CheckCSRF(t)
  /\ Done(t, tabs[t])
  /\ KeepsWorld /\ NoFault /\ UNCHANGED <<fresh, hookVars, slackVars>>

(* createAPIKeyHandler inserts the key and then reads the list that shows  *)
(* it.                                                                     *)
InsertKey(t) ==
  /\ LetIn(t, "create_key") /\ CheckCSRF(t) /\ Draw
  /\ CreateAPIKey(fresh)
  /\ Becomes(t, [tabs[t] EXCEPT !.at = "listing", !.url = fresh])
  /\ KeepsWorld /\ NoFault /\ UNCHANGED slackVars

ListKeys(t) ==
  /\ tabs[t].at = "listing"
  /\ ShowAPIKey(tabs[t].url)
  /\ Done(t, [tabs[t] EXCEPT !.page = tabs[t].as, !.url = None])
  /\ KeepsWorld /\ NoFault /\ UNCHANGED <<fresh, slackVars>>

(* The key is stored, and nobody is told.                                  *)
ListFails(t) ==
  /\ tabs[t].at = "listing" /\ Fault
  /\ Done(t, [tabs[t] EXCEPT !.url = None])
  /\ KeepsWorld /\ UNCHANGED <<fresh, hookVars, slackVars>>

DeleteKey(t, key) ==
  /\ LetIn(t, "delete_key") /\ CheckCSRF(t)
  /\ DeleteAPIKey(key)
  /\ Done(t, tabs[t])
  /\ KeepsWorld /\ NoFault /\ UNCHANGED <<fresh, slackVars>>

(* A statement of a handler fails: 500 and nothing is changed.             *)
StatementFails(t) ==
  /\ \/ LetIn(t, "page")
     \/ (LetIn(t, "create_key") \/ LetIn(t, "delete_key")) /\ CheckCSRF(t)
  /\ Fault
  /\ Done(t, tabs[t])
  /\ KeepsWorld /\ UNCHANGED <<fresh, hookVars, slackVars>>

-----------------------------------------------------------------------------
(* The connection to Slack.                                                *)

SlackAuthorize(t) ==
  /\ LetIn(t, "slack_authorize") /\ Draw
  /\ Becomes(t, [Answered(tabs[t], Sets("slack", fresh)) EXCEPT !.url = fresh])
  /\ KeepsWorld /\ NoFault /\ UNCHANGED <<hookVars, slackVars>>

SendSlackCallback(t) ==
  /\ tabs[t].url \notin Handshakes \cup {None}
  /\ Send(t, "slack_callback")

StateMatches(t) == tabs[t].cookies["slack"] # None /\ tabs[t].cookies["slack"] = tabs[t].url

SlackCallbackRefused(t) ==
  /\ LetIn(t, "slack_callback")
  /\ ~StateMatches(t) \/ tabs[t].url \in exchanged
  /\ Answer(t, Sets("slack", None))
  /\ KeepsWorld /\ NoFault /\ UNCHANGED <<fresh, hookVars, slackVars>>

(* The exchange fails, or the token cannot be saved.                       *)
SlackCallbackFails(t) ==
  /\ LetIn(t, "slack_callback") /\ StateMatches(t) /\ Fault
  /\ Answer(t, Sets("slack", None))
  /\ KeepsWorld /\ UNCHANGED <<fresh, hookVars, slackVars>>

SaveToken(t, w) ==
  /\ LetIn(t, "slack_callback") /\ StateMatches(t) /\ tabs[t].url \notin exchanged
  /\ token' = w
  /\ exchanged' = exchanged \cup {tabs[t].url}
  /\ connecting' = [connecting EXCEPT ![t] = w]
  /\ overlapped' = (overlapped \/ \E o \in Tabs : tabs[o].at = "naming")
  /\ Becomes(t, [tabs[t] EXCEPT !.at = "naming"])
  /\ KeepsWorld /\ NoFault /\ UNCHANGED <<fresh, hookVars, team>>

(* Mutant of NewTeamName: a name that is there stays.                      *)
FirstTeamName(w) == IF team # Blank \/ w \in Unnamed THEN team ELSE w

NewTeamName(w) == IF w \in Unnamed THEN team ELSE w

(* A name that cannot be saved is ignored.                                 *)
SaveTeam(t) ==
  /\ tabs[t].at = "naming"
  /\ \/ team' = NewTeamName(connecting[t]) /\ NoFault
     \/ UNCHANGED team /\ Fault
  /\ connecting' = [connecting EXCEPT ![t] = Blank]
  /\ Answer(t, Sets("slack", None))
  /\ KeepsWorld /\ UNCHANGED <<fresh, hookVars, token, exchanged, overlapped>>

-----------------------------------------------------------------------------
Init ==
  /\ InitSessions /\ InitHooks
  /\ token = Connected /\ team = Connected /\ exchanged = {} /\ overlapped = FALSE
  /\ connecting = [t \in Tabs |-> Blank]

ConsoleSends(t) ==
  \/ Send(t, "page") \/ SendPost(t, "create_key") \/ SendPost(t, "delete_key")
  \/ Send(t, "slack_authorize") \/ SendSlackCallback(t)

Console(t) ==
  \/ RenderPage(t) \/ Forbidden(t) \/ StatementFails(t)
  \/ InsertKey(t) \/ ListKeys(t) \/ ListFails(t)
  \/ \E key \in Tokens : DeleteKey(t, key)
  \/ SlackAuthorize(t) \/ SlackCallbackRefused(t) \/ SlackCallbackFails(t)
  \/ \E w \in Workspaces : SaveToken(t, w)
  \/ SaveTeam(t)

Next ==
  \/ SessionsNext /\ UNCHANGED <<hookVars, slackVars>>
  \/ \E t \in Tabs : ConsoleSends(t) /\ UNCHANGED <<hookVars, slackVars>>
  \/ \E t \in Tabs : Console(t)
  \/ HooksNext /\ UNCHANGED <<sessionVars, slackVars>>

Spec == Init /\ [][Next]_vars

-----------------------------------------------------------------------------
(* The variables have their types; tokens are drawn once.                  *)
TypeOK ==
  /\ now \in 0..MaxTime /\ fresh \in 1..(MaxTokens + 1)
  /\ jar \in [Browsers -> [Cookies -> 0..(fresh - 1)]]
  /\ \A t \in Tabs :
       /\ tabs[t].at \in {"idle", "sent", "let_in", "listing", "naming", "answered"}
       /\ tabs[t].url \in 0..(fresh - 1)
       /\ tabs[t].at \in {"let_in", "listing", "naming"} => tabs[t].as \in Tokens
  /\ sessions \cap keys = {} /\ sessions \cap Handshakes = {} /\ keys \cap Handshakes = {}
  /\ {token, team} \subseteq Workspaces \cup {Blank}

(* A key is issued or deleted only in the name of the session whose page   *)
(* the admin was looking at, a session opened by a sign-in of that         *)
(* browser: not by a form that was rendered before somebody else signed in *)
(* in another tab (CheckCSRF, middleware.go:88-103).                       *)
ActsAsShown ==
  [][keys' # keys =>
       \E t \in Tabs : /\ tabs[t].at = "let_in" /\ tabs'[t].at # "let_in"
                       /\ tabs[t].page = tabs[t].as
                       /\ begun[opened[tabs[t].as].hand] = BrowserOf[t]]_vars

(* The settings page names the workspace that alerts are posted to: the    *)
(* token and the name, saved by two statements, belong together unless     *)
(* callbacks overlap, a statement fails, or Slack does not tell the name   *)
(* (handlers.go:217-223).                                                  *)
SlackNamesItsWorkspace ==
  (~overlapped /\ faults = 0 /\ token \notin Unnamed /\ \A t \in Tabs : tabs[t].at # "naming")
    => team = token
=============================================================================
