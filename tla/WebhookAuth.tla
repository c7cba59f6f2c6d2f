---------------------------- MODULE WebhookAuth ----------------------------
(***************************************************************************)
(* Who may call /api/v1/alerts: checkWebhookAuth in                        *)
(* internal/http/handlers.go over the table api_keys                       *)
(* (internal/db/apikeys.go).  A request that carries a key asks the        *)
(* database twice, once for the key and once for the number of keys, while *)
(* keys are issued and deleted.                                            *)
(*                                                                         *)
(* A key is stored as its hash, and a key, its hash and its id are one     *)
(* token here.                                                             *)
(***************************************************************************)
EXTENDS Integers, FiniteSets

CONSTANTS Senders,       \* requests to the webhook handled at the same time
          BearerTokens,  \* whether BEARER_TOKEN may be set, and whether it may not
          MaxHooks,      \* bound: webhook requests
          MaxHookFaults  \* bound: their queries that fail

ASSUME WebhookAssumption ==
  BearerTokens \subseteq BOOLEAN /\ MaxHooks \in Nat /\ MaxHookFaults \in Nat

VARIABLES bearer,   \* whether BEARER_TOKEN is set
          keys,     \* api_keys
          known,    \* the keys that were shown to somebody
          hooks,    \* the requests
          hooked, hookFaults

hookVars == <<bearer, keys, known, hooks, hooked, hookFaults>>

(* What the Authorization header has besides a key.                        *)
Nobodys == 0
Static == -1

IdleHook == [at |-> "idle", key |-> Nobodys, could |-> {}]
Open(h) == h.at \in {"lookup", "count"}

-----------------------------------------------------------------------------
(* What an answer would be if all of it were decided at once.              *)
Decision(issued, key) ==
  IF (bearer /\ key = Static) \/ key \in issued \/ (~bearer /\ issued = {})
  THEN "admitted" ELSE "refused"

(* Every request that is being handled meets the table as it is now.       *)
Meets(all, issued) ==
  [s \in Senders |-> IF Open(all[s])
                     THEN [all[s] EXCEPT !.could = @ \cup {Decision(issued, all[s].key)}]
                     ELSE all[s]]

Asks(s, what) == hooks' = [hooks EXCEPT ![s].at = what]
Verdict(s, is) == hooks' = [hooks EXCEPT ![s] = [IdleHook EXCEPT !.at = is]]
KeepsKeys == UNCHANGED <<bearer, keys, known>>
HookFault == hookFaults < MaxHookFaults /\ hookFaults' = hookFaults + 1

(* The static token is compared without a query, and with BEARER_TOKEN set *)
(* a request without a key is refused without one.                         *)
HookArrives(s, key) ==
  /\ ~Open(hooks[s]) /\ hooked < MaxHooks /\ hooked' = hooked + 1
  /\ \/ bearer /\ key = Static /\ Verdict(s, "admitted")
     \/ bearer /\ key = Nobodys /\ Verdict(s, "refused")
     \/ /\ ~bearer \/ key \notin {Static, Nobodys}
        /\ hooks' = [hooks EXCEPT ![s] = [at |-> IF key = Nobodys THEN "count" ELSE "lookup",
                                          key |-> key, could |-> {Decision(keys, key)}]]
  /\ KeepsKeys /\ UNCHANGED hookFaults

(* APIKeyExists; an error is an answer of 401.                             *)
APIKeyExists(s) ==
  /\ hooks[s].at = "lookup"
  /\ \/ hooks[s].key \in keys /\ Verdict(s, "admitted")
     \/ hooks[s].key \notin keys /\ bearer /\ Verdict(s, "refused")
     \/ hooks[s].key \notin keys /\ ~bearer /\ Asks(s, "count")
  /\ KeepsKeys /\ UNCHANGED <<hooked, hookFaults>>

LookupFails(s) ==
  /\ hooks[s].at = "lookup" /\ HookFault
  /\ Verdict(s, "refused")
  /\ KeepsKeys /\ UNCHANGED hooked

(* anyAPIKeysExist.                                                        *)
CountAPIKeys(s) ==
  /\ hooks[s].at = "count"
  /\ Verdict(s, IF Cardinality(keys) > 0 THEN "refused" ELSE "admitted")
  /\ KeepsKeys /\ UNCHANGED <<hooked, hookFaults>>

(* Mutant of CountFails: as if there were no keys.                         *)
CountFailsOpen(s) ==
  /\ hooks[s].at = "count" /\ HookFault
  /\ Verdict(s, "admitted")
  /\ KeepsKeys /\ UNCHANGED hooked

(* An error is an answer of 401 as well ("fail closed").                   *)
CountFails(s) ==
  /\ hooks[s].at = "count" /\ HookFault
  /\ Verdict(s, "refused")
  /\ KeepsKeys /\ UNCHANGED hooked

-----------------------------------------------------------------------------
(* The statements of the console.                                          *)
CreateAPIKey(key) ==
  /\ keys' = keys \cup {key} /\ hooks' = Meets(hooks, keys')
  /\ UNCHANGED <<bearer, known, hooked, hookFaults>>

ShowAPIKey(key) == known' = known \cup {key} /\ UNCHANGED <<bearer, keys, hooks, hooked, hookFaults>>

DeleteAPIKey(key) ==
  /\ keys' = keys \ {key} /\ hooks' = Meets(hooks, keys')
  /\ UNCHANGED <<bearer, known, hooked, hookFaults>>

InitHooks ==
  /\ bearer \in BearerTokens
  /\ keys = {} /\ known = {}
  /\ hooks = [s \in Senders |-> IdleHook]
  /\ hooked = 0 /\ hookFaults = 0

HooksNext ==
  \/ \E s \in Senders : \E key \in known \cup {Nobodys, Static} : HookArrives(s, key)
  \/ \E s \in Senders : APIKeyExists(s) \/ LookupFails(s) \/ CountAPIKeys(s) \/ CountFails(s)

-----------------------------------------------------------------------------
(* The two queries of checkWebhookAuth see two states of api_keys, and yet *)
(* the answer is the one the keys called for at some moment while the      *)
(* request was handled; only a failed query may turn a sender away, and    *)
(* none lets one in (handlers.go:246-288).                                 *)
WebhookDecision ==
  [][\A s \in Senders : Open(hooks[s]) /\ ~Open(hooks'[s]) =>
       \/ hooks'[s].at \in hooks[s].could
       \/ hooks'[s].at = "refused" /\ hookFaults' # hookFaults]_hookVars
=============================================================================
