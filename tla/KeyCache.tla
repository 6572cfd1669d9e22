------------------------------ MODULE KeyCache ------------------------------
(***************************************************************************)
(* auth.validate_token: which provider's keys a bearer token is checked    *)
(* with, the cache of those keys and the one retry after a bad signature.  *)
(* A provider signs with one key at a time, its generation, and publishes  *)
(* it with a key id or without; cryptography is the equality of the key    *)
(* that signed and the key that verifies.  The validation is synchronous   *)
(* and runs on the event loop, so it is one step between two other         *)
(* requests.                                                               *)
(***************************************************************************)
EXTENDS Naturals

CONSTANTS Provider, NoKeys,
          WithIssuer,        \* the providers whose issuer is configured
          Issuer,            \* iss claims that tokens carry, and who signs them
          Kid, NoKid,
          KeyId,             \* the kid a provider publishes with each of its keys
          JwksTTL, MaxGeneration

ASSUME KeyCacheAssumption ==
  /\ JwksTTL \in Nat \ {0} /\ MaxGeneration \in Nat
  /\ WithIssuer \subseteq Provider /\ Provider \subseteq Issuer
  /\ NoKid \notin Kid /\ KeyId \in [Provider -> [0 .. MaxGeneration -> Kid \cup {NoKid}]]
  /\ NoKeys \notin [signer : Provider, generation : 0 .. MaxGeneration, fetched : Nat]

VARIABLES now,
          published,         \* the generation each provider signs with
          rotated,           \* when it last changed
          jwks               \* the cached key set of each provider

keys == <<published, rotated, jwks>>

(* A token of a provider or of a stranger; its iss may not name its        *)
(* signer, and its kid may be missing or another key's.                    *)
Token == [iss : Issuer, signer : Issuer, generation : 0 .. MaxGeneration, kid : Kid \cup {NoKid}]

KeysInit ==
  /\ published = [p \in Provider |-> 0] /\ rotated = [p \in Provider |-> 0]
  /\ jwks = [p \in Provider |-> NoKeys]

Rotate(p) ==
  /\ published[p] < MaxGeneration
  /\ published' = [published EXCEPT ![p] = @ + 1]
  /\ rotated' = [rotated EXCEPT ![p] = now]
  /\ UNCHANGED jwks

(* Several providers: the issuer selects one by exact match, among those   *)
(* that have one configured.  One: it.                                     *)
resolve_provider(token) ==
  IF \A p, q \in Provider : p = q THEN Provider ELSE WithIssuer \cap {token.iss}

(* iss is checked against the selected provider's, if it has one. *)
ClaimsFit(token, p) == p \in WithIssuer => token.iss = p

(* The decoder (authlib before 2) takes the only key of the set for a      *)
(* token without kid and the key of that id for one with; a kid that is    *)
(* not in the set is a ValueError, a signature that does not fit the key   *)
(* a BadSignatureError.                                                    *)
KeyFound(token, entry) == token.kid \in {NoKid, KeyId[entry.signer][entry.generation]}
Verifies(token, entry) == token.signer = entry.signer /\ token.generation = entry.generation

Fetched(p) == [signer |-> p, generation |-> published[p], fetched |-> now]
Cached(p) == jwks[p] # NoKeys /\ now < jwks[p].fetched + JwksTTL

SharedEntry(p, entry) == [q \in Provider |-> entry]
Stored(p, entry) == [jwks EXCEPT ![p] = entry]

(* Of the two fetches a validation may need, served are the ones that the  *)
(* provider answers; one it does not answer raises.                        *)
FirstTry(p, served) ==
  IF Cached(p) THEN [entry |-> jwks[p], cache |-> jwks, ok |-> TRUE]
  ELSE [entry |-> Fetched(p), cache |-> Stored(p, Fetched(p)), ok |-> 1 \in served]

RetryCached(p, served) == FirstTry(p, served)

(* force_refresh drops the cached entry before it asks. *)
Retry(p, served) ==
  [entry |-> Fetched(p), cache |-> Stored(p, IF 2 \in served THEN Fetched(p) ELSE NoKeys), ok |-> 2 \in served]

(* Whether the token is valid, and the cache that is left behind.  Only a  *)
(* bad signature is retried; a missing key id is raised as it is.          *)
validate_token(token, served) ==
  IF resolve_provider(token) = {} THEN [valid |-> FALSE, cache |-> jwks]
  ELSE LET p == CHOOSE q \in resolve_provider(token) : TRUE
           first == FirstTry(p, served)
           again == Retry(p, served)
       IN  CASE ~first.ok -> [valid |-> FALSE, cache |-> jwks]
             [] first.ok /\ ~KeyFound(token, first.entry) -> [valid |-> FALSE, cache |-> first.cache]
             [] first.ok /\ KeyFound(token, first.entry) /\ Verifies(token, first.entry) ->
                  [valid |-> ClaimsFit(token, p), cache |-> first.cache]
             [] OTHER ->
                  [valid |-> again.ok /\ KeyFound(token, again.entry) /\ Verifies(token, again.entry) /\ ClaimsFit(token, p),
                   cache |-> again.cache]
=============================================================================
