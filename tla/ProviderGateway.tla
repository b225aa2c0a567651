-------------------------- MODULE ProviderGateway ---------------------------
(***************************************************************************)
(* One owner's calls on the AI provider gateway: ai/gateway/src/gateway,   *)
(* index.ts and keypool.ts, over its stores, the vault and the usage log.  *)
(*                                                                         *)
(* A connection is one record with a pool of keys.  Every operation reads  *)
(* the record, awaits the vault, the provider or both, and puts the whole  *)
(* record back.  A key's secret is in the vault under the key's ref; a     *)
(* key stands for its ref here.  Models, routes by category, prices,       *)
(* texts, rate limiters and the connection's own status, which only the    *)
(* choice of a route reads, are left out; the route is any connection and  *)
(* the usable keys are tried in any order.  The day does not end.          *)
(***************************************************************************)
EXTENDS Naturals, FiniteSets, Functions

CONSTANTS
    Calls,          \* calls served at the same time
    Connections,    \* identifiers createConnection may generate
    Keys,           \* references the vault may generate
    None,
    MaxKeys,        \* maxKeysPerConnection
    MaxAttempts,    \* retry.maxAttempts, for a pool of one key
    DailyCeiling    \* dailyRequestCeiling

ASSUME GatewayAssumption ==
    /\ None \notin Connections \cup Keys /\ IsFiniteSet(Calls)
    /\ {MaxKeys, MaxAttempts, DailyCeiling} \subseteq Nat \ {0}

\* "rested" is a cooling key whose wait has passed
KeyStatuses == {"active", "cooling", "rested", "invalid"}

\* None is no pool of keys
ASSUME NoneAssumption == \A S \in SUBSET Keys : None \notin [S -> KeyStatuses]

VARIABLES
    connection,     \* the connection store: a record, or None
    vault,          \* the refs that have a secret
    default,        \* preferences.defaultConnectionId
    used,           \* usage records of the day
    call,           \* the calls underway
    known,          \* history: identifiers that were generated
    stale,          \* history: connections put back from an outdated read
    crossed         \* history: preferences put back from an outdated read

vars == <<connection, vault, default, used, call, known, stale, crossed>>

Outcomes == {"ok", "limit", "credit", "refused", "other"}

Free == [op |-> "none", at |-> "free", connection |-> None, keys |-> <<>>,
         fresh |-> TRUE, left |-> {}, single |-> FALSE, tries |-> 0,
         choice |-> None]

Existing == {n \in Connections : connection[n] # None}
PoolOf(n) == IF n \in Existing THEN DOMAIN connection[n] ELSE {}
Quiet == \A c \in Calls : call[c].at = "free"

(***************************************************************************)
(* keypool.ts.                                                             *)
(***************************************************************************)
UsableOrRetired(pool) == {k \in DOMAIN pool : pool[k] # "cooling"}

Usable(pool) == {k \in DOMAIN pool : pool[k] \in {"active", "rested"}}

\* only these are worth another key
KeySpecific(outcome) == outcome \in {"limit", "credit", "refused"}

\* markKeyHealthy and keyAfterFailure
Marked(pool, k, outcome) ==
    [pool EXCEPT ![k] = CASE outcome = "ok"                  -> "active"
                          [] outcome \in {"limit", "credit"} -> "cooling"
                          [] outcome = "refused"             -> "invalid"
                          [] OTHER                           -> @]

(***************************************************************************)
(* A put of a record outdates what other calls read of it; its deletion    *)
(* also the choice of a default that is not written yet.                   *)
(***************************************************************************)
Outdated(n, pool) ==
    [d \in Calls |->
        IF call[d].connection = n \/ (pool = None /\ call[d].choice = n)
          THEN [call[d] EXCEPT !.fresh = FALSE] ELSE call[d]]

Store(c, n, pool, next) ==
    /\ connection' = [connection EXCEPT ![n] = pool]
    /\ stale' = IF call[c].fresh THEN stale ELSE stale \cup {n}
    /\ call' = [Outdated(n, pool) EXCEPT ![c] = next]

Go(c, next) == call' = [call EXCEPT ![c] = next]

\* requireOwnedConnection
Load(c, op, n) ==
    /\ call[c].at = "free"
    /\ op \in {"add", "remove", "rewrite", "delete"}
    /\ n \in Existing
    /\ Go(c, [Free EXCEPT !.op = op, !.at = "loaded", !.connection = n,
                          !.keys = connection[n]])
    /\ UNCHANGED <<connection, vault, default, used, known, stale, crossed>>

(***************************************************************************)
(* generate and stream.                                                    *)
(***************************************************************************)
WithinCeilingByOne == used <= DailyCeiling

\* assertWithinDailyCeiling
WithinCeiling == used < DailyCeiling

Begin(c, op) ==
    /\ call[c].at = "free"
    /\ op \in {"generate", "stream"}
    /\ WithinCeiling
    /\ Go(c, [Free EXCEPT !.op = op, !.at = "route"])
    /\ UNCHANGED <<connection, vault, default, used, known, stale, crossed>>

\* the route may name any connection the owner has
Route(c, n) ==
    /\ call[c].at = "route"
    /\ n \in Existing
    /\ LET pool == connection[n] IN
       IF Usable(pool) # {}
         THEN Go(c, [call[c] EXCEPT !.at = "asking", !.connection = n,
                       !.keys = connection[n], !.left = Usable(pool),
                       !.single = call[c].op = "generate" /\ Cardinality(Usable(pool)) = 1])
         ELSE Go(c, IF call[c].op = "stream"
                      THEN [Free EXCEPT !.op = "stream", !.at = "record"]
                      ELSE Free)
    /\ UNCHANGED <<connection, vault, default, used, known, stale, crossed>>

NoRoute(c) ==
    /\ call[c].at = "route"
    /\ Go(c, Free)
    /\ UNCHANGED <<connection, vault, default, used, known, stale, crossed>>

\* the vault is read for each attempt, then the provider is asked
Answers(k) == IF k \in vault THEN Outcomes ELSE {"other"}

Generate(c, k, outcome) ==
    LET now  == call[c]
        pool == Marked(now.keys, k, outcome)
        goes == IF now.single
                  THEN outcome = "limit" /\ now.tries + 1 < MaxAttempts
                  ELSE KeySpecific(outcome) /\ now.left # {k}
    IN
    /\ now.at = "asking" /\ now.op = "generate"
    /\ k \in now.left /\ outcome \in Answers(k)
    /\ IF goes
         THEN /\ Go(c, [now EXCEPT !.keys = pool,
                          !.left = IF now.single THEN @ ELSE @ \ {k},
                          !.tries = IF now.single THEN @ + 1 ELSE @])
              /\ UNCHANGED <<connection, stale>>
         ELSE Store(c, now.connection, pool,
                    [Free EXCEPT !.op = "generate", !.at = "record"])
    /\ UNCHANGED <<vault, default, used, known, crossed>>

\* a stream keeps the pool it read: each put marks one key of that pool
Stream(c, k, outcome, started) ==
    LET now  == call[c]
        ends == started \/ ~KeySpecific(outcome) \/ now.left = {k}
    IN
    /\ now.at = "asking" /\ now.op = "stream"
    /\ k \in now.left /\ outcome \in Answers(k)
    /\ Store(c, now.connection,
             Marked(now.keys, k, outcome),
             IF ends THEN [Free EXCEPT !.op = "stream", !.at = "record"]
                     ELSE [now EXCEPT !.left = @ \ {k}, !.fresh = FALSE])
    /\ UNCHANGED <<vault, default, used, known, crossed>>

\* recordUsage
Record(c) ==
    /\ call[c].at = "record"
    /\ used' = used + 1
    /\ Go(c, Free)
    /\ UNCHANGED <<connection, vault, default, known, stale, crossed>>

\* an abort between two attempts, a stream its reader gives up: no record
Leave(c) ==
    /\ call[c].at = "asking"
    /\ Go(c, Free)
    /\ UNCHANGED <<connection, vault, default, used, known, stale, crossed>>

(***************************************************************************)
(* createConnection, addKey, removeKey, deleteConnection, and the calls    *)
(* that put the record back with the pool they read: validate, discover,   *)
(* update, and replaceCredential, which puts a new secret under the ref.   *)
(***************************************************************************)
Fresh == (Connections \cup Keys) \ known

KeepSecret(k) == vault

\* CredentialVault.delete
WithoutSecret(k) == vault \ {k}

Create(c, n, k, status) ==
    /\ call[c].at = "free"
    /\ {n, k} \subseteq Fresh
    /\ status \in {"active", "invalid"}
    /\ vault' = vault \cup {k}
    /\ known' = known \cup {n, k}
    /\ Go(c, [Free EXCEPT !.op = "create", !.at = "put", !.connection = n,
                !.keys = [j \in {k} |-> status]])
    /\ UNCHANGED <<connection, default, used, stale, crossed>>

AddKey(c, k) ==
    LET pool == call[c].keys IN
    /\ call[c].at = "loaded" /\ call[c].op = "add"
    /\ Cardinality(DOMAIN pool) < MaxKeys
    /\ k \in Keys \cap Fresh
    /\ vault' = vault \cup {k}
    /\ known' = known \cup {k}
    /\ Go(c, [call[c] EXCEPT !.at = "put", !.keys =
                [j \in DOMAIN pool \cup {k} |-> IF j = k THEN "active" ELSE pool[j]]])
    /\ UNCHANGED <<connection, default, used, stale, crossed>>

RemoveKey(c, k) ==
    LET pool == call[c].keys IN
    /\ call[c].at = "loaded" /\ call[c].op = "remove"
    /\ k \in DOMAIN pool
    /\ Cardinality(DOMAIN pool) > 1
    /\ vault' = WithoutSecret(k)
    /\ Go(c, [call[c] EXCEPT !.at = "put",
                             !.keys = Restrict(pool, DOMAIN pool \ {k})])
    /\ UNCHANGED <<connection, default, used, known, stale, crossed>>

Rewrite(c) ==
    /\ call[c].at = "loaded" /\ call[c].op = "rewrite"
    /\ Store(c, call[c].connection, call[c].keys, Free)
    /\ UNCHANGED <<vault, default, used, known, crossed>>

Put(c) ==
    LET now == call[c] IN
    /\ now.at = "put"
    /\ Store(c, now.connection, now.keys,
             IF now.op = "create"
               THEN [Free EXCEPT !.op = "create", !.at = "prefs",
                                 !.connection = now.connection]
               ELSE Free)
    /\ UNCHANGED <<vault, default, used, known, crossed>>

Refuse(c) ==
    /\ call[c].at = "loaded" /\ call[c].op # "delete"
    /\ Go(c, Free)
    /\ UNCHANGED <<connection, vault, default, used, known, stale, crossed>>

\* deleteConnection: the secrets of the pool it read, one await each
DropSecret(c, k) ==
    /\ call[c].at = "loaded" /\ call[c].op = "delete"
    /\ k \in DOMAIN call[c].keys
    /\ vault' = WithoutSecret(k)
    /\ Go(c, [call[c] EXCEPT !.keys = Restrict(@, DOMAIN @ \ {k})])
    /\ UNCHANGED <<connection, default, used, known, stale, crossed>>

Erase(c) ==
    LET now == call[c] IN
    /\ now.at = "loaded" /\ now.op = "delete" /\ now.keys = <<>>
    /\ Store(c, now.connection, None,
             [Free EXCEPT !.op = "delete", !.at = "prefs",
                          !.connection = now.connection])
    /\ UNCHANGED <<vault, default, used, known, crossed>>

(***************************************************************************)
(* Preferences: read, then put back.                                       *)
(***************************************************************************)
KeepDefault(n, choice) == choice = default

\* a connection that is gone leaves the default to one that remains
HandOver(n, choice) ==
    IF default # n THEN choice = default
    ELSE choice \in IF Existing = {} THEN {None} ELSE Existing

ReadPreferences(c, choice) ==
    LET now == call[c]
        prefer == [Free EXCEPT !.op = now.op, !.at = "prefer", !.choice = choice,
                          !.fresh = now.fresh]
    IN
    /\ now.at = "prefs"
    /\ \/ /\ now.op = "create" /\ default # None
          /\ choice = None
          /\ Go(c, Free)
       \/ /\ now.op = "create" /\ default = None
          /\ choice = now.connection
          /\ Go(c, prefer)
       \/ /\ now.op = "delete"
          /\ HandOver(now.connection, choice)
          /\ Go(c, prefer)
    /\ UNCHANGED <<connection, vault, default, used, known, stale, crossed>>

\* setPreferences
Prefer(c, choice) ==
    /\ call[c].at = "free"
    /\ choice \in Existing \cup {None}
    /\ Go(c, [Free EXCEPT !.op = "prefer", !.at = "prefer", !.choice = choice])
    /\ UNCHANGED <<connection, vault, default, used, known, stale, crossed>>

WritePreferences(c) ==
    /\ call[c].at = "prefer"
    /\ default' = call[c].choice
    /\ crossed' = (crossed \/ ~call[c].fresh)
    /\ call' = [d \in Calls |->
         IF d = c THEN Free
         ELSE IF call[d].at = "prefer" THEN [call[d] EXCEPT !.fresh = FALSE]
         ELSE call[d]]
    /\ UNCHANGED <<connection, vault, used, known, stale>>

\* a cooling key's wait passes
Rest(n, k) ==
    /\ n \in Existing /\ k \in PoolOf(n)
    /\ connection[n][k] = "cooling"
    /\ connection' = [connection EXCEPT ![n][k] = "rested"]
    /\ UNCHANGED <<vault, default, used, call, known, stale, crossed>>

Init ==
    /\ connection = [n \in Connections |-> None]
    /\ vault = {}
    /\ default = None
    /\ used = 0
    /\ call = [c \in Calls |-> Free]
    /\ known = {}
    /\ stale = {}
    /\ crossed = FALSE

Serve(c) ==
    \/ \E op \in {"generate", "stream"} : Begin(c, op)
    \/ \E n \in Connections : Route(c, n)
    \/ NoRoute(c) \/ Record(c) \/ Leave(c)
    \/ \E k \in Keys, outcome \in Outcomes :
         \/ Generate(c, k, outcome)
         \/ \E started \in BOOLEAN : Stream(c, k, outcome, started)

Manage(c) ==
    \/ \E op \in {"add", "remove", "rewrite", "delete"}, n \in Connections : Load(c, op, n)
    \/ \E n \in Connections, k \in Keys, status \in {"active", "invalid"} :
         Create(c, n, k, status)
    \/ \E k \in Keys : AddKey(c, k) \/ RemoveKey(c, k) \/ DropSecret(c, k)
    \/ Rewrite(c) \/ Put(c) \/ Refuse(c) \/ Erase(c)
    \/ \E choice \in Connections \cup {None} :
         ReadPreferences(c, choice) \/ Prefer(c, choice)
    \/ WritePreferences(c)

Next ==
    \/ \E c \in Calls : Serve(c) \/ Manage(c)
    \/ \E n \in Connections, k \in Keys : Rest(n, k)

Spec == Init /\ [][Next]_vars

-----------------------------------------------------------------------------
(* Every key on offer has its secret, and every secret belongs to a key,   *)
(* so that deleting a connection leaves nothing behind (index.ts:689).     *)
(* Only a record put back from an outdated read can break either.          *)
QuietVaultMatchesPools ==
    Quiet =>
        /\ \A n \in Existing \ stale : PoolOf(n) \subseteq vault
        /\ stale = {} => vault \subseteq UNION {PoolOf(n) : n \in Existing}

(* "A key the provider rejects as unauthenticated is retired and never     *)
(* spent again" (keypool.ts:15): only a record put back from an outdated   *)
(* read makes it usable.  A stream that rotates puts the pool it read back *)
(* a second time, and is such a call by itself.                            *)
RetiredKeysStayRetired ==
    [][\A n \in Existing : \A k \in PoolOf(n) \cap PoolOf(n)' :
         connection[n][k] = "invalid" /\ connection'[n][k] # "invalid"
         => n \in stale']_vars

(* The ceiling is compared with the records of calls that ended: calls     *)
(* served together exceed it, by one less than there are at most.          *)
CeilingHoldsButForOverlap ==
    used + Cardinality({c \in Calls : call[c].at = "record"})
        <= DailyCeiling + Cardinality(Calls) - 1

(* The default connection exists, unless preferences were put back from an *)
(* outdated read.                                                          *)
DefaultExists == Quiet /\ ~crossed => default \in Existing \cup {None}
=============================================================================
